SPECIFICATION ClientSpec
CONSTANTS
    None = None
    g1 = g1
    g2 = g2
    page = page
    Generations <- MCGenerations
    Topics <- MCTopics
    REQUEST_CAPACITY = 2
    RESULT_CAPACITY = 1
    FaultsUntil = 100
    MaxId = 3
INVARIANTS
    AnswersInOrder
    DataIsOfTheAskedGeneration
PROPERTIES
    OnlyACommitReplacesTheReader
    DropTerminates
    EveryRequestIsServed
