SPECIFICATION StorySpec
CONSTANTS
    None = None
    Empty = Empty
    talk = talk
    bark = bark
    guard = guard
    gate = gate
    open = open
    alarm = alarm
    opens = opens
    rings = rings
    Records <- MCRecords
    Values = {}
    Scalars = {}
    Signals = {}
    Events = {}
    Actors <- MCActors
    Areas <- MCAreas
    Conversations <- MCConversations
    Variables <- MCVariables
    Triggers <- MCTriggers
    ModeOf <- MCModes
    LinesOf <- MCLines
    ListensTo <- MCListens
    DeedsOf <- MCDeeds
    Once <- MCOnce
    WALK_TIME = 1
    SETTLE_STEPS = 3
    MaxTime = 1
    MaxRefusals = 2
    MaxCommands = 4
    Contents = {}
    AUTO_SLOTS = 1
    MaxSaves = 1
    MaxSaveFaults = 0
    MaxStops = 1
    MaxLoads = 1
INVARIANTS
    FloorIsTheActive
    TriggersAreWhole
PROPERTIES
    ScopesAreSnapshots
CHECK_DEADLOCK FALSE
