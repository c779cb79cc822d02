SPECIFICATION EditorSpec
CONSTANTS
    None = None
    here = here
    there = there
    Existing = {1}
    Fresh = {2}
    Windows <- MCWindows
    SpaceOf <- MCSpaceOf
    HoldsOf <- MCHoldsOf
    MAX_OBJECT_WRITES_PER_TRANSACTION = 1
    MAX_HISTORY_ENTRIES = 2
    PROJECT_REQUEST_CAPACITY = 2
    Placements = {0, 1}
    Elsewhere = {2}
    Budgets <- MCBudgets
    MaxPublishes = 1
INVARIANTS
    BaseIsTheRow
    UndoIsNeverStuck
PROPERTIES
    NoSilentOverwrite
    EditsAreKept
    RuntimeIsWhatWasCooked
    SaveEnds
CHECK_DEADLOCK FALSE
