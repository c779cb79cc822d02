SPECIFICATION JournalSpec
CONSTANTS
    None = None
    here = here
    Existing = {1}
    Fresh = {}
    Windows <- MCWindows
    SpaceOf <- MCSpaceOf
    HoldsOf <- MCHoldsOf
    MAX_OBJECT_WRITES_PER_TRANSACTION = 1
    MAX_HISTORY_ENTRIES = 1
    PROJECT_REQUEST_CAPACITY = 2
    Placements = {1}
    Elsewhere = {2}
    JOURNAL_CHANNEL_CAPACITY = 1
    MaxJournalFaults = 0
    MaxCrashes = 1
    Budgets <- MCOneEdit
    MaxPublishes = 0
INVARIANTS
    JournalKeptUntilRestored
CHECK_DEADLOCK FALSE
