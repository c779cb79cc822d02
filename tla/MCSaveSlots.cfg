SPECIFICATION SavesSpec
CONSTANTS
    Empty = Empty
    Contents = {1, 2}
    AUTO_SLOTS = 2
    MaxSaves = 5
    MaxSaveFaults = 2
    MaxStops = 2
INVARIANTS
    ReportedSavesStay
CHECK_DEADLOCK FALSE
