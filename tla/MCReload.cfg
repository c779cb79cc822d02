SPECIFICATION Spec
CONSTANTS
    None = None
    g1 = g1
    g2 = g2
    s1 = s1
    s2 = s2
    near = near
    far = far
    Generations <- MCGenerations
    Spaces <- MCSpaces
    Views <- MCViews
    Topics <- MCWindows
    Unindexable = {}
    SpacesOf <- MCRemoves
    CellSizeOf <- MCCellSizes
    DefaultSpace <- MCDefault
    REQUEST_CAPACITY = 2
    RESULT_CAPACITY = 2
    FaultsUntil = 100
    MaxInputs = 3
INVARIANTS
    HandshakeInv
    StreamingTypeOK
    ReaderFollowsManifest
    CommitIsNeverRefused
    CandidateIsOwned
    IndexIsCurrent
    IndexRequestIsOfTheActiveSpace
    OneSpace
PROPERTIES
    ReloadIsAtomic
