SPECIFICATION ClipmapSpec
CONSTANTS
    None = None
    g1 = g1
    g2 = g2
    s1 = s1
    near = near
    far = far
    n1 = n1
    n2 = n2
    Generations <- MCGenerations
    Spaces <- MCSpaces
    Views <- MCViews
    Topics <- MCTopics
    Unindexable = {}
    SpacesOf <- MCOneSpace
    CellSizeOf <- MCCellSizes
    DefaultSpace <- MCDefault
    REQUEST_CAPACITY = 2
    RESULT_CAPACITY = 1
    FaultsUntil = 2
    MaxInputs = 1
    Nodes <- MCNodes
    WindowOf <- MCWindowOf
    DemandOf <- MCDemandOf
    NodesIn <- MCNodesIn
    LayoutOf <- MCSame
    SurfacesOf <- MCSame
    BATCH = 1
    IN_FLIGHT = 1
    RetriesUntil = 100
PROPERTIES
    GroundCatchesUp
    FailureIsRetried
    GroundLeavesForAReason
INVARIANTS
    GroundIsOfThePublication
    AskedNodesArrive
