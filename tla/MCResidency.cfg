SPECIFICATION ResidencySpec
CONSTANTS
    None = None
    g1 = g1
    g2 = g2
    s1 = s1
    s2 = s2
    near = near
    far = far
    tree = tree
    rock = rock
    hill = hill
    oak = oak
    Generations <- MCGenerations
    Spaces <- MCSpaces
    Views <- MCViews
    Topics <- MCTopics
    Unindexable = {}
    SpacesOf <- MCSpacesOf
    CellSizeOf <- MCCellSizes
    DefaultSpace <- MCDefault
    REQUEST_CAPACITY = 1
    RESULT_CAPACITY = 1
    FaultsUntil = 1
    MaxInputs = 2
    Pages <- MCPages
    PagesAround <- MCPagesAround
    PagesIn <- MCPagesIn
    DecodedBytes <- MCDecodedBytes
    OwnGpuBytes <- MCOwnGpuBytes
    VariantsOf <- MCVariantsOf
    VariantGpuBytes <- MCVariantGpuBytes
    MAX_PENDING_SOURCE_PAGES = 2
    MAX_ATTACHMENTS_PER_FRAME = 2
    MAX_RESIDENT_DECODED_BYTES = 3
    MAX_RESIDENT_GPU_BYTES_ESTIMATE = 5
INVARIANTS
    BudgetHolds
    PagesAreCurrent
    PagesOnTheirWayArrive
PROPERTIES
    DemandedPagesStay
