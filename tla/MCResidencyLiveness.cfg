SPECIFICATION ResidencySpec
CONSTANTS
    None = None
    g1 = g1
    g2 = g2
    s1 = s1
    s2 = s2
    near = near
    far = far
    tree = tree
    rock = rock
    hill = hill
    oak = oak
    Generations <- MCGenerations
    Spaces <- MCOneSpace
    Views <- MCViews
    Topics <- MCTopics
    Unindexable = {}
    SpacesOf <- MCOneSpaceOf
    CellSizeOf <- MCCellSizes
    DefaultSpace <- MCDefault
    REQUEST_CAPACITY = 1
    RESULT_CAPACITY = 1
    FaultsUntil = 0
    MaxInputs = 1
    Pages <- MCPages
    PagesAround <- MCAllAround
    PagesIn <- MCPagesIn
    DecodedBytes <- MCDecodedBytes
    OwnGpuBytes <- MCOwnGpuBytes
    VariantsOf <- MCVariantsOf
    VariantGpuBytes <- MCVariantGpuBytes
    MAX_PENDING_SOURCE_PAGES = 2
    MAX_ATTACHMENTS_PER_FRAME = 1
    MAX_RESIDENT_DECODED_BYTES = 3
    MAX_RESIDENT_GPU_BYTES_ESTIMATE = 6
PROPERTIES
    DemandIsServed
