CONSTANTS
    FRAME_SIZE = 4
    LARGE_PAGE = 8
    INFO_SIZE = 1
    LEGACY_END = 8
    UNTYPED_LEN = 8
    MAX_REGIONS = 3
    MAX_EFFECTIVE_REGIONS = 6
    ADDR_LIMIT = 64
    FRAME_LIMIT = 13
    Infos <- Reports
    Images <- Links
    HeapLens = {0, 4, 12}
SPECIFICATION Spec
INVARIANTS LayoutSound PoolExact ImageMapped RefusedForCause
CHECK_DEADLOCK FALSE
