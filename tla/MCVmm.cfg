CONSTANTS
    FRAME_SIZE = 2
    ENTRIES = 4
    RAM = 18
    MASK = 32
    Pools <- BootPools
    VA <- Addresses
    MAX_HELD = 1
    TLB_SIZE = 1
SPECIFICATION Spec
INVARIANTS TreeSound MappingsCounted LeafDecides TlbSound
PROPERTIES ImplementsSpace
CHECK_DEADLOCK FALSE
