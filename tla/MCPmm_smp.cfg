SPECIFICATION Spec
CONSTANTS
    t1 = t1
    t2 = t2
    Thread = {t1, t2}
    NumFrames = 3
    FreeAtBoot = {1, 2}
    UntypedAtBoot = {}
    SHARD_COUNT = 1
    SHARD_REFILL_BATCH = 1
    Cpu <- CPU0
    GEN_MOD = 2
    Refs = {"pin", "map"}
    NONE = NONE
SYMMETRY Symmetry
INVARIANTS FreeListsSound FreshGeneration
CHECK_DEADLOCK FALSE
