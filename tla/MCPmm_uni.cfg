SPECIFICATION Spec
CONSTANTS
    t1 = t1
    t2 = t2
    Thread = {t1}
    NumFrames = 4
    FreeAtBoot = {1, 2, 3}
    UntypedAtBoot = {0}
    SHARD_COUNT = 1
    SHARD_REFILL_BATCH = 2
    Cpu <- CPU0
    GEN_MOD = 1
    Refs = {"pin", "map"}
    NONE = NONE
INVARIANTS NoPanic PendingIsAwaited
PROPERTIES ImplementsPool NoneMeansEmpty
