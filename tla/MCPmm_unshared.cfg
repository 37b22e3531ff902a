SPECIFICATION FairSpec
CONSTANTS
    t1 = t1
    t2 = t2
    t3 = t3
    Thread = {t1, t2, t3}
    NumFrames = 3
    FreeAtBoot = {1, 2}
    UntypedAtBoot = {0}
    SHARD_COUNT = 1
    SHARD_REFILL_BATCH = 2
    Cpu <- CPU0
    GEN_MOD = 1
    Refs = {}
    NONE = NONE
INVARIANTS NoPanic
PROPERTIES ImplementsPool LocksReleased
