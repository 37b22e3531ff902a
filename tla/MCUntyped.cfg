CONSTANTS
    t1 = t1
    t2 = t2
    Thread = {t1, t2}
    Regions <- TwoRegions
    NumFrames = 5
    COUNT_MOD = 8
    MAX_CAPS = 4
SPECIFICATION FairSpec
INVARIANTS CapsSound
PROPERTIES ExhaustedIsTrue RetypeReturns
