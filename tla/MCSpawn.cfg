CONSTANTS
    MAX_PROCESSES = 5
    TIMER_DEMO_TICKS = 2
    MAX_LIFE = 2
    MAX_POOL = 18
    CODE_FRAMES = 2
SPECIFICATION SpawnFairSpec
INVARIANTS CpuIsCurrent StaysUp AmpleIsSafe FramesSound LeftoversFirst
PROPERTY EveryoneRuns
CHECK_DEADLOCK FALSE
