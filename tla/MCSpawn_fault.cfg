CONSTANTS
    MAX_PROCESSES = 3
    TIMER_DEMO_TICKS = 1
    MAX_LIFE = 2
    MAX_POOL = 7
    CODE_FRAMES = 1
SPECIFICATION SpawnSpec
INVARIANT ReusedIsComplete
CHECK_DEADLOCK FALSE
