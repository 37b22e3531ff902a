CONSTANTS
    MAX_Q = 3
    TIMER_DEMO_TICKS = 2
SPECIFICATION FairSpec
INVARIANTS SafeWhenOn FaultReported TrueMeansUp
PROPERTIES ShellComesUp TicksKeepComing KeysServed
CHECK_DEADLOCK FALSE
