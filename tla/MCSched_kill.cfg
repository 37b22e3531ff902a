CONSTANTS
    MAX_PROCESSES = 3
    TIMER_DEMO_TICKS = 2
    MAX_LIFE = 2
SPECIFICATION Spec
PROPERTIES KillsLive
