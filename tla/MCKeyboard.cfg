CONSTANTS
    RING_SIZE = 3
    MAX_LINE = 1
    Letters = {"a"}
    Symbols = {"1"}
    Controls = {"bksp"}
    Unmapped = {"f1"}
SPECIFICATION KbdSpec
INVARIANTS InStep
PROPERTIES RingIsQueue
