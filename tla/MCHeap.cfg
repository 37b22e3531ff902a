CONSTANTS
    START = 3
    TOTAL = 9
    Sizes = {1, 2, 3}
    Aligns = {1, 2, 4}
SPECIFICATION FairSpec
INVARIANTS HeapSound PayloadsApart Coalesced
PROPERTIES NullMeansFull CallsReturn
