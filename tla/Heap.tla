-------------------------------- MODULE Heap --------------------------------
(***************************************************************************)
(* The kernel heap (kernel/src/heap.rs): first fit over a linked list of   *)
(* free blocks that live in the heap itself, with splitting and coalescing.*)
(* Addresses and sizes count units of HEADER (16) bytes, the granularity   *)
(* of every block; memory is modelled by its 8-byte words, because a       *)
(* header's `next' and the base stashed before a payload may be the same   *)
(* word.  A client may write anything into its payload.                    *)
(*                                                                         *)
(* A call holds the FREELIST lock from start to end.  Its walk along the   *)
(* list is one step per block, its update of the list one step.            *)
(***************************************************************************)
EXTENDS Integers, FiniteSets

CONSTANTS
    START, TOTAL,   \* the region heap_init is given, in units (START > 0: 0 is null)
    Sizes, Aligns   \* the layouts clients ask for, in units

MIN_FREE == 2       \* 32 bytes
JUNK == -1          \* what a client wrote
END == START + TOTAL
Unit == START .. END - 1
Word == 2 * START .. 2 * END - 1

ASSUME HeapConstants ==
    /\ START \in Nat \ {0} /\ TOTAL \in Nat /\ TOTAL >= MIN_FREE
    /\ Sizes \subseteq Nat \ {0} /\ Aligns \subseteq Nat \ {0}

VARIABLES
    mem,                \* the words of the heap
    head, allocated,    \* FREELIST
    live,               \* the clients' pointers: payload -> size asked for
    pc, prev, cur,      \* the walk of the call in progress
    size, align, base   \* its arguments

vars == <<mem, head, allocated, live, pc, prev, cur, size, align, base>>

\* block_mut(b).size, block_mut(b).next, and the word before a payload.
Size(m, b) == m[2 * b]
NextOf(m, b) == m[2 * b + 1]
Stash(m, p) == m[2 * p - 1]

SetSize(m, b, n) == [m EXCEPT ![2 * b] = n]
SetNext(m, b, n) == [m EXCEPT ![2 * b + 1] = n]
SetStash(m, p, b) == [m EXCEPT ![2 * p - 1] = b]
Scribble(m, p, n) == [w \in Word |-> IF w \in 2 * p .. 2 * (p + n) - 1 THEN JUNK ELSE m[w]]

AlignUp(v, a) == ((v + a - 1) \div a) * a

\* heap_init has run.
Init ==
    /\ mem = [w \in Word |-> IF w = 2 * START THEN TOTAL ELSE IF w = 2 * START + 1 THEN 0 ELSE JUNK]
    /\ head = START
    /\ allocated = 0
    /\ live = [p \in {} |-> 0]
    /\ pc = "idle" /\ prev = 0 /\ cur = 0
    /\ size = 0 /\ align = 1 /\ base = 0

----------------------------------------------------------------------------
(* The walk along the free list *)

Enter(label) == pc = "idle" /\ pc' = label /\ prev' = 0 /\ cur' = head
\* Mutant: the walk stays where it is.
AdvanceNot == prev' = cur /\ cur' = cur
Advance == prev' = cur /\ cur' = NextOf(mem, cur)
Leave == pc' = "idle" /\ prev' = 0 /\ cur' = 0 /\ size' = 0 /\ align' = 1 /\ base' = 0

\* The list with `b' in the place that `cur' had behind `prev'.
Head(b) == IF prev = 0 THEN b ELSE head
Link(m, b) == IF prev = 0 THEN m ELSE SetNext(m, prev, b)

----------------------------------------------------------------------------
(* heap_alloc *)

Payload(b) == AlignUp(b + 1, align)
\* Mutant: the padding of an aligned payload is forgotten.
FitsUnaligned(b) == size + 1 <= Size(mem, b)
Fits(b) == Payload(b) + size <= b + Size(mem, b)
TailStart(b) == Payload(b) + size
Remainder(b) == b + Size(mem, b) - TailStart(b)
Splits(b) == Remainder(b) >= MIN_FREE

Consumed(b) == IF Splits(b) THEN TailStart(b) - b ELSE Size(mem, b)

Alloc(n, a) ==
    /\ Enter("alloc")
    /\ size' = n /\ align' = a
    /\ UNCHANGED <<mem, head, allocated, live, base>>

\* Mutant: only the first block is tried.
AllocGiveUp ==
    /\ pc = "alloc" /\ cur # 0 /\ ~Fits(cur)
    /\ prev' = cur /\ cur' = 0
    /\ UNCHANGED <<mem, head, allocated, live, pc, size, align, base>>

AllocNext ==
    /\ pc = "alloc" /\ cur # 0
    /\ ~Fits(cur)
    /\ Advance
    /\ UNCHANGED <<mem, head, allocated, live, pc, size, align, base>>

\* Mutant: the block keeps its old size.
SplitUnshrunk(b) ==
    LET t == TailStart(b)
    IN  Link(SetNext(SetSize(mem, t, Remainder(b)), t, NextOf(mem, b)), t)

\* The block's tail, when worth it, becomes a free block in its place.
SplitOff(b) ==
    LET t == TailStart(b)
        m == SetNext(SetSize(mem, t, Remainder(b)), t, NextOf(mem, b))
    IN  SetSize(Link(m, t), b, t - b)

\* The block is unlinked whole.
Unlink(b) == Link(mem, NextOf(mem, b))

AllocTake ==
    LET m == IF Splits(cur) THEN SplitOff(cur) ELSE Unlink(cur)
    IN  /\ pc = "alloc" /\ cur # 0
        /\ Fits(cur)
        /\ head' = Head(IF Splits(cur) THEN TailStart(cur) ELSE NextOf(mem, cur))
        /\ mem' = Scribble(SetStash(m, Payload(cur), cur), Payload(cur), size)
        /\ allocated' = allocated + Consumed(cur)
        /\ live' = [p \in DOMAIN live \cup {Payload(cur)} |-> IF p = Payload(cur) THEN size ELSE live[p]]
        /\ Leave

AllocNull ==
    /\ pc = "alloc" /\ cur = 0
    /\ Leave
    /\ UNCHANGED <<mem, head, allocated, live>>

----------------------------------------------------------------------------
(* heap_free *)

Free(p) ==
    /\ p \in DOMAIN live
    /\ Enter("free")
    /\ base' = Stash(mem, p)
    /\ live' = [q \in DOMAIN live \ {p} |-> live[q]]
    /\ UNCHANGED <<mem, head, allocated, size, align>>

FreeNext ==
    /\ pc = "free" /\ cur # 0 /\ cur < base
    /\ Advance
    /\ UNCHANGED <<mem, head, allocated, live, pc, size, align, base>>

\* Coalesce with the next neighbour, then with the previous one.
JoinNext(m) ==
    IF cur # 0 /\ base + Size(m, base) = cur
    THEN SetNext(SetSize(m, base, Size(m, base) + Size(m, cur)), base, NextOf(m, cur))
    ELSE m

\* Mutant: the previous neighbour is left alone.
JoinPrevNot(m) == m
JoinPrev(m) ==
    IF prev # 0 /\ prev + Size(m, prev) = base
    THEN SetNext(SetSize(m, prev, Size(m, prev) + Size(m, base)), prev, NextOf(m, base))
    ELSE m

FreeInsert ==
    /\ pc = "free" /\ (cur = 0 \/ cur >= base)
    /\ mem' = JoinPrev(JoinNext(Link(SetNext(mem, base, cur), base)))
    /\ head' = Head(base)
    /\ allocated' = allocated - Size(mem, base)
    /\ UNCHANGED live
    /\ Leave

----------------------------------------------------------------------------
Call ==
    \/ \E n \in Sizes, a \in Aligns : Alloc(n, a)
    \/ \E p \in DOMAIN live : Free(p)

Step == AllocNext \/ AllocTake \/ AllocNull \/ FreeNext \/ FreeInsert

Next == Call \/ Step

Spec == Init /\ [][Next]_vars

\* A call runs to its end with interrupts off.
FairSpec == Spec /\ WF_vars(Step)

----------------------------------------------------------------------------
(* Properties *)

\* The free list as a set: the least one that holds `head' and is closed under `next'.
FreeBlocks ==
    LET Closed == {S \in SUBSET Unit : head \in S \cup {0} /\ \A b \in S : NextOf(mem, b) \in S \cup {0}}
    IN  {b \in Unit : \A S \in Closed : b \in S}

LiveBlocks == {Stash(mem, p) : p \in DOMAIN live}

\* The block a free in progress has in its hands.
Moving == IF pc = "free" THEN {base} ELSE {}

Extent(b) == b .. b + Size(mem, b) - 1

TypeOK ==
    /\ mem \in [Word -> {JUNK} \cup 0 .. END]
    /\ head \in {0} \cup Unit /\ prev \in {0} \cup Unit /\ cur \in {0} \cup Unit
    /\ base \in {0} \cup Unit
    /\ allocated \in 0 .. TOTAL
    /\ DOMAIN live \subseteq Unit
    /\ pc \in {"idle", "alloc", "free"}

\* The blocks tile the heap: every byte is in exactly one block, free or handed
\* out, whatever clients write into their payloads (heap.rs:8-13).
Tiled(F) ==
    LET Blocks == F \cup LiveBlocks \cup Moving
    IN  /\ \A b \in Blocks : b \in Unit /\ Size(mem, b) >= 1 /\ Extent(b) \subseteq Unit
        /\ \A u \in Unit : \E b \in Blocks : u \in Extent(b)
        /\ \A b, c \in Blocks : b # c => Extent(b) \cap Extent(c) = {}
        /\ F \cap (LiveBlocks \cup Moving) = {}

\* The free list is sorted by address, so that it ends, and no two of its blocks
\* are neighbours: freed memory is always merged (heap.rs:9-11; the test at
\* heap.rs:229-234).
Coalesced ==
    \A b \in FreeBlocks : /\ Size(mem, b) >= MIN_FREE
                          /\ NextOf(mem, b) # 0 => NextOf(mem, b) > b + Size(mem, b)

\* What a client asked for lies inside its block, behind the header, and no
\* two clients share a block (heap.rs:97-98, 124-127).
PayloadsApart ==
    /\ \A p \in DOMAIN live : LET b == Stash(mem, p)
                              IN  b < p /\ p + live[p] <= b + Size(mem, b)
    /\ \A p, q \in DOMAIN live : p # q => Stash(mem, p) # Stash(mem, q)

\* `allocated' counts the bytes that are not free (heap.rs:32-33).
Accounting(F) ==
    allocated = TOTAL - Cardinality(UNION {Extent(b) : b \in F})

\* The blocks in the memory, the list through it and the counter agree at every
\* step of a call (heap.rs:8-13, heap.rs:32-33).
HeapSound == LET F == FreeBlocks IN TypeOK /\ Tiled(F) /\ Accounting(F)

\* heap_alloc returns null only when no free block has room for the request
\* (first fit misses nothing, heap.rs:92-136).
NullMeansFull ==
    [][pc = "alloc" /\ pc' = "idle" /\ live' = live => \A b \in FreeBlocks : ~Fits(b)]_vars

\* Every call returns: the walk along the list ends.
CallsReturn == pc # "idle" ~> pc = "idle"
=============================================================================
