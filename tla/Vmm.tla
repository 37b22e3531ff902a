-------------------------------- MODULE Vmm --------------------------------
(***************************************************************************)
(* The kernel address space (kernel/src/vmm.rs): a four-level tree of page *)
(* tables in frames of the allocator, the 2 MiB windows of new_kernel, 4   *)
(* KiB pages that are mapped and unmapped one by one, the mapping counts   *)
(* of the frames behind them, and the TLB in front.                        *)
(*                                                                         *)
(* Addresses are numbers, scaled down: a page has FRAME_SIZE bytes, a table *)
(* ENTRIES entries, so that Span(4) stands for 2^48, and TOP = 2 for the    *)
(* values of the 16 bits above.  One context (the boot flow or the shell)  *)
(* changes the tables; the CPU fills and evicts TLB entries at any time.   *)
(***************************************************************************)
EXTENDS Integers, FiniteSets, FiniteSetsExt, SequencesExt

CONSTANTS
    FRAME_SIZE, ENTRIES,    \* arch.rs: 4096; vmm.rs TABLE_ENTRIES: 512
    RAM,                    \* total_frames()
    MASK,                   \* frames ADDR_MASK_4K can tell apart: 2^24
    Pools,                  \* what may be Free when the tables are built
    VA,                     \* bound: the addresses operations are called with
    MAX_HELD,               \* bound: frames the clients hold at a time
    TLB_SIZE                \* bound: translations cached at a time

ASSUME VmmConstants ==
    /\ FRAME_SIZE \in Nat \ {0} /\ ENTRIES \in Nat \ {0} /\ RAM \in Nat \ {0}
    /\ MASK \in Nat \ {0} /\ MAX_HELD \in Nat /\ TLB_SIZE \in Nat
    /\ Pools \subseteq SUBSET (1 .. RAM - 1) /\ VA \subseteq Nat

VARIABLES
    table,      \* what each frame holds, read as a page table
    pool,       \* the Free frames
    held,       \* frames the clients allocated and have not released
    pending,    \* frames released while mapped (owner Pending)
    mappings,   \* FrameInfo.mappings
    root,       \* PageTable.root, NULL before new_kernel
    status,     \* "boot", "built", "active" (CR3 holds the root) or "failed"
    flushing,   \* unmap is between the clearing of the entry and invlpg: its va
    tlb         \* the translations the CPU has cached

frames == <<pool, held, pending, mappings>>
vars == <<table, frames, root, status, flushing, tlb>>

Frame == 0 .. RAM - 1
NULL == -1
TOP == 2

----------------------------------------------------------------------------
(* Addresses and entries *)

Span(level) == FRAME_SIZE * ENTRIES ^ level
LARGE_PAGE == Span(1)
PHYSMAP == (TOP - 1) * Span(4) + Span(4) \div 2

index(va, level) == (va \div Span(level)) % ENTRIES

\* is_canonical: the bits above the sign bit repeat it.
is_canonical(va) ==
    LET sign == (va \div (Span(4) \div 2)) % 2
    IN  va \div Span(4) = IF sign = 0 THEN 0 ELSE TOP - 1

\* The pages among the addresses.
Page == {va \in VA : is_canonical(va) /\ va % FRAME_SIZE = 0}

AlignUp(value, align) == ((value + align - 1) \div align) * align

Entry == [present : BOOLEAN, huge : BOOLEAN, user : BOOLEAN, pa : Nat]
Absent == [present |-> FALSE, huge |-> FALSE, user |-> FALSE, pa |-> 0]
Leaf(pa, huge, user) == [present |-> TRUE, huge |-> huge, user |-> user, pa |-> pa]

ZeroTable == [i \in 0 .. ENTRIES - 1 |-> Absent]
\* A frame that is not a table holds data: bytes that would pass for an entry.
Data == [i \in 0 .. ENTRIES - 1 |-> Leaf(0, FALSE, TRUE)]

phys_of(e) == e.pa \div FRAME_SIZE
Mask4K(pa) == pa % (MASK * FRAME_SIZE)

----------------------------------------------------------------------------
(* The walk.  A walk is at a table, `at', with the tables and the pool as   *)
(* it left them and the result so far.                                     *)

Walk == [root |-> root, at |-> root, table |-> table, pool |-> pool, res |-> "Ok"]

\* Mutants: the new table is not cleared; an intermediate entry is not promoted.
GrowDirty(w, i, user) ==
    LET new == Min(w.pool)
    IN  [w EXCEPT !.table[w.at][i] = Leaf(new * FRAME_SIZE, FALSE, user), !.pool = @ \ {new}, !.at = new]
PassUnpromoted(w, i, user) == [w EXCEPT !.at = phys_of(w.table[w.at][i])]

\* A missing entry: a fresh, zeroed table.
Grow(w, i, user) ==
    LET new == Min(w.pool)
    IN  [w EXCEPT !.table[new] = ZeroTable,
                  !.table[w.at][i] = Leaf(new * FRAME_SIZE, FALSE, user),
                  !.pool = @ \ {new},
                  !.at = new]

\* A present one: promoted to USER when a user page lies below it.
Pass(w, i, user) ==
    [w EXCEPT !.table[w.at][i].user = @ \/ user,
              !.at = phys_of(w.table[w.at][i])]

\* One level of map and map_window; an error ends the walk, and what it has
\* built by then stays.
Descend(w, va, level, user) ==
    LET i == index(va, level)
        e == w.table[w.at][i]
    IN  CASE w.res # "Ok"               -> w
          [] ~e.present /\ w.pool = {}  -> [w EXCEPT !.res = "AllocFailed"]
          [] ~e.present /\ w.pool # {}  -> Grow(w, i, user)
          [] e.present /\ e.huge        -> [w EXCEPT !.res = "Conflict"]
          [] OTHER                      -> Pass(w, i, user)

\* Mutant: a present leaf is overwritten.
SetLeafAlways(w, va, level, leaf) ==
    IF w.res # "Ok" THEN w ELSE [w EXCEPT !.table[w.at][index(va, level)] = leaf]

SetLeaf(w, va, level, leaf) ==
    LET i == index(va, level)
    IN  CASE w.res # "Ok"                   -> w
          [] w.table[w.at][i].present       -> [w EXCEPT !.res = "Conflict"]
          [] OTHER                          -> [w EXCEPT !.table[w.at][i] = leaf]

\* map, past its checks.
MapWalk(va, pa, user) ==
    LET pdp == Descend(Walk, va, 3, user)
        pd == Descend(pdp, va, 2, user)
        pt == Descend(pd, va, 1, user)
    IN  SetLeaf(pt, va, 0, Leaf(pa, FALSE, user))

\* One turn of map_window's loop: the 2 MiB page at base + pa.
WindowPage(w, base, pa) ==
    LET pdp == Descend([w EXCEPT !.at = w.root], base + pa, 3, FALSE)
        pd == Descend(pdp, base + pa, 2, FALSE)
    IN  SetLeaf(pd, base + pa, 1, Leaf(pa, TRUE, FALSE))

map_window(w, base, bytes) ==
    LET turns[k \in 0 .. bytes \div LARGE_PAGE] ==
            IF k = 0 THEN w ELSE WindowPage(turns[k - 1], base, (k - 1) * LARGE_PAGE)
    IN  turns[bytes \div LARGE_PAGE]

\* The software walk of translate, and the hardware's: the entries from the
\* root down to the one that decides, absent or leaf.
Path(va) ==
    LET e3 == table[root][index(va, 3)]
        e2 == table[phys_of(e3)][index(va, 2)]
        e1 == table[phys_of(e2)][index(va, 1)]
        e0 == table[phys_of(e1)][index(va, 0)]
    IN  CASE ~e3.present            -> <<e3>>
          [] ~e2.present \/ e2.huge -> <<e3, e2>>
          [] ~e1.present \/ e1.huge -> <<e3, e2, e1>>
          [] OTHER                  -> <<e3, e2, e1, e0>>

\* translate: NULL for None.
translate(va) ==
    IF ~is_canonical(va) THEN NULL
    ELSE LET p == Path(va)
             e == Last(p)
         IN  IF ~e.present THEN NULL
             ELSE IF e.huge THEN e.pa + (va % Span(4 - Len(p)))
             ELSE Mask4K(e.pa) + (va % FRAME_SIZE)

\* The CPU lets ring 3 through when every level does.
UserReach(va) == \A i \in DOMAIN Path(va) : Path(va)[i].user

----------------------------------------------------------------------------
(* Actions.  A map or unmap that its checks reject changes nothing and is   *)
(* no step of its own.                                                      *)

Init ==
    /\ table = [f \in Frame |-> Data]
    /\ pool \in Pools
    /\ held = {} /\ pending = {} /\ mappings = [f \in Frame |-> 0]
    /\ root = NULL /\ status = "boot" /\ flushing = NULL
    /\ tlb = << >>

Window == AlignUp(RAM * FRAME_SIZE, LARGE_PAGE)

\* The two windows, built from the root up.
BuiltFrom(new) ==
    LET w == [root |-> new, at |-> new, table |-> [table EXCEPT ![new] = ZeroTable],
              pool |-> pool \ {new}, res |-> "Ok"]
    IN  map_window(map_window(w, 0, Window), PHYSMAP, Window)

\* new_kernel.  Without a frame for the root or for a table it returns None,
\* and rust_entry halts.
NewKernel ==
    /\ status = "boot"
    /\ pool # {}
    /\ root' = Min(pool)
    /\ LET w == BuiltFrom(Min(pool))
       IN  /\ table' = w.table
           /\ pool' = w.pool
           /\ status' = IF w.res = "Ok" THEN "built" ELSE "failed"
    /\ UNCHANGED <<held, pending, mappings, flushing, tlb>>

NewKernelNoRoot ==
    /\ status = "boot" /\ pool = {}
    /\ status' = "failed"
    /\ UNCHANGED <<table, frames, root, flushing, tlb>>

\* activate: CR3, which empties the TLB.
Activate ==
    /\ status = "built"
    /\ status' = "active"
    /\ tlb' = << >>
    /\ UNCHANGED <<table, frames, root, flushing>>

Idle == status = "active" /\ flushing = NULL

\* The checks in front of map's walk.
MapCheck(va, pa) ==
    /\ is_canonical(va)
    /\ va % FRAME_SIZE = 0 /\ pa % FRAME_SIZE = 0
    /\ pa < RAM * FRAME_SIZE

\* Mutant: the mapping is counted whether or not the walk fails.
CountAnyway(f, res) == mappings' = [mappings EXCEPT ![f] = @ + 1]

add_mapping(f, res) ==
    mappings' = IF res = "Ok" THEN [mappings EXCEPT ![f] = @ + 1] ELSE mappings

\* map: on an error the tables the walk has created stay in the tree.
Map(va, f, user) ==
    LET w == MapWalk(va, f * FRAME_SIZE, user)
    IN  /\ Idle
        /\ MapCheck(va, f * FRAME_SIZE)
        /\ table' = w.table
        /\ pool' = w.pool
        /\ add_mapping(f, w.res)
        /\ UNCHANGED <<held, pending, root, status, flushing, tlb>>

\* The checks of unmap, on the way down and at the leaf.
UnmapCheck(va) ==
    /\ is_canonical(va)
    /\ va % FRAME_SIZE = 0
    /\ Last(Path(va)).present /\ ~Last(Path(va)).huge

\* remove_mapping: a Pending frame that loses its last mapping is released.
remove_mapping(f) ==
    LET drained == f \in pending /\ mappings[f] = 1
    IN  /\ mappings' = [mappings EXCEPT ![f] = @ - 1]
        /\ pending' = IF drained THEN pending \ {f} ELSE pending
        /\ pool' = IF drained THEN pool \cup {f} ELSE pool

\* unmap clears the entry and drops the mapping ...
UnmapClear(va) ==
    LET t == phys_of(Path(va)[3])
    IN  /\ Idle
        /\ UnmapCheck(va)
        /\ remove_mapping(Mask4K(Last(Path(va)).pa) \div FRAME_SIZE)
        /\ table' = [table EXCEPT ![t][index(va, 0)] = Absent]
        /\ flushing' = va
        /\ UNCHANGED <<held, root, status, tlb>>

Forget(va) == [v \in DOMAIN tlb \ {va} |-> tlb[v]]

\* Mutant: no invlpg.
ReturnUnflushed == flushing # NULL /\ flushing' = NULL /\ UNCHANGED <<table, frames, root, status, tlb>>

\* ... then drops the TLB entry and returns.
UnmapFlush ==
    /\ flushing # NULL
    /\ tlb' = Forget(flushing)
    /\ flushing' = NULL
    /\ UNCHANGED <<table, frames, root, status>>

\* The CPU caches a translation, or drops one.
TlbFill(va) ==
    /\ status = "active" /\ translate(va) # NULL
    /\ va \notin DOMAIN tlb /\ Cardinality(DOMAIN tlb) < TLB_SIZE
    /\ tlb' = [v \in DOMAIN tlb \cup {va} |->
                 IF v = va THEN [pa |-> translate(va), user |-> UserReach(va)] ELSE tlb[v]]
    /\ UNCHANGED <<table, frames, root, status, flushing>>

TlbEvict(va) ==
    /\ va \in DOMAIN tlb
    /\ tlb' = Forget(va)
    /\ UNCHANGED <<table, frames, root, status, flushing>>

\* Clients of the allocator (Pmm.tla): alloc_frame and release_frame.
AllocFrame ==
    /\ Idle /\ pool # {} /\ Cardinality(held) < MAX_HELD
    /\ held' = held \cup {Min(pool)}
    /\ pool' = pool \ {Min(pool)}
    /\ UNCHANGED <<table, pending, mappings, root, status, flushing, tlb>>

ReleaseFrame(f) ==
    /\ Idle /\ f \in held
    /\ held' = held \ {f}
    /\ IF mappings[f] > 0
       THEN pending' = pending \cup {f} /\ UNCHANGED pool
       ELSE pool' = pool \cup {f} /\ UNCHANGED pending
    /\ UNCHANGED <<table, mappings, root, status, flushing, tlb>>

Next ==
    \/ NewKernel \/ NewKernelNoRoot \/ Activate
    \/ AllocFrame \/ UnmapFlush
    \/ \E f \in held : ReleaseFrame(f)
    \/ \E va \in VA : UnmapClear(va) \/ \E f \in held, user \in BOOLEAN : Map(va, f, user)
    \/ \E va \in Page : TlbFill(va) \/ TlbEvict(va)

Spec == Init /\ [][Next]_vars

----------------------------------------------------------------------------
(* Properties *)

TypeOK ==
    /\ \A f \in Frame, i \in 0 .. ENTRIES - 1 : table[f][i] \in Entry
    /\ pool \subseteq Frame /\ held \subseteq Frame /\ pending \subseteq Frame
    /\ mappings \in [Frame -> Nat]
    /\ root \in Frame \cup {NULL} /\ status \in {"boot", "built", "active", "failed"}
    /\ flushing \in VA \cup {NULL}
    /\ DOMAIN tlb \subseteq Page

\* The frames of the tree below the root, level by level.
Below(ts) == {<<t, i>> \in ts \X (0 .. ENTRIES - 1) : table[t][i].present /\ ~table[t][i].huge}
Targets(links) == {phys_of(table[l[1]][l[2]]) : l \in links}

\* The tables form a tree: every entry above the last level leads to a table of
\* its own, and no table is Free, held by a client or mapped as a page, also
\* after a map that ran out of frames half way (vmm.rs:132-138).
TreeSound ==
    root # NULL =>
        LET l2 == Below({root})
            l1 == Below(Targets(l2))
            l0 == Below(Targets(l1))
            ts == {root} \cup Targets(l2) \cup Targets(l1) \cup Targets(l0)
        IN  /\ TypeOK
            /\ Cardinality(ts) = 1 + Cardinality(l2) + Cardinality(l1) + Cardinality(l0)
            /\ ts \cap (pool \cup held \cup pending) = {}
            /\ \A f \in ts : mappings[f] = 0

\* The 4 KiB pages behind which frame f lies.
MappedAt(f) ==
    {va \in Page : Len(Path(va)) = 4 /\ Last(Path(va)).present /\ phys_of(Last(Path(va))) = f}

\* A frame's mapping count is the number of 4 KiB pages that lead to it, however
\* maps fail and unmaps interleave with releases (vmm.rs:117-118, vmm.rs:163-164).
MappingsCounted ==
    root # NULL => \A f \in Frame : mappings[f] = Cardinality(MappedAt(f))

\* Ring 3 reaches a 4 KiB page exactly when its leaf says so: the levels above
\* never take the right away, whichever maps created them (vmm.rs:143-149).
LeafDecides ==
    status = "active" =>
        \A va \in Page : Last(Path(va)).present => (UserReach(va) <=> Last(Path(va)).user)

\* The TLB agrees with the tables, except for the page unmap is about to flush
\* (vmm.rs:191-193).
TlbCoherent ==
    \A va \in DOMAIN tlb \ {flushing} : tlb[va] = [pa |-> translate(va), user |-> UserReach(va)]

\* A frame that can be allocated again is out of reach: no page leads to it, and
\* no TLB entry but the one unmap is about to flush (vmm.rs:188-193).
FreeIsUnreachable ==
    status = "active" =>
        \A f \in pool :
            /\ MappedAt(f) = {}
            /\ \A va \in DOMAIN tlb \ {flushing} :
                 f = tlb[va].pa \div FRAME_SIZE => Len(Path(va)) < 4

\* No stale translation outlives the unmap that made it stale, and none leads to
\* memory that somebody else may be given (vmm.rs:188-193).
TlbSound == TlbCoherent /\ FreeIsUnreachable

\* Where the windows lead: identity below RAM's end, and the mirror.
WindowFrame(va) == (IF va >= PHYSMAP THEN va - PHYSMAP ELSE va) \div FRAME_SIZE
WindowPages == {va \in Page : va < Window \/ (va >= PHYSMAP /\ va < PHYSMAP + Window)}

Space ==
    IF status \in {"boot", "failed"} THEN << >>
    ELSE [va \in {v \in Page : translate(v) # NULL} |->
            [frame |-> translate(va) \div FRAME_SIZE, user |-> UserReach(va)]]

Abstract == INSTANCE AddressSpace WITH
    Page <- Page, Frame <- Frame, space <- Space,
    Windows <- [va \in WindowPages |-> [frame |-> WindowFrame(va), user |-> FALSE]]

\* The tables implement a partial function from pages to frames: windows where
\* new_kernel puts them, a successful map adds exactly one page, unmap removes
\* exactly one that is not in a window, an error changes nothing (vmm.rs:1-8,
\* vmm.rs:119-161).
ImplementsSpace == Abstract!Spec
=============================================================================
