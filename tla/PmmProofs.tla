----------------------------- MODULE PmmProofs -----------------------------
(***************************************************************************)
(* Theorems about Pmm, for every number of threads, frames, shards and     *)
(* every batch size: the free lists and generations.  For one thread: what *)
(* None means.                                                             *)
(***************************************************************************)
EXTENDS PmmStep, WellFoundedInduction

\* Every nonempty set of natural numbers has a least element.
LEMMA LeastNat ==
    ASSUME NEW S, S \subseteq Nat, S # {}
    PROVE  \E x \in S : \A y \in S : x <= y
<1>1. \E x \in S : \A y \in S : ~(<<y, x>> \in OpToRel(<, Nat))
  BY Zenon, NatLessThanWellFounded, WFMin
<1>2. PICK x \in S : \A y \in S : ~(<<y, x>> \in OpToRel(<, Nat))
  BY Zenon, <1>1
<1>3. \A y \in S : ~(y < x)
  BY Zenon, <1>2 DEF OpToRel
<1>. QED  BY <1>3

----------------------------------------------------------------------------
(* build_global_freelist: the frames marked Free at boot, in address order. *)

Up(f) == {g \in FreeAtBoot : g >= f}
Rank(f) == Cardinality(Up(f))

LEMMA UpFacts ==
    /\ IsFiniteSet(FreeAtBoot) /\ Cardinality(FreeAtBoot) \in Nat /\ FreeAtBoot \subseteq Nat
    /\ \A f \in FreeAtBoot : /\ f \in Up(f) /\ Up(f) \in SUBSET FreeAtBoot /\ IsFiniteSet(Up(f))
                             /\ Rank(f) \in 1 .. Cardinality(FreeAtBoot)
<1>1. FreeAtBoot \in SUBSET Frame /\ IsFiniteSet(Frame) /\ Frame \subseteq Nat
  BY ConstantsOK, FS_Interval DEF Frame
<1>2. IsFiniteSet(FreeAtBoot) /\ Cardinality(FreeAtBoot) \in Nat /\ FreeAtBoot \subseteq Nat
  BY Zenon, <1>1, FS_Subset, FS_CardinalityType
<1>3. ASSUME NEW f \in FreeAtBoot
      PROVE  /\ f \in Up(f) /\ Up(f) \in SUBSET FreeAtBoot /\ IsFiniteSet(Up(f))
             /\ Rank(f) \in 1 .. Cardinality(FreeAtBoot)
  <2>1. f \in Up(f) /\ Up(f) \in SUBSET FreeAtBoot
    BY <1>2 DEF Up
  <2>2. IsFiniteSet(Up(f)) /\ Cardinality(Up(f)) <= Cardinality(FreeAtBoot)
    BY <1>2, <2>1, FS_Subset
  <2>3. Cardinality(Up(f)) \in Nat /\ Cardinality(Up(f)) # 0
    BY <2>1, <2>2, FS_CardinalityType, FS_EmptySet
  <2>. QED BY <1>2, <2>1, <2>2, <2>3 DEF Rank
<1>. QED  BY <1>2, <1>3

LEMMA RankInjective ==
    ASSUME NEW f \in FreeAtBoot, NEW g \in FreeAtBoot, f < g
    PROVE  Rank(f) # Rank(g)
<1>a. \A h \in FreeAtBoot : h \in Nat
  BY UpFacts
<1>1. Up(g) \in SUBSET Up(f) /\ f \in Up(f) /\ f \notin Up(g)
  <2>1. \A h \in FreeAtBoot : h >= g => h >= f
    BY <1>a
  <2>2. f >= f /\ ~(f >= g)
    BY <1>a
  <2>. QED BY <2>1, <2>2 DEF Up
<1>2. IsFiniteSet(Up(f))
  BY UpFacts
<1>3. Cardinality(Up(f)) = Cardinality(Up(g)) => Up(f) = Up(g)
  BY <1>1, <1>2, FS_Subset
<1>. QED  BY <1>1, <1>3 DEF Rank

LEMMA RankOnto ==
    \A k \in 1 .. Cardinality(FreeAtBoot) : \E f \in FreeAtBoot : Rank(f) = k
<1> DEFINE n == Cardinality(FreeAtBoot)
           r == [f \in FreeAtBoot |-> Rank(f)]
<1>1. n \in Nat /\ IsFiniteSet(1 .. n) /\ Cardinality(1 .. n) = n
  BY UpFacts, FS_Interval
<1>2. r \in [FreeAtBoot -> 1 .. n]
  BY UpFacts
<1>3. ASSUME NEW f \in FreeAtBoot, NEW g \in FreeAtBoot, r[f] = r[g] PROVE f = g
  <2>1. f \in Nat /\ g \in Nat /\ Rank(f) = Rank(g)
    BY <1>3, UpFacts
  <2>. QED BY <2>1, RankInjective
<1>4. r \in Injection(FreeAtBoot, 1 .. n)
  BY <1>2, <1>3 DEF Injection, IsInjective
<1>5. r \in Surjection(FreeAtBoot, 1 .. n)
  BY <1>1, <1>4, FS_Injection
<1>. QED  BY Zenon, <1>5 DEF Surjection

\* The head has the highest rank.
LEMMA HeadRank ==
    ASSUME FreeAtBoot # {}
    PROVE  HeadAtBoot \in FreeAtBoot /\ Rank(HeadAtBoot) = Cardinality(FreeAtBoot)
<1>1. \E g \in FreeAtBoot : \A h \in FreeAtBoot : g <= h
  BY Zenon, UpFacts, LeastNat
<1>2. HeadAtBoot \in FreeAtBoot /\ \A h \in FreeAtBoot : HeadAtBoot <= h
  BY <1>1 DEF HeadAtBoot
<1>3. Up(HeadAtBoot) = FreeAtBoot
  BY Zenon, <1>2, UpFacts DEF Up
<1>. QED  BY <1>2, <1>3 DEF Rank

\* A link leads one rank down.
LEMMA NextRank ==
    ASSUME NEW f \in FreeAtBoot
    PROVE  IF Rank(f) = 1 THEN NextFreeAtBoot(f) = LIST_END
           ELSE NextFreeAtBoot(f) \in FreeAtBoot /\ Rank(NextFreeAtBoot(f)) = Rank(f) - 1
<1> DEFINE above == {g \in FreeAtBoot : g > f}
<1>1. f \in Nat /\ FreeAtBoot \subseteq Nat /\ IsFiniteSet(Up(f)) /\ f \in Up(f)
  BY UpFacts
<1>2. CASE above = {}
  <2>1. Up(f) = {f}
    <3>1. \A h \in FreeAtBoot : h >= f <=> h = f
      BY <1>1, <1>2
    <3>. QED BY <3>1 DEF Up
  <2>2. Rank(f) = 1
    BY <2>1, FS_Singleton DEF Rank
  <2>. QED BY <1>2, <2>2 DEF NextFreeAtBoot
<1>3. CASE above # {}
  <2>1. \E g \in above : \A h \in above : g <= h
    BY Zenon, <1>1, <1>3, LeastNat
  <2>2. PICK g : g = NextFreeAtBoot(f)
    OBVIOUS
  <2>3. g \in above /\ \A h \in above : g <= h
    BY <1>3, <2>1, <2>2 DEF NextFreeAtBoot
  <2>4. Up(g) = Up(f) \ {f}
    <3>1. \A h \in FreeAtBoot : h >= g <=> h >= f /\ h # f
      BY <1>1, <2>3
    <3>. QED BY <3>1 DEF Up
  <2>5. Cardinality(Up(f) \ {f}) = IF f \in Up(f) THEN Cardinality(Up(f)) - 1 ELSE Cardinality(Up(f))
    BY <1>1, FS_RemoveElement
  <2>6. Rank(g) = Rank(f) - 1
    BY <1>1, <2>4, <2>5 DEF Rank
  <2>7. g \in FreeAtBoot /\ Rank(g) >= 1 /\ Rank(f) \in Nat
    BY <2>3, UpFacts
  <2>. QED BY <2>2, <2>6, <2>7
<1>. QED  BY <1>2, <1>3

LEMMA InitInv == Init => IInv
<1> SUFFICES ASSUME Init PROVE IInv
  OBVIOUS
<1>c. /\ LIST_END \in Nat /\ LIST_END \notin Frame /\ Frame \subseteq 0 .. LIST_END
      /\ GEN_MOD \in Nat \ {0} /\ Global \in Lists
      /\ FreeAtBoot \subseteq Frame
  BY ConstantsOK, ListsApart DEF LIST_END, Frame
<1>e. LIST_END \in 0 .. LIST_END /\ \A f \in FreeAtBoot : f \in 0 .. LIST_END
  BY ConstantsOK DEF LIST_END, Frame
<1>h. HeadAtBoot \in 0 .. LIST_END
  <2>1. HeadAtBoot \in FreeAtBoot \/ HeadAtBoot = LIST_END
    BY HeadRank DEF HeadAtBoot
  <2>. QED BY <1>e, <2>1
<1>n. \A f \in FreeAtBoot : NextFreeAtBoot(f) \in 0 .. LIST_END
  <2>1. \A f \in FreeAtBoot : NextFreeAtBoot(f) \in FreeAtBoot \/ NextFreeAtBoot(f) = LIST_END
    BY NextRank
  <2>. QED BY <1>e, <2>1
<1>f. Free = FreeAtBoot
  BY Zenon, <1>c DEF Init, Free
<1>1. TypeOK
  <2>1. owner \in [Frame -> Owner]
    BY DEF Init, Owner
  <2>2. next \in [Frame -> 0 .. LIST_END]
    BY <1>c, <1>n DEF Init
  <2>3. head \in [Lists -> 0 .. LIST_END] /\ count \in [Lists -> Nat]
    <3>1. LIST_END \in 0 .. LIST_END /\ Cardinality(FreeAtBoot) \in Nat
      BY <1>c, UpFacts
    <3>. QED BY <3>1, <1>h DEF Init
  <2>4. /\ pinned \in [Frame -> Nat] /\ mappings \in [Frame -> Nat]
        /\ gen \in [Frame -> 0 .. GEN_MOD - 1] /\ stamp \in [Frame -> 0 .. GEN_MOD - 1]
    BY <1>c DEF Init
  <2>5. /\ lock \in [Lists -> Thread \cup {NONE}] /\ pc \in [Thread -> PC]
        /\ frame \in [Thread -> Frame \cup {NONE}] /\ seen \in [Thread -> Owner]
    BY DEF Init, PC, Owner
  <2>6. /\ batch \in [Thread -> Nat] /\ i \in [Thread -> Nat]
        /\ bhead \in [Thread -> 0 .. LIST_END] /\ tail \in [Thread -> 0 .. LIST_END]
        /\ cur \in [Thread -> 0 .. LIST_END]
    BY <1>c DEF Init
  <2>7. /\ held \in [Thread -> SUBSET Frame]
        /\ pins \in [Thread -> SUBSET Frame] /\ maps \in [Thread -> SUBSET Frame]
    BY DEF Init
  <2>. QED BY <2>1, <2>2, <2>3, <2>4, <2>5, <2>6, <2>7 DEF TypeOK
<1>2. LockInv
  BY DEF Init, LockInv, InRelease, InDrain
<1>3. RefInv
  <2>1. \A f \in Frame : Holding(pins, f) = {} /\ Holding(maps, f) = {}
    BY DEF Init, Holding
  <2>. QED BY Zenon, <2>1, FS_EmptySet DEF Init, RefInv
<1>4. ChainInv
  <2>1. PICK place, pos : /\ place = [f \in FreeAtBoot |-> Global]
                          /\ pos = [f \in FreeAtBoot |-> Rank(f)]
    BY Zenon
  <2>2. place \in Places(Free) /\ pos \in Positions(Free)
    BY <1>c, <1>f, <2>1, UpFacts DEF Places, Positions
  <2>3. ListChain(place, pos, Global)
    <3>1. head[Global] = HeadAtBoot /\ count[Global] = Cardinality(FreeAtBoot)
      BY <1>c DEF Init
    <3>2. \A f \in FreeAtBoot : next[f] = NextFreeAtBoot(f)
      BY <1>c DEF Init
    <3>3. At(place, Global) = FreeAtBoot /\ \A f \in FreeAtBoot : pos[f] = Rank(f)
      BY <1>f, <2>1 DEF At
    <3>4. \A f \in FreeAtBoot : pos[f] \in 1 .. Cardinality(FreeAtBoot)
      BY <3>3, UpFacts
    <3>5. \A k \in 1 .. Cardinality(FreeAtBoot) : \E f \in FreeAtBoot : pos[f] = k
      BY <3>3, RankOnto
    <3>6. ASSUME NEW f \in FreeAtBoot, NEW g \in FreeAtBoot, pos[f] = pos[g] PROVE f = g
      <4>1. f \in Nat /\ g \in Nat /\ Rank(f) = Rank(g)
        BY <3>3, <3>6, UpFacts
      <4>. QED BY <4>1, RankInjective
    <3>7. IF Cardinality(FreeAtBoot) = 0 THEN HeadAtBoot = LIST_END
          ELSE HeadAtBoot \in FreeAtBoot /\ pos[HeadAtBoot] = Cardinality(FreeAtBoot)
      <4>1. CASE FreeAtBoot = {}
        BY <4>1, FS_EmptySet DEF HeadAtBoot
      <4>2. CASE FreeAtBoot # {}
        <5>1. Cardinality(FreeAtBoot) # 0
          BY <4>2, UpFacts, FS_EmptySet
        <5>. QED BY <5>1, <4>2, <3>3, HeadRank
      <4>. QED BY <4>1, <4>2
    <3>8. \A f \in FreeAtBoot : pos[f] > 1 => next[f] \in FreeAtBoot /\ pos[next[f]] = pos[f] - 1
      BY <3>2, <3>3, NextRank
    <3>9. \A f \in FreeAtBoot : pos[f] = 1 => next[f] = LIST_END
      BY <3>2, <3>3, NextRank
    <3>10. IsList(FreeAtBoot, pos, next, HeadAtBoot, Cardinality(FreeAtBoot), LIST_END)
      BY <3>4, <3>5, <3>6, <3>7, <3>8, <3>9 DEF IsList, IsChain
    <3>. QED BY <3>1, <3>3, <3>10 DEF ListChain
  <2>4. ASSUME NEW p \in (Lists \cup Thread) \ {Global} PROVE At(place, p) = {}
    BY <1>f, <2>1 DEF At
  <2>5. \A l \in Lists : l # Global => ListChain(place, pos, l)
    BY <2>4 DEF Init, ListChain, IsList, IsChain
  <2>6. \A t \in Thread : InHand(place, pos, t) /\ Peeling(place, pos, t)
    BY <2>4, ListsApart DEF Init, InHand, Peeling
  <2>. QED BY <2>2, <2>3, <2>5, <2>6 DEF ChainInv, Linked
<1>. QED  BY <1>1, <1>2, <1>3, <1>4 DEF IInv

----------------------------------------------------------------------------
(* Theorems *)

LEMMA Inductive == IInv /\ [Next]_vars => IInv'
BY TypeStep, LockStep, RefStep, ChainStep DEF IInv

LEMMA Invariance == Spec => []IInv
BY InitInv, Inductive, PTL DEF Spec

\* Every variable keeps its type; in particular no list count, no pin count and
\* no mapping count ever goes below zero (allocator.rs pop_shard, frame.rs unpin
\* and remove_mapping).
THEOREM TypeCorrect == Spec => []TypeOK
<1>1. IInv => TypeOK
  BY DEF IInv
<1>. QED  BY <1>1, Invariance, PTL

\* A chain of distinct frames is no longer than the frame table.
LEMMA ChainLength ==
    ASSUME NEW at \in SUBSET Frame, NEW pos, NEW first, NEW n \in Nat, IsChain(at, pos, next, first, n)
    PROVE  n <= NumFrames
<1> DEFINE c == [k \in 1 .. n |-> CHOOSE g \in at : pos[g] = k]
<1>1. \A k \in 1 .. n : \E g \in at : pos[g] = k
  BY DEF IsChain
<1>2. \A k \in 1 .. n : c[k] \in at /\ pos[c[k]] = k
  BY <1>1
<1>3. c \in [1 .. n -> Frame]
  BY <1>2
<1>4. \A j, k \in 1 .. n : c[j] = c[k] => j = k
  BY <1>2
<1>5. c \in Injection(1 .. n, Frame)
  BY <1>3, <1>4 DEF Injection, IsInjective
<1>6. /\ IsFiniteSet(Frame) /\ Cardinality(Frame) = NumFrames
      /\ Cardinality(1 .. n) = n
  <2>1. IsFiniteSet(0 .. NumFrames - 1) /\ Cardinality(0 .. NumFrames - 1) = NumFrames
    <3>1. NumFrames \in Nat /\ 0 \in Int /\ NumFrames - 1 \in Int
      BY ConstantsOK
    <3>. QED BY <3>1, FS_Interval
  <2>2. Cardinality(1 .. n) = n
    BY FS_Interval
  <2>. QED BY <2>1, <2>2 DEF Frame
<1>. QED  BY <1>5, <1>6, FS_Injection

\* At every step of any number of threads every Free frame is in exactly one
\* place, and every list is a chain of exactly `count' Free frames
\* (allocator.rs: pop_shard, refill_shard and release_frame keep the lists).
THEOREM ListsSound == Spec => []FreeListsSound
<1>1. ASSUME IInv PROVE FreeListsSound
  <2>1. PICK place \in Places(Free), pos \in Positions(Free) : Linked(place, pos)
    BY <1>1 DEF IInv, ChainInv
  <2>2. ASSUME NEW f \in Free PROVE pos[f] \in 1 .. NumFrames
    <3>1. PICK p \in Lists \cup Thread : f \in At(place, p)
      BY <2>1 DEF Places, At
    <3>2. At(place, p) \in SUBSET Frame /\ NumFrames \in Nat
      BY ConstantsOK DEF At, Free
    <3>3. CASE p \in Lists
      <4>1. IsChain(At(place, p), pos, next, head[p], count[p]) /\ count[p] \in Nat
        BY <1>1, <2>1, <3>3 DEF Linked, ListChain, IsList, IInv, TypeOK
      <4>2. count[p] <= NumFrames
        BY <3>2, <4>1, ChainLength
      <4>. QED BY <3>1, <3>2, <4>1, <4>2 DEF IsChain
    <3>4. CASE p \in Thread
      <4>0. InHand(place, pos, p)
        BY <2>1, <3>4 DEF Linked
      <4>1. CASE pc[p] = "splice"
        <5>1. IsChain(At(place, p), pos, next, bhead[p], batch[p]) /\ batch[p] \in Nat
          BY <1>1, <3>4, <4>0, <4>1 DEF InHand, IInv, TypeOK
        <5>2. batch[p] <= NumFrames
          BY <3>2, <5>1, ChainLength
        <5>. QED BY <3>1, <3>2, <5>1, <5>2 DEF IsChain
      <4>2. CASE pc[p] # "splice"
        <5>1. pos[f] = 1
          BY <3>1, <4>0, <4>2 DEF InHand
        <5>. QED BY <5>1, ConstantsOK DEF Free, Frame
      <4>. QED BY <4>1, <4>2
    <3>. QED BY <3>3, <3>4
  <2>3. pos \in [Free -> 1 .. NumFrames]
    BY <2>1, <2>2 DEF Positions
  <2>. QED BY <2>1, <2>3 DEF FreeListsSound, Places
<1>. QED  BY <1>1, Invariance, PTL

\* pop_shard's set_owner(FREE -> KERNEL) never panics (allocator.rs:88),
\* whatever the clients do and however many threads there are.
THEOREM PopSafe == Spec => []PopNeverPanics
<1>1. Init => PopNeverPanics
  BY DEF Init, PopNeverPanics
<1>2. ASSUME IInv, PopNeverPanics, [Next]_vars PROVE PopNeverPanics'
  <2>0. CASE UNCHANGED vars
    BY <1>2, <2>0 DEF vars, PopNeverPanics
  <2>1. ASSUME NEW t \in Thread, PopFrame(t), pc[t] \in {"idle", "pop_again"}
        PROVE  \E l \in PC \ {"list_panic"} : pc' = [pc EXCEPT ![t] = l]
    <3>1. owner[head[Shard(t)]] = "Free"
      BY <1>2, <2>1, PopChain
    <3>. QED BY <2>1, <3>1 DEF PopFrame, Goto, PC
  <2>2. ASSUME NEW t \in Thread, Step(t)
        PROVE  pc' = pc \/ \E l \in PC \ {"list_panic"} : pc' = [pc EXCEPT ![t] = l]
    <3>1. CASE AllocRetry(t)
      BY <3>1, <2>1 DEF AllocRetry, PopNothing, Goto, PC
    <3>2. CASE ~AllocRetry(t)
      BY <2>2, <3>2 DEF Step, RefillBegin, RefillWalk, RefillCut, RefillSplice, ReleaseDrained, ReleaseBegin,
           ReleaseReadPinned, ReleaseReadMappings, ReleaseSetPending, ReleaseSetFree, ReleasePush,
           DrainIfReady, DrainLoad, Return, Goto, PC
    <3>. QED BY <3>1, <3>2
  <2>3. ASSUME NEW t \in Thread, Call(t)
        PROVE  pc' = pc \/ \E l \in PC \ {"list_panic"} : pc' = [pc EXCEPT ![t] = l]
    <3>1. CASE Alloc(t)
      BY <3>1, <2>1 DEF Alloc, PopNothing, Goto, PC
    <3>2. CASE ~Alloc(t)
      BY <2>3, <3>2 DEF Call, ReleaseHeld, ReleaseBegin, Retype, PinFrame, UnpinFrame, AddMapping,
           RemoveMapping, Goto, PC
    <3>. QED BY <3>1, <3>2
  <2>4. CASE Next
    <3>1. PICK t \in Thread : pc' = pc \/ \E l \in PC \ {"list_panic"} : pc' = [pc EXCEPT ![t] = l]
      BY <2>2, <2>3, <2>4 DEF Next
    <3>. QED BY <1>2, <3>1 DEF PopNeverPanics, IInv, TypeOK
  <2>. QED BY <1>2, <2>0, <2>4
<1>. QED  BY <1>1, <1>2, Invariance, PTL DEF Spec

----------------------------------------------------------------------------
(* Generations. *)

Owned == {"Kernel", "Domain", "Pending"}
InAlloc == {"idle", "refill", "peel", "splice", "pop_again"}

\* Thread t is between reading the owner of frame[t] and changing it.
Releasing(t) == pc[t] \in {"read_pinned", "read_mappings", "set_pending", "set_free"}
Pushing(f) == \E t \in Thread : pc[t] = "push" /\ frame[t] = f

\* The frames a thread may name in a call or is working on have had an owner.
Named(t) == held[t] \cup pins[t] \cup maps[t]
NamedInv ==
    \A t \in Thread :
        /\ \A f \in Named(t) : owner[f] \notin {"Untyped", "Reserved"}
        /\ pc[t] \in InRelease \cup InDrain => owner[frame[t]] \notin {"Untyped", "Reserved"}

\* A frame has its owner's stamp as long as it has an owner, and until its
\* release bumps the generation.
StampInv ==
    /\ \A f \in Frame : owner[f] \in Owned => gen[f] = stamp[f]
    /\ \A f \in Free : gen[f] = stamp[f] <=> Pushing(f)

GenInv == IInv /\ NamedInv /\ StampInv

----------------------------------------------------------------------------
(* The steps, as far as custody is concerned. *)

Pops(t, f) ==
    /\ pc[t] \in InAlloc /\ owner[f] = "Free" /\ ~Pushing(f)
    /\ owner' = [owner EXCEPT ![f] = "Kernel"]
    /\ held' = [held EXCEPT ![t] = @ \cup {f}]
    /\ stamp' = [stamp EXCEPT ![f] = gen[f]]
    /\ pc' = [pc EXCEPT ![t] = "idle"]
    /\ UNCHANGED <<pinned, mappings, gen, frame, seen, pins, maps>>

\* Every other step of alloc_frame and refill_shard.
Allocating(t) ==
    /\ pc[t] \in InAlloc
    /\ \E l \in InAlloc : pc' = [pc EXCEPT ![t] = l]
    /\ UNCHANGED <<table, clients, frame, seen>>

Releases(t) ==
    \/ ReleaseReadPinned(t) \/ ReleaseReadMappings(t)
    \/ ReleaseSetPending(t) \/ ReleaseSetFree(t) \/ ReleasePush(t)

References(t) ==
    \E f \in Frame : PinFrame(t, f) \/ UnpinFrame(t, f) \/ AddMapping(t, f) \/ RemoveMapping(t, f)

\* A frame that is being pushed is Free, one thread pushes it, and it is on no list.
LEMMA PushFacts ==
    ASSUME IInv
    PROVE  /\ \A t \in Thread : pc[t] = "push" => frame[t] \in Free
           /\ \A t, u \in Thread : pc[t] = "push" /\ pc[u] = "push" /\ frame[t] = frame[u] => t = u
           /\ \A l \in Lists : ~Pushing(head[l])
<1>1. PICK place \in Places(Free), pos \in Positions(Free) : Linked(place, pos)
  BY DEF IInv, ChainInv
<1>2. \A t \in Thread : pc[t] = "push" => frame[t] \in Free /\ place[frame[t]] = t
  <2>1. ASSUME NEW t \in Thread, pc[t] = "push" PROVE frame[t] \in At(place, t)
    BY <1>1, <2>1 DEF Linked, InHand
  <2>. QED BY <2>1 DEF At
<1>3. ASSUME NEW l \in Lists PROVE head[l] = LIST_END \/ (head[l] \in Free /\ place[head[l]] = l)
  <2>1. IsList(At(place, l), pos, next, head[l], count[l], LIST_END)
    BY <1>1 DEF Linked, ListChain
  <2>. QED BY <2>1 DEF IsList, IsChain, At
<1>4. LIST_END \notin Frame
  BY ConstantsOK DEF LIST_END, Frame
<1>5. \A l \in Lists : ~Pushing(head[l])
  <2>1. ASSUME NEW l \in Lists, NEW t \in Thread, pc[t] = "push", frame[t] = head[l] PROVE FALSE
    <3>1. frame[t] \in Free /\ place[frame[t]] = t /\ frame[t] \in Frame
      BY Zenon, <1>2, <2>1 DEF Free
    <3>2. place[frame[t]] = l
      BY Zenon, <1>3, <1>4, <2>1, <3>1
    <3>. QED BY Zenon, <3>1, <3>2, ListsApart
  <2>. QED BY Zenon, <2>1 DEF Pushing
<1>. QED BY Zenon, <1>2, <1>5

LEMMA NextCases ==
    ASSUME IInv, Next
    PROVE  \E t \in Thread :
             \/ \E f \in Frame : Pops(t, f) \/ ReleaseHeld(t, f) \/ Retype(t, f)
             \/ Allocating(t) \/ ReleaseDrained(t) \/ Releases(t) \/ DrainIfReady(t) \/ References(t)
<1>0. pc \in [Thread -> PC]
  BY DEF IInv, TypeOK
<1>1. ASSUME NEW t \in Thread, PopFrame(t), pc[t] \in {"idle", "pop_again"}
      PROVE  \E f \in Frame : Pops(t, f)
  <2>1. PICK f : f = head[Shard(t)]
    OBVIOUS
  <2>2. f \in Frame /\ owner[f] = "Free" /\ ~Pushing(f)
    BY <1>1, <2>1, PopChain, PushFacts, ShardInShards
  <2>. QED BY <1>1, <2>1, <2>2 DEF PopFrame, Pops, Goto, InAlloc
<1>2. ASSUME NEW t \in Thread, NEW l \in {"idle", "refill"}, pc[t] \in {"idle", "pop_again"}, PopNothing(t, l)
      PROVE  Allocating(t)
  BY Zenon, <1>2 DEF PopNothing, Allocating, Goto, InAlloc
<1>3. ASSUME NEW t \in Thread, RefillBegin(t) \/ RefillCut(t) \/ RefillSplice(t) PROVE Allocating(t)
  BY <1>3 DEF RefillBegin, RefillCut, RefillSplice, Allocating, Goto, InAlloc
<1>4. ASSUME NEW t \in Thread, RefillWalk(t) PROVE Allocating(t)
  <2>1. pc' = [pc EXCEPT ![t] = "peel"] /\ pc[t] = "peel"
    BY <1>0, <1>4 DEF RefillWalk
  <2>. QED BY Zenon, <1>4, <2>1 DEF RefillWalk, Allocating, InAlloc
<1>5. PICK t \in Thread : Step(t) \/ Call(t)
  BY DEF Next
<1>. QED
  BY <1>1, <1>2, <1>3, <1>4, <1>5 DEF Step, Call, Alloc, AllocRetry, Releases, References

----------------------------------------------------------------------------
(* Generations. *)

\* Between a read of the owner and the swap the thread's frame has had an owner.
LEMMA NamedStep ==
    ASSUME IInv, NamedInv, Next
    PROVE  NamedInv'
<1>t. TypeOK /\ LockInv
  BY DEF IInv
<1>1. PICK t \in Thread :
             \/ \E f \in Frame : Pops(t, f) \/ ReleaseHeld(t, f) \/ Retype(t, f)
             \/ Allocating(t) \/ ReleaseDrained(t) \/ Releases(t) \/ DrainIfReady(t) \/ References(t)
  BY NextCases
<1>2. ASSUME NEW f \in Frame, Pops(t, f) PROVE NamedInv'
  BY SMTT(30), <1>t, <1>2 DEF TypeOK, NamedInv, Named, Pops, InAlloc, InRelease, InDrain
<1>3. ASSUME NEW f \in Frame, ReleaseHeld(t, f) PROVE NamedInv'
  BY SMTT(30), <1>t, <1>3 DEF TypeOK, NamedInv, Named, ReleaseHeld, ReleaseBegin, Goto, InRelease, InDrain, table
<1>4. ASSUME NEW f \in Frame, Retype(t, f) PROVE NamedInv'
  BY SMTT(30), <1>t, <1>4 DEF TypeOK, NamedInv, Named, Retype, InRelease, InDrain
<1>5. CASE Allocating(t)
  BY SMTT(30), <1>t, <1>5 DEF TypeOK, NamedInv, Named, Allocating, InAlloc, InRelease, InDrain, table, clients
<1>6. CASE ReleaseDrained(t)
  BY SMTT(30), <1>t, <1>6 DEF TypeOK, NamedInv, Named, ReleaseDrained, ReleaseBegin, Goto, InRelease, InDrain, table
<1>7. CASE Releases(t)
  BY SMTT(30), <1>t, <1>7 DEF TypeOK, LockInv, NamedInv, Named, Releases, ReleaseReadPinned, ReleaseReadMappings,
       ReleaseSetPending, ReleaseSetFree, ReleasePush, Return, Goto, InRelease, InDrain, table, clients
<1>8. CASE DrainIfReady(t)
  BY SMTT(30), <1>t, <1>8 DEF TypeOK, NamedInv, Named, DrainIfReady, DrainLoad, Return, Goto, InRelease, InDrain,
       table, clients
<1>9. CASE References(t)
  BY <1>t, <1>9 DEF TypeOK, NamedInv, Named, References, PinFrame, UnpinFrame, AddMapping, RemoveMapping,
       MayRef, Goto, InRelease, InDrain
<1>. QED BY <1>1, <1>2, <1>3, <1>4, <1>5, <1>6, <1>7, <1>8, <1>9

\* A wrapping increment changes a generation when there is more than one.
LEMMA NextDiffers ==
    ASSUME NEW m \in Nat, m > 1, NEW g \in 0 .. m - 1
    PROVE  (g + 1) % m # g
<1>1. CASE g + 1 < m
  <2>1. (g + 1) % m = g + 1
    BY <1>1
  <2>. QED BY <2>1
<1>2. CASE g + 1 = m
  <2>1. m % m = 0
    OBVIOUS
  <2>. QED BY <1>2, <2>1
<1>. QED BY <1>1, <1>2

LEMMA StampStep ==
    ASSUME GenInv, Next, GEN_MOD > 1
    PROVE  StampInv'
<1> USE DEF GenInv
<1>t. TypeOK /\ LockInv
  BY DEF IInv
<1>p. /\ \A t \in Thread : pc[t] = "push" => frame[t] \in Free
      /\ \A t, u \in Thread : pc[t] = "push" /\ pc[u] = "push" /\ frame[t] = frame[u] => t = u
  BY PushFacts
<1>1. PICK t \in Thread :
             \/ \E f \in Frame : Pops(t, f) \/ ReleaseHeld(t, f) \/ Retype(t, f)
             \/ Allocating(t) \/ ReleaseDrained(t) \/ Releases(t) \/ DrainIfReady(t) \/ References(t)
  BY NextCases
\* A step that changes neither owners nor generations, and pushes nothing.
<1>q. ASSUME UNCHANGED <<owner, gen, stamp>>, pc[t] # "push", pc'[t] # "push",
             \A u \in Thread \ {t} : pc'[u] = pc[u] /\ frame'[u] = frame[u]
      PROVE  StampInv'
  <2>1. \A f : Pushing(f)' <=> Pushing(f)
    BY <1>q DEF Pushing
  <2>. QED BY <1>q, <2>1 DEF StampInv, Free
<1>2. ASSUME NEW f \in Frame, Pops(t, f) PROVE StampInv'
  <2>1. \A g : Pushing(g)' <=> Pushing(g)
    BY <1>t, <1>2 DEF Pushing, Pops, TypeOK, InAlloc
  <2>2. \A g \in Frame : /\ owner'[g] = IF g = f THEN "Kernel" ELSE owner[g]
                         /\ stamp'[g] = IF g = f THEN gen[f] ELSE stamp[g]
                         /\ gen'[g] = gen[g]
    BY <1>t, <1>2 DEF Pops, TypeOK
  <2>. QED BY <2>1, <2>2 DEF StampInv, Free
<1>4. ASSUME NEW f \in Frame, Retype(t, f) PROVE StampInv'
  <2>1. \A g : Pushing(g)' <=> Pushing(g)
    BY <1>4 DEF Pushing, Retype
  <2>2. \A g \in Frame : /\ owner'[g] = IF g = f THEN "Domain" ELSE owner[g]
                         /\ stamp'[g] = IF g = f THEN gen[f] ELSE stamp[g]
                         /\ gen'[g] = gen[g]
    BY <1>t, <1>4 DEF Retype, TypeOK
  <2>. QED BY <2>1, <2>2 DEF StampInv, Free
<1>5. CASE Allocating(t)
  BY SMTT(30), <1>t, <1>5, <1>q DEF Allocating, InAlloc, table, clients, TypeOK
<1>6. CASE ReleaseDrained(t) \/ \E f \in Frame : ReleaseHeld(t, f)
  BY SMTT(30), <1>t, <1>6, <1>q DEF ReleaseDrained, ReleaseHeld, ReleaseBegin, Goto, table, TypeOK
<1>7. CASE ReleaseReadPinned(t) \/ ReleaseReadMappings(t)
  BY <1>t, <1>7, <1>q DEF ReleaseReadPinned, ReleaseReadMappings, Goto, table, clients, TypeOK
<1>8. CASE ReleaseSetPending(t)
  <2>1. CASE owner[frame[t]] = seen[t] \/ seen[t] = "Pending"
    <3>0. pc[t] = "set_pending" /\ frame[t] \in Frame /\ seen[t] \notin {"Reserved", "Free"}
      BY <1>t, <1>8 DEF ReleaseSetPending, LockInv, InRelease
    <3>1. /\ owner' = [owner EXCEPT ![frame[t]] = IF seen[t] = "Pending" THEN @ ELSE "Pending"]
          /\ UNCHANGED <<gen, stamp>> /\ pc' = [pc EXCEPT ![t] = "idle"]
          /\ frame' = [frame EXCEPT ![t] = NONE]
      BY <1>8, <2>1 DEF ReleaseSetPending, Return, Goto, clients
    <3>2. \A g : Pushing(g)' <=> Pushing(g)
      BY <1>t, <3>0, <3>1 DEF Pushing, TypeOK
    <3>3. owner[frame[t]] \in Owned \/ owner' = owner
      BY SMTT(30), <1>t, <2>1, <3>0, <3>1 DEF NamedInv, InRelease, Owned, TypeOK, Owner
    <3>4. \A g \in Frame : owner'[g] = owner[g] \/ (owner[g] \in Owned /\ owner'[g] \in Owned)
      BY <1>t, <3>1, <3>3 DEF TypeOK, Owned
    <3>. QED BY <3>1, <3>2, <3>4 DEF StampInv, Free, Owned
  <2>2. CASE ~(owner[frame[t]] = seen[t] \/ seen[t] = "Pending")
    BY SMTT(30), <1>t, <1>8, <1>q, <2>2 DEF ReleaseSetPending, Goto, clients, TypeOK
  <2>. QED BY <2>1, <2>2
<1>9. CASE ReleaseSetFree(t)
  <2>1. CASE owner[frame[t]] = seen[t]
    <3>0. pc[t] = "set_free" /\ frame[t] \in Frame /\ seen[t] \notin {"Reserved", "Free"}
      BY <1>t, <1>9 DEF ReleaseSetFree, LockInv, InRelease
    <3>1. /\ owner' = [owner EXCEPT ![frame[t]] = "Free"]
          /\ UNCHANGED <<gen, stamp, frame>> /\ pc' = [pc EXCEPT ![t] = "push"]
      BY <1>9, <2>1 DEF ReleaseSetFree, Goto, clients
    <3>2. \A g : Pushing(g)' <=> Pushing(g) \/ g = frame[t]
      BY <1>t, <3>0, <3>1 DEF Pushing, TypeOK
    <3>3. owner[frame[t]] \in Owned
      BY SMTT(30), <1>t, <2>1, <3>0 DEF NamedInv, InRelease, Owned, TypeOK, Owner
    <3>4. \A g \in Frame : owner'[g] = IF g = frame[t] THEN "Free" ELSE owner[g]
      BY <1>t, <3>1 DEF TypeOK
    <3>5. \A g \in Frame : owner'[g] \in Owned => gen'[g] = stamp'[g]
      BY <3>1, <3>4 DEF StampInv, Owned
    <3>6. \A g \in Frame : owner'[g] = "Free" => (gen'[g] = stamp'[g] <=> Pushing(g)')
      BY <3>0, <3>1, <3>2, <3>3, <3>4 DEF StampInv, Free
    <3>. QED BY Zenon, <3>5, <3>6 DEF StampInv, Free
  <2>2. CASE owner[frame[t]] # seen[t]
    BY SMTT(30), <1>t, <1>9, <1>q, <2>2 DEF ReleaseSetFree, Goto, clients, TypeOK
  <2>. QED BY <2>1, <2>2
<1>10. CASE ReleasePush(t)
  <2>0. pc[t] = "push" /\ frame[t] \in Frame /\ frame[t] \in Free
    BY <1>t, <1>p, <1>10 DEF ReleasePush, LockInv, InRelease
  <2>1. /\ gen' = [gen EXCEPT ![frame[t]] = (@ + 1) % GEN_MOD]
        /\ UNCHANGED <<owner, stamp>> /\ pc' = [pc EXCEPT ![t] = "idle"]
        /\ frame' = [frame EXCEPT ![t] = NONE]
    BY <1>10 DEF ReleasePush, BumpGen, Return, Goto, clients
  <2>2. \A g : Pushing(g)' <=> Pushing(g) /\ g # frame[t]
    BY <1>t, <1>p, <2>0, <2>1 DEF Pushing, TypeOK
  <2>3. gen[frame[t]] \in 0 .. GEN_MOD - 1 /\ gen[frame[t]] = stamp[frame[t]]
    BY <1>t, <2>0 DEF TypeOK, StampInv, Pushing
  <2>4. (gen[frame[t]] + 1) % GEN_MOD # gen[frame[t]]
    BY <2>3, ConstantsOK, NextDiffers
  <2>5. \A g \in Frame : gen'[g] = IF g = frame[t] THEN (gen[frame[t]] + 1) % GEN_MOD ELSE gen[g]
    BY <1>t, <2>1 DEF TypeOK
  <2>. QED BY <2>0, <2>1, <2>2, <2>3, <2>4, <2>5 DEF StampInv, Free, Owned
<1>11. CASE DrainIfReady(t)
  BY SMTT(30), <1>t, <1>11, <1>q DEF DrainIfReady, DrainLoad, Return, Goto, table, clients, TypeOK
<1>12. CASE References(t)
  BY <1>t, <1>12, <1>q DEF References, PinFrame, UnpinFrame, AddMapping, RemoveMapping, Goto, TypeOK
<1>. QED BY <1>1, <1>2, <1>4, <1>5, <1>6, <1>7, <1>8, <1>9, <1>10, <1>11, <1>12 DEF Releases

\* A frame that can be handed out again has another generation than the one its last
\* owner was stamped with, for any number of threads, pins and mappings, as soon as
\* there are two generations (frame.rs bump_gen, 2^32 of them; allocator.rs
\* release_frame bumps before the push).
THEOREM StaleDetected == GEN_MOD > 1 /\ Spec => []FreshGeneration
<1>1. ASSUME Init, GEN_MOD > 1 PROVE NamedInv /\ StampInv
  <2>1. NamedInv
    BY <1>1 DEF Init, NamedInv, Named, InRelease, InDrain
  <2>2. \A f \in Frame : owner[f] \notin Owned /\ gen[f] # stamp[f] /\ ~Pushing(f)
    BY <1>1, ConstantsOK DEF Init, Owned, Pushing
  <2>. QED BY <2>1, <2>2 DEF StampInv, Free
<1>2. ASSUME GenInv, [Next]_vars, GEN_MOD > 1 PROVE GenInv'
  <2>1. CASE Next
    BY SMTT(30), <1>2, <2>1, Inductive, NamedStep, StampStep DEF GenInv
  <2>2. CASE UNCHANGED vars
    BY <1>2, <2>2, Inductive DEF GenInv, NamedInv, Named, StampInv, Pushing, Free, vars, table, clients
  <2>. QED BY <1>2, <2>1, <2>2
<1>3. GenInv => FreshGeneration
  BY DEF GenInv, StampInv, FreshGeneration, Pushing
<1> DEFINE FInv == GEN_MOD > 1 /\ GenInv
<1>4. Init /\ GEN_MOD > 1 => FInv
  BY <1>1, InitInv DEF GenInv
<1>5. FInv /\ [Next]_vars => FInv'
  BY <1>2
<1>6. FInv => FreshGeneration
  BY <1>3
<1> HIDE DEF FInv
<1>. QED BY <1>4, <1>5, <1>6, PTL DEF Spec

----------------------------------------------------------------------------
(* None means empty. *)

\* alloc_frame returns None only when every list is empty, as long as one execution
\* context allocates (allocator.rs:60-61).  Two of them can miss each other's frames.
THEOREM NoneIsTrue == OneThread /\ Spec => NoneMeansEmpty
<1> DEFINE Empty ==
      \A t \in Thread : pc[t] = "pop_again" /\ pc'[t] = "idle" /\ head' = head
           => \A l \in Lists : count[l] = 0
<1>1. IInv /\ ShardInv /\ [Next]_vars => [Empty]_vars
  <2> SUFFICES ASSUME IInv, ShardInv, Next, NEW t \in Thread,
                      pc[t] = "pop_again", pc'[t] = "idle", head' = head, NEW l \in Lists
               PROVE  count[l] = 0
    OBVIOUS
  <2>1. PICK s : s = Shard(t)
    OBVIOUS
  <2>2. s \in Lists /\ s \in Shards /\ \A k \in Lists : k \in Shards \/ k = Global
    BY <2>1, ShardInShards DEF Lists
  <2>3. PICK place \in Places(Free), pos \in Positions(Free) : Linked(place, pos)
    BY DEF IInv, ChainInv
  <2>4. IsList(At(place, s), pos, next, head[s], count[s], LIST_END) /\ count[s] \in Nat
    BY <2>2, <2>3 DEF Linked, ListChain, IInv, TypeOK
  <2>5. LIST_END \notin Frame /\ \A f \in At(place, s) : f \in Frame
    BY ConstantsOK DEF LIST_END, Frame, At, Free
  <2>6. head[s] = LIST_END
    <3>1. AllocRetry(t)
      <4>1. ASSUME NEW u \in Thread, Step(u) \/ Call(u) PROVE AllocRetry(t)
        <5>1. u = t
          BY DEF ShardInv, OneThread
        <5>. QED BY Zenon, <4>1, <5>1 DEF Step, Call, Alloc, RefillBegin, RefillWalk, RefillCut, RefillSplice,
                 ReleaseDrained, ReleaseReadPinned, ReleaseReadMappings, ReleaseSetPending,
                 ReleaseSetFree, ReleasePush, DrainIfReady, DrainLoad, ReleaseHeld, Retype, PinFrame,
                 UnpinFrame, AddMapping, RemoveMapping
      <4>2. PICK u \in Thread : Step(u) \/ Call(u)
        BY Zenon DEF Next
      <4>. QED BY Zenon, <4>1, <4>2
    <3>2. CASE PopFrame(t)
      <4>1. head' = [head EXCEPT ![s] = next[head[s]]] /\ head[s] # LIST_END
        BY ZenonT(40), <3>2, <2>1 DEF PopFrame
      <4>2. next[head[s]] = head[s]
        BY <4>1, <2>2 DEF IInv, TypeOK
      <4>3. count[s] # 0 /\ head[s] \in At(place, s) /\ pos[head[s]] = count[s]
        BY <2>4, <4>1 DEF IsList, IsChain
      <4>4. pos[head[s]] # 1
        BY ONLY <2>4, <2>5, <4>2, <4>3 DEF IsList
      <4>5. pos[next[head[s]]] = pos[head[s]] - 1
        BY <2>4, <4>3, <4>4 DEF IsList, IsChain
      <4>6. pos[head[s]] \in Int
        BY <2>4, <4>3 DEF IsList, IsChain
      <4>. QED BY ONLY <4>2, <4>5, <4>6
    <3>3. CASE PopNothing(t, "idle")
      BY <3>3, <2>1 DEF PopNothing
    <3>. QED BY Zenon, <3>1, <3>2, <3>3 DEF AllocRetry
  <2>7. count[s] = 0
    BY <2>4, <2>5, <2>6 DEF IsList, IsChain
  <2>8. count[Global] = 0
    BY <2>1, <2>6 DEF ShardInv
  <2>. QED BY <2>1, <2>2, <2>7, <2>8 DEF ShardInv
<1>2. OneThread /\ Init => ShardInv
  <2>1. Global \notin Shards /\ \A s \in Shards : s \in Lists
    BY ConstantsOK DEF Global, Shards, Lists
  <2>. QED BY <2>1 DEF Init, ShardInv
<1>. QED BY <1>1, <1>2, ShardStep, Invariance, PTL DEF Spec, NoneMeansEmpty
=============================================================================
