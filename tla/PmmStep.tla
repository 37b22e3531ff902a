------------------------------ MODULE PmmStep ------------------------------
(***************************************************************************)
(* Every step of Pmm keeps the inductive invariant of PmmChain: its types, *)
(* locks, reference counts and free lists, action by action; with one      *)
(* thread, also what is known of the shards.                               *)
(***************************************************************************)
EXTENDS PmmChain, FiniteSetTheorems

----------------------------------------------------------------------------
(* One reference more, one reference less. *)

LEMMA HoldingAdd ==
    ASSUME NEW refs \in [Thread -> SUBSET Frame], NEW t \in Thread, NEW f \in Frame, f \notin refs[t]
    PROVE  LET new == [refs EXCEPT ![t] = @ \cup {f}] IN
           /\ Cardinality(Holding(new, f)) = Cardinality(Holding(refs, f)) + 1
           /\ Cardinality(Holding(refs, f)) \in Nat
           /\ \A g \in Frame : g # f => Holding(new, g) = Holding(refs, g)
<1> DEFINE new == [refs EXCEPT ![t] = @ \cup {f}]
<1>1. IsFiniteSet(Holding(refs, f))
  BY ThreadFinite, FS_Subset DEF Holding
<1>2. t \notin Holding(refs, f) /\ Holding(new, f) = Holding(refs, f) \cup {t}
  BY DEF Holding
<1>3. \A g \in Frame : g # f => Holding(new, g) = Holding(refs, g)
  BY DEF Holding
<1> HIDE DEF new
<1>4. Cardinality(Holding(new, f)) = Cardinality(Holding(refs, f)) + 1
  BY Zenon, <1>1, <1>2, FS_AddElement
<1>. QED  BY Zenon, <1>1, <1>3, <1>4, FS_CardinalityType DEF new

LEMMA HoldingRemove ==
    ASSUME NEW refs \in [Thread -> SUBSET Frame], NEW t \in Thread, NEW f \in Frame, f \in refs[t]
    PROVE  LET new == [refs EXCEPT ![t] = @ \ {f}] IN
           /\ Cardinality(Holding(new, f)) = Cardinality(Holding(refs, f)) - 1
           /\ Cardinality(Holding(refs, f)) - 1 \in Nat
           /\ \A g \in Frame : g # f => Holding(new, g) = Holding(refs, g)
<1> DEFINE new == [refs EXCEPT ![t] = @ \ {f}]
<1>1. IsFiniteSet(Holding(refs, f))
  BY ThreadFinite, FS_Subset DEF Holding
<1>2. t \in Holding(refs, f) /\ Holding(new, f) = Holding(refs, f) \ {t}
  BY DEF Holding
<1>3. \A g \in Frame : g # f => Holding(new, g) = Holding(refs, g)
  BY DEF Holding
<1> HIDE DEF new
<1>a. /\ IsFiniteSet(Holding(refs, f) \ {t})
      /\ Cardinality(Holding(refs, f) \ {t}) =
           IF t \in Holding(refs, f) THEN Cardinality(Holding(refs, f)) - 1
                                    ELSE Cardinality(Holding(refs, f))
  BY <1>1, FS_RemoveElement
<1>4. /\ Cardinality(Holding(new, f)) = Cardinality(Holding(refs, f)) - 1
      /\ IsFiniteSet(Holding(new, f))
  BY <1>2, <1>a
<1>5. Cardinality(Holding(new, f)) \in Nat /\ Cardinality(Holding(refs, f)) \in Nat
  BY <1>1, <1>4, FS_CardinalityType
<1>. QED  BY Zenon, <1>3, <1>4, <1>5 DEF new

LEMMA RefStep ==
    ASSUME IInv, [Next]_vars
    PROVE  RefInv' /\ pinned' \in [Frame -> Nat] /\ mappings' \in [Frame -> Nat]
<1>1. /\ pinned \in [Frame -> Nat] /\ mappings \in [Frame -> Nat]
      /\ pins \in [Thread -> SUBSET Frame] /\ maps \in [Thread -> SUBSET Frame]
  BY DEF IInv, TypeOK
<1>2. ASSUME NEW t \in Thread, NEW f \in Frame, PinFrame(t, f)
      PROVE  RefInv' /\ pinned' \in [Frame -> Nat] /\ mappings' \in [Frame -> Nat]
  <2>1. /\ pins' = [pins EXCEPT ![t] = @ \cup {f}] /\ f \notin pins[t]
        /\ pinned' = [pinned EXCEPT ![f] = @ + 1] /\ UNCHANGED <<mappings, maps>>
    BY <1>2 DEF PinFrame
  <2>2. /\ Cardinality(Holding(pins', f)) = Cardinality(Holding(pins, f)) + 1
        /\ \A g \in Frame : g # f => Holding(pins', g) = Holding(pins, g)
    <3>1. LET new == [pins EXCEPT ![t] = @ \cup {f}] IN
          /\ Cardinality(Holding(new, f)) = Cardinality(Holding(pins, f)) + 1
          /\ \A g \in Frame : g # f => Holding(new, g) = Holding(pins, g)
      BY Zenon, <1>1, <2>1, HoldingAdd
    <3>. QED BY Zenon, <3>1, <2>1
  <2>3. /\ pinned[f] = Cardinality(Holding(pins, f))
        /\ pinned[f] + 1 \in Nat
    BY <1>1, <2>2 DEF IInv, RefInv
  <2>4. /\ pinned' \in [Frame -> Nat] /\ pinned'[f] = pinned[f] + 1
        /\ \A g \in Frame : g # f => pinned'[g] = pinned[g]
    BY <1>1, <2>1, <2>3
  <2>5. \A g \in Frame : pinned'[g] = Cardinality(Holding(pins', g))
    BY <2>2, <2>3, <2>4 DEF IInv, RefInv
  <2>. QED BY Zenon, <1>1, <2>1, <2>4, <2>5 DEF IInv, RefInv
<1>3. ASSUME NEW t \in Thread, NEW f \in Frame, AddMapping(t, f)
      PROVE  RefInv' /\ pinned' \in [Frame -> Nat] /\ mappings' \in [Frame -> Nat]
  <2>1. /\ maps' = [maps EXCEPT ![t] = @ \cup {f}] /\ f \notin maps[t]
        /\ mappings' = [mappings EXCEPT ![f] = @ + 1] /\ UNCHANGED <<pinned, pins>>
    BY <1>3 DEF AddMapping
  <2>2. /\ Cardinality(Holding(maps', f)) = Cardinality(Holding(maps, f)) + 1
        /\ \A g \in Frame : g # f => Holding(maps', g) = Holding(maps, g)
    <3>1. LET new == [maps EXCEPT ![t] = @ \cup {f}] IN
          /\ Cardinality(Holding(new, f)) = Cardinality(Holding(maps, f)) + 1
          /\ \A g \in Frame : g # f => Holding(new, g) = Holding(maps, g)
      BY Zenon, <1>1, <2>1, HoldingAdd
    <3>. QED BY Zenon, <3>1, <2>1
  <2>3. /\ mappings[f] = Cardinality(Holding(maps, f))
        /\ mappings[f] + 1 \in Nat
    BY <1>1, <2>2 DEF IInv, RefInv
  <2>4. /\ mappings' \in [Frame -> Nat] /\ mappings'[f] = mappings[f] + 1
        /\ \A g \in Frame : g # f => mappings'[g] = mappings[g]
    BY <1>1, <2>1, <2>3
  <2>5. \A g \in Frame : mappings'[g] = Cardinality(Holding(maps', g))
    BY <2>2, <2>3, <2>4 DEF IInv, RefInv
  <2>. QED BY Zenon, <1>1, <2>1, <2>4, <2>5 DEF IInv, RefInv
<1>4. ASSUME NEW t \in Thread, NEW f \in Frame, UnpinFrame(t, f)
      PROVE  RefInv' /\ pinned' \in [Frame -> Nat] /\ mappings' \in [Frame -> Nat]
  <2>1. /\ pins' = [pins EXCEPT ![t] = @ \ {f}] /\ f \in pins[t]
        /\ pinned' = [pinned EXCEPT ![f] = @ - 1] /\ UNCHANGED <<mappings, maps>>
    BY <1>4 DEF UnpinFrame
  <2>2. /\ Cardinality(Holding(pins', f)) = Cardinality(Holding(pins, f)) - 1
        /\ Cardinality(Holding(pins, f)) - 1 \in Nat
        /\ \A g \in Frame : g # f => Holding(pins', g) = Holding(pins, g)
    <3>1. LET new == [pins EXCEPT ![t] = @ \ {f}] IN
          /\ Cardinality(Holding(new, f)) = Cardinality(Holding(pins, f)) - 1
          /\ Cardinality(Holding(pins, f)) - 1 \in Nat
          /\ \A g \in Frame : g # f => Holding(new, g) = Holding(pins, g)
      BY Zenon, <1>1, <2>1, HoldingRemove
    <3>. QED BY Zenon, <3>1, <2>1
  <2>3. /\ pinned[f] = Cardinality(Holding(pins, f))
        /\ pinned[f] - 1 \in Nat
    BY <1>1, <2>2 DEF IInv, RefInv
  <2>4. /\ pinned' \in [Frame -> Nat] /\ pinned'[f] = pinned[f] - 1
        /\ \A g \in Frame : g # f => pinned'[g] = pinned[g]
    BY <1>1, <2>1, <2>3
  <2>5. \A g \in Frame : pinned'[g] = Cardinality(Holding(pins', g))
    BY <2>2, <2>3, <2>4 DEF IInv, RefInv
  <2>. QED BY Zenon, <1>1, <2>1, <2>4, <2>5 DEF IInv, RefInv
<1>5. ASSUME NEW t \in Thread, NEW f \in Frame, RemoveMapping(t, f)
      PROVE  RefInv' /\ pinned' \in [Frame -> Nat] /\ mappings' \in [Frame -> Nat]
  <2>1. /\ maps' = [maps EXCEPT ![t] = @ \ {f}] /\ f \in maps[t]
        /\ mappings' = [mappings EXCEPT ![f] = @ - 1] /\ UNCHANGED <<pinned, pins>>
    BY <1>5 DEF RemoveMapping
  <2>2. /\ Cardinality(Holding(maps', f)) = Cardinality(Holding(maps, f)) - 1
        /\ Cardinality(Holding(maps, f)) - 1 \in Nat
        /\ \A g \in Frame : g # f => Holding(maps', g) = Holding(maps, g)
    <3>1. LET new == [maps EXCEPT ![t] = @ \ {f}] IN
          /\ Cardinality(Holding(new, f)) = Cardinality(Holding(maps, f)) - 1
          /\ Cardinality(Holding(maps, f)) - 1 \in Nat
          /\ \A g \in Frame : g # f => Holding(new, g) = Holding(maps, g)
      BY Zenon, <1>1, <2>1, HoldingRemove
    <3>. QED BY Zenon, <3>1, <2>1
  <2>3. /\ mappings[f] = Cardinality(Holding(maps, f))
        /\ mappings[f] - 1 \in Nat
    BY <1>1, <2>2 DEF IInv, RefInv
  <2>4. /\ mappings' \in [Frame -> Nat] /\ mappings'[f] = mappings[f] - 1
        /\ \A g \in Frame : g # f => mappings'[g] = mappings[g]
    BY <1>1, <2>1, <2>3
  <2>5. \A g \in Frame : mappings'[g] = Cardinality(Holding(maps', g))
    BY <2>2, <2>3, <2>4 DEF IInv, RefInv
  <2>. QED BY Zenon, <1>1, <2>1, <2>4, <2>5 DEF IInv, RefInv
<1>6. ASSUME UNCHANGED <<pinned, mappings, pins, maps>>
      PROVE  RefInv' /\ pinned' \in [Frame -> Nat] /\ mappings' \in [Frame -> Nat]
  BY <1>1, <1>6 DEF IInv, RefInv, Holding
<1>7. ASSUME NEW t \in Thread, Step(t)
      PROVE  UNCHANGED <<pinned, mappings, pins, maps>>
  BY <1>7 DEF Step, AllocRetry, PopFrame, PopNothing, RefillBegin, RefillWalk, RefillCut, RefillSplice,
              ReleaseDrained, ReleaseBegin, ReleaseReadPinned, ReleaseReadMappings, ReleaseSetPending,
              ReleaseSetFree, ReleasePush, DrainIfReady, DrainLoad, table, clients
<1>8. ASSUME NEW t \in Thread, NEW f \in Frame, Alloc(t) \/ ReleaseHeld(t, f) \/ Retype(t, f)
      PROVE  UNCHANGED <<pinned, mappings, pins, maps>>
  BY <1>8 DEF Alloc, PopFrame, PopNothing, ReleaseHeld, ReleaseBegin, Retype, table, clients
<1>9. ASSUME NEW t \in Thread, Alloc(t)
      PROVE  UNCHANGED <<pinned, mappings, pins, maps>>
  BY <1>9 DEF Alloc, PopFrame, PopNothing, table, clients
<1>10. CASE UNCHANGED vars
  BY <1>6, <1>10 DEF vars, table, clients
<1>. QED  BY <1>2, <1>3, <1>4, <1>5, <1>6, <1>7, <1>8, <1>9, <1>10 DEF Next, Call

LEMMA TypeStep ==
    ASSUME IInv, [Next]_vars
    PROVE  TypeOK'
<1>r. pinned' \in [Frame -> Nat] /\ mappings' \in [Frame -> Nat]
  BY RefStep
<1>0. CASE UNCHANGED vars
  BY <1>0 DEF IInv, TypeOK, vars, table, freelists, refill, clients
<1>c. /\ LIST_END \in Nat /\ LIST_END \notin Frame /\ Frame \subseteq 0 .. LIST_END
      /\ GEN_MOD \in Nat \ {0} /\ NONE \notin Thread /\ SHARD_REFILL_BATCH \in Nat \ {0}
      /\ \A f \in 0 .. LIST_END : f # LIST_END => f \in Frame
      /\ Global \in Lists
  BY ConstantsOK, ListsApart DEF LIST_END, Frame
<1>1. ASSUME NEW t \in Thread, PopFrame(t), pc[t] \in {"idle", "pop_again"} PROVE TypeOK'
  <2>1. /\ Shard(t) \in Lists /\ count[Shard(t)] - 1 \in Nat
        /\ owner[head[Shard(t)]] = "Free" /\ head[Shard(t)] \in Frame
    <3>1. Shard(t) \in Lists /\ count[Shard(t)] > 0 /\ owner[head[Shard(t)]] = "Free"
      BY <1>1, PopChain, ShardInShards
    <3>2. head[Shard(t)] # LIST_END /\ head[Shard(t)] \in 0 .. LIST_END /\ count[Shard(t)] \in Nat
      BY <1>1, <3>1 DEF IInv, TypeOK, PopFrame
    <3>. QED BY <1>c, <3>1, <3>2
  <2>2. next[head[Shard(t)]] \in 0 .. LIST_END /\ gen[head[Shard(t)]] \in 0 .. GEN_MOD - 1
    BY <2>1 DEF IInv, TypeOK
  <2>3. head' \in [Lists -> 0 .. LIST_END] /\ count' \in [Lists -> Nat]
    BY <1>1, <2>1, <2>2 DEF IInv, TypeOK, PopFrame
  <2>4. /\ owner' \in [Frame -> Owner] /\ held' \in [Thread -> SUBSET Frame]
        /\ stamp' \in [Frame -> 0 .. GEN_MOD - 1] /\ next' \in [Frame -> 0 .. LIST_END]
        /\ pc' \in [Thread -> PC] /\ lock' = lock
    <3>1. LET f == head[Shard(t)] IN
          /\ owner' = [owner EXCEPT ![f] = "Kernel"] /\ held' = [held EXCEPT ![t] = @ \cup {f}]
          /\ stamp' = [stamp EXCEPT ![f] = gen[f]] /\ next' = [next EXCEPT ![f] = LIST_END]
          /\ pc' = [pc EXCEPT ![t] = "idle"] /\ lock' = lock
      BY <1>1, <2>1 DEF PopFrame, Goto
    <3>2. owner' \in [Frame -> Owner] /\ pc' \in [Thread -> PC]
      BY Zenon, <3>1 DEF IInv, TypeOK, Owner, PC
    <3>3. held' \in [Thread -> SUBSET Frame]
      BY <3>1, <2>1 DEF IInv, TypeOK
    <3>4. stamp' \in [Frame -> 0 .. GEN_MOD - 1]
      BY Zenon, <3>1, <2>2 DEF IInv, TypeOK
    <3>5. next' \in [Frame -> 0 .. LIST_END]
      <4>1. LIST_END \in 0 .. LIST_END /\ next \in [Frame -> 0 .. LIST_END]
        BY <1>c DEF IInv, TypeOK
      <4>. QED BY Zenon, <3>1, <4>1
    <3>. QED BY <3>1, <3>2, <3>3, <3>4, <3>5
  <2>5. UNCHANGED <<gen, frame, seen, batch, bhead, tail, cur, i, pins, maps>>
    BY <1>1 DEF PopFrame, refill
  <2>. QED BY <1>r, <2>3, <2>4, <2>5 DEF IInv, TypeOK
<1>2. ASSUME NEW t \in Thread, NEW l \in {"idle", "refill"}, PopNothing(t, l) PROVE TypeOK'
  BY <1>2 DEF IInv, TypeOK, PopNothing, Goto, PC, table, freelists, refill, clients
<1>3. ASSUME NEW t \in Thread, RefillBegin(t) PROVE TypeOK'
  <2>1. count[Global] # 0 => head[Global] \in Frame
    BY <1>3, BeginChain
  <2>2. MinOf(count[Global], SHARD_REFILL_BATCH) \in Nat
        /\ (MinOf(count[Global], SHARD_REFILL_BATCH) # 0 => count[Global] # 0)
    BY <1>c DEF IInv, TypeOK, MinOf
  <2>3. CASE MinOf(count[Global], SHARD_REFILL_BATCH) = 0
    BY <1>3, <2>3 DEF IInv, TypeOK, RefillBegin, Goto, PC, table, freelists, refill, clients
  <2>4. CASE MinOf(count[Global], SHARD_REFILL_BATCH) # 0
    <3>1. head[Global] \in 0 .. LIST_END /\ next[head[Global]] \in 0 .. LIST_END
      BY <1>c, <2>1, <2>2, <2>4 DEF IInv, TypeOK
    <3>2. /\ pc' = [pc EXCEPT ![t] = "peel"] /\ lock' = [lock EXCEPT ![Global] = t]
          /\ batch' = [batch EXCEPT ![t] = MinOf(count[Global], SHARD_REFILL_BATCH)]
          /\ i' = [i EXCEPT ![t] = 1]
          /\ UNCHANGED <<owner, pinned, mappings, gen, next, head, count, frame, seen, held, pins, maps, stamp>>
      BY <1>3, <2>4 DEF RefillBegin, Goto, Lock, table, freelists, clients
    <3>3. /\ bhead' = [bhead EXCEPT ![t] = head[Global]] /\ tail' = [tail EXCEPT ![t] = head[Global]]
          /\ cur' = [cur EXCEPT ![t] = next[head[Global]]]
      BY <1>3, <2>4 DEF RefillBegin
    <3>4. pc' \in [Thread -> PC] /\ lock' \in [Lists -> Thread \cup {NONE}]
      BY Zenon, <3>2 DEF IInv, TypeOK, PC
    <3>5. batch' \in [Thread -> Nat] /\ i' \in [Thread -> Nat]
      BY <3>2, <2>2 DEF IInv, TypeOK
    <3>6. bhead' \in [Thread -> 0 .. LIST_END] /\ tail' \in [Thread -> 0 .. LIST_END]
          /\ cur' \in [Thread -> 0 .. LIST_END]
      BY <3>1, <3>3 DEF IInv, TypeOK
    <3>. QED BY <3>2, <3>4, <3>5, <3>6 DEF IInv, TypeOK
  <2>. QED BY <2>3, <2>4
<1>4. ASSUME NEW t \in Thread, RefillWalk(t) PROVE TypeOK'
  <2>1. cur[t] \in Frame
    BY <1>4, WalkChain
  <2>. QED BY <1>4, <2>1 DEF IInv, TypeOK, RefillWalk, table, freelists, clients
<1>5. ASSUME NEW t \in Thread, RefillCut(t) PROVE TypeOK'
  <2>1. cur[t] \in 0 .. LIST_END /\ count[Global] - batch[t] \in Nat
    BY <1>5, CutChain
  <2>. QED BY <1>5, <1>c, <2>1 DEF IInv, TypeOK, RefillCut, Goto, Unlock, PC, table, refill, clients
<1>6. ASSUME NEW t \in Thread, RefillSplice(t) PROVE TypeOK'
  <2>1. tail[t] \in Frame /\ Shard(t) \in Lists
    BY <1>6, SpliceChain, ShardInShards
  <2>. QED BY <1>6, <1>c, <2>1 DEF IInv, TypeOK, RefillSplice, Goto, PC, table, clients
<1>7. ASSUME NEW t \in Thread, NEW f \in Frame, ReleaseHeld(t, f) PROVE TypeOK'
  BY Zenon, <1>7 DEF IInv, TypeOK, ReleaseHeld, ReleaseBegin, Goto, Lock, PC, Owner, table, freelists, refill
<1>8. ASSUME NEW t \in Thread, ReleaseDrained(t) PROVE TypeOK'
  <2>1. frame[t] \in Frame
    BY <1>8 DEF IInv, LockInv, InDrain, ReleaseDrained
  <2>. QED BY Zenon, <1>8, <2>1 DEF IInv, TypeOK, ReleaseDrained, ReleaseBegin, Goto, Lock, PC, Owner, table, freelists, refill
<1>9. ASSUME NEW t \in Thread, ReleaseReadPinned(t) \/ ReleaseReadMappings(t) PROVE TypeOK'
  BY <1>9 DEF IInv, TypeOK, ReleaseReadPinned, ReleaseReadMappings, Goto, PC, table, freelists, refill, clients
<1>10. ASSUME NEW t \in Thread, ReleaseSetPending(t) PROVE TypeOK'
  <2>1. /\ owner' \in [Frame -> Owner] /\ lock' \in [Lists -> Thread \cup {NONE}]
        /\ pc' \in [Thread -> PC] /\ frame' \in [Thread -> Frame \cup {NONE}] /\ seen' \in [Thread -> Owner]
    <3>1. CASE owner[frame[t]] = seen[t] \/ seen[t] = "Pending"
      <4>1. /\ owner' = [owner EXCEPT ![frame[t]] = IF seen[t] = "Pending" THEN @ ELSE "Pending"]
            /\ lock' = [lock EXCEPT ![Shard(t)] = NONE] /\ pc' = [pc EXCEPT ![t] = "idle"]
            /\ frame' = [frame EXCEPT ![t] = NONE] /\ seen' = [seen EXCEPT ![t] = "Reserved"]
        BY <1>10, <3>1 DEF ReleaseSetPending, Return, Goto, Unlock
      <4>2. owner' \in [Frame -> Owner]
        BY Zenon, <4>1 DEF IInv, TypeOK, Owner
      <4>3. lock' \in [Lists -> Thread \cup {NONE}] /\ frame' \in [Thread -> Frame \cup {NONE}]
        BY Zenon, <4>1 DEF IInv, TypeOK
      <4>4. pc' \in [Thread -> PC] /\ seen' \in [Thread -> Owner]
        BY <4>1 DEF IInv, TypeOK, PC, Owner
      <4>. QED BY <4>2, <4>3, <4>4
    <3>2. CASE ~(owner[frame[t]] = seen[t] \/ seen[t] = "Pending")
      BY <1>10, <3>2 DEF IInv, TypeOK, ReleaseSetPending, Goto, PC
    <3>. QED BY <3>1, <3>2
  <2>2. UNCHANGED <<gen, next, head, count, batch, bhead, tail, cur, i, held, pins, maps, stamp>>
    BY <1>10 DEF ReleaseSetPending, freelists, refill, clients
  <2>. QED BY <1>r, <2>1, <2>2 DEF IInv, TypeOK
<1>11. ASSUME NEW t \in Thread, ReleaseSetFree(t) PROVE TypeOK'
  BY ZenonT(40), <1>11, <1>r DEF IInv, TypeOK, ReleaseSetFree, Goto, PC, Owner, freelists, refill, clients
<1>12. ASSUME NEW t \in Thread, ReleasePush(t) PROVE TypeOK'
  <2>1. frame[t] \in Frame /\ Shard(t) \in Lists
    BY <1>12, PushChain, ShardInShards DEF Free
  <2>2. gen' \in [Frame -> 0 .. GEN_MOD - 1]
    <3>1. \A x \in 0 .. GEN_MOD - 1 : (x + 1) % GEN_MOD \in 0 .. GEN_MOD - 1
      BY <1>c
    <3>. QED BY <1>12, <2>1, <3>1 DEF IInv, TypeOK, ReleasePush, BumpGen
  <2>3. /\ next' \in [Frame -> 0 .. LIST_END]
        /\ head' \in [Lists -> 0 .. LIST_END] /\ count' \in [Lists -> Nat]
    <3>1. /\ next' = [next EXCEPT ![frame[t]] = head[Shard(t)]]
          /\ head' = [head EXCEPT ![Shard(t)] = frame[t]]
          /\ count' = [count EXCEPT ![Shard(t)] = @ + 1]
      BY <1>12 DEF ReleasePush
    <3>2. head[Shard(t)] \in 0 .. LIST_END /\ count[Shard(t)] + 1 \in Nat /\ frame[t] \in 0 .. LIST_END
      <4>1. head[Shard(t)] \in 0 .. LIST_END /\ count[Shard(t)] \in Nat
        BY <2>1 DEF IInv, TypeOK
      <4>2. frame[t] \in 0 .. LIST_END
        BY Zenon, <1>c, <2>1
      <4>. QED BY <4>1, <4>2
    <3>3. next' \in [Frame -> 0 .. LIST_END]
      BY Zenon, <3>1, <3>2 DEF IInv, TypeOK
    <3>4. head' \in [Lists -> 0 .. LIST_END] /\ count' \in [Lists -> Nat]
      BY Zenon, <3>1, <3>2 DEF IInv, TypeOK
    <3>. QED BY <3>3, <3>4
  <2>4. /\ lock' \in [Lists -> Thread \cup {NONE}]
        /\ pc' \in [Thread -> PC] /\ frame' \in [Thread -> Frame \cup {NONE}] /\ seen' \in [Thread -> Owner]
    BY Zenon, <1>12 DEF IInv, TypeOK, ReleasePush, Return, Goto, Unlock, PC, Owner
  <2>5. UNCHANGED <<owner, batch, bhead, tail, cur, i, held, pins, maps, stamp>>
    BY <1>12 DEF ReleasePush, refill, clients
  <2>. QED BY <1>r, <2>2, <2>3, <2>4, <2>5 DEF IInv, TypeOK
<1>13. ASSUME NEW t \in Thread, DrainIfReady(t) PROVE TypeOK'
  BY <1>13 DEF IInv, TypeOK, DrainIfReady, DrainLoad, Return, Goto, PC, Owner, table, freelists, refill, clients
<1>14. ASSUME NEW t \in Thread, NEW f \in Frame, PinFrame(t, f) \/ AddMapping(t, f) PROVE TypeOK'
  <2>1. /\ pins' \in [Thread -> SUBSET Frame] /\ maps' \in [Thread -> SUBSET Frame]
        /\ UNCHANGED <<owner, gen, next, head, count, lock, pc, frame, seen, batch, bhead, tail, cur, i, held, stamp>>
    <3>1. CASE PinFrame(t, f)
      BY <3>1 DEF IInv, TypeOK, PinFrame, freelists, refill
    <3>2. CASE AddMapping(t, f)
      BY <3>2 DEF IInv, TypeOK, AddMapping, freelists, refill
    <3>. QED BY <1>14, <3>1, <3>2
  <2>. QED BY <1>r, <2>1 DEF IInv, TypeOK
<1>15. ASSUME NEW t \in Thread, NEW f \in Frame, UnpinFrame(t, f) \/ RemoveMapping(t, f) PROVE TypeOK'
  <2>1. /\ pins' \in [Thread -> SUBSET Frame] /\ maps' \in [Thread -> SUBSET Frame]
        /\ pc' \in [Thread -> PC] /\ frame' \in [Thread -> Frame \cup {NONE}]
        /\ UNCHANGED <<owner, gen, next, head, count, lock, seen, batch, bhead, tail, cur, i, held, stamp>>
    <3>1. CASE UnpinFrame(t, f)
      BY <3>1 DEF IInv, TypeOK, UnpinFrame, Goto, PC, freelists, refill
    <3>2. CASE RemoveMapping(t, f)
      BY <3>2 DEF IInv, TypeOK, RemoveMapping, Goto, PC, freelists, refill
    <3>. QED BY <1>15, <3>1, <3>2
  <2>. QED BY <1>r, <2>1 DEF IInv, TypeOK
<1>16. ASSUME NEW t \in Thread, NEW f \in Frame, Retype(t, f) PROVE TypeOK'
  BY <1>16 DEF IInv, TypeOK, Retype, Owner, freelists, refill
<1>17. ASSUME NEW t \in Thread, Step(t) PROVE TypeOK'
  BY <1>17, <1>1, <1>2, <1>3, <1>4, <1>5, <1>6, <1>8, <1>9, <1>10, <1>11, <1>12, <1>13 DEF Step, AllocRetry
<1>18. ASSUME NEW t \in Thread, Call(t) PROVE TypeOK'
  BY <1>18, <1>1, <1>2, <1>7, <1>14, <1>15, <1>16 DEF Call, Alloc
<1>. QED  BY <1>0, <1>17, <1>18 DEF Next

LEMMA LockStep ==
    ASSUME IInv, [Next]_vars, TypeOK'
    PROVE  LockInv'
<1>0. CASE UNCHANGED vars
  BY Zenon, <1>0 DEF IInv, LockInv, vars, freelists, table, refill, clients
<1>c. NONE \notin Thread /\ \A t \in Thread : Shard(t) \in Lists /\ Shard(t) # Global
  BY ConstantsOK, ShardInShards
<1>l. /\ lock \in [Lists -> Thread \cup {NONE}] /\ pc \in [Thread -> PC] /\ frame \in [Thread -> Frame \cup {NONE}]
      /\ seen \in [Thread -> Owner] /\ LockInv
  BY DEF IInv, TypeOK
<1>1. ASSUME NEW t \in Thread, PopFrame(t), pc[t] \in {"idle", "pop_again"} PROVE LockInv'
  <2>1. owner[head[Shard(t)]] = "Free"
    BY <1>1, PopChain
  <2>. QED BY <1>1, <2>1, <1>l DEF LockInv, PopFrame, Goto, InRelease, InDrain
<1>2. ASSUME NEW t \in Thread, NEW l \in {"idle", "refill"}, PopNothing(t, l) PROVE LockInv'
  BY <1>2, <1>l DEF LockInv, PopNothing, Goto, InRelease, InDrain
<1>3. ASSUME NEW t \in Thread, RefillBegin(t) PROVE LockInv'
  BY <1>3, <1>c, <1>l DEF LockInv, RefillBegin, Goto, Lock, Unlocked, InRelease, InDrain, Lists
<1>4. ASSUME NEW t \in Thread, RefillWalk(t) PROVE LockInv'
  BY <1>4, <1>l DEF LockInv, RefillWalk
<1>5. ASSUME NEW t \in Thread, RefillCut(t) PROVE LockInv'
  BY <1>5, <1>c, <1>l DEF LockInv, RefillCut, Goto, Unlock, InRelease, InDrain, Lists
<1>6. ASSUME NEW t \in Thread, RefillSplice(t) PROVE LockInv'
  BY <1>6, <1>l DEF LockInv, RefillSplice, Goto, InRelease, InDrain
<1>7. ASSUME NEW t \in Thread, NEW f \in Frame, ReleaseBegin(t, f), frame' = [frame EXCEPT ![t] = f],
             pc[t] \in {"idle", "release"}
      PROVE  LockInv'
  BY <1>7, <1>c, <1>l DEF LockInv, ReleaseBegin, Goto, Lock, Unlocked, InRelease, InDrain, Lists
<1>8. ASSUME NEW t \in Thread, ReleaseDrained(t) PROVE LockInv'
  <2>1. frame[t] \in Frame /\ pc[t] = "release" /\ frame' = [frame EXCEPT ![t] = frame[t]]
    BY <1>8, <1>l DEF LockInv, InDrain, ReleaseDrained
  <2>. QED BY ZenonT(40), <1>8, <2>1, <1>7 DEF ReleaseDrained
<1>9. ASSUME NEW t \in Thread, ReleaseReadPinned(t) \/ ReleaseReadMappings(t) PROVE LockInv'
  BY <1>9, <1>l DEF LockInv, ReleaseReadPinned, ReleaseReadMappings, Goto, InRelease, InDrain
<1>10. ASSUME NEW t \in Thread, ReleaseSetPending(t) PROVE LockInv'
  <2>1. CASE owner[frame[t]] = seen[t] \/ seen[t] = "Pending"
    <3>1. /\ lock' = [lock EXCEPT ![Shard(t)] = NONE] /\ pc' = [pc EXCEPT ![t] = "idle"]
          /\ frame' = [frame EXCEPT ![t] = NONE] /\ seen' = [seen EXCEPT ![t] = "Reserved"]
          /\ pc[t] = "set_pending"
      BY <1>10, <2>1 DEF ReleaseSetPending, Return, Goto, Unlock
    <3>. QED BY <3>1, <1>c, <1>l DEF LockInv, InRelease, InDrain
  <2>2. CASE ~(owner[frame[t]] = seen[t] \/ seen[t] = "Pending")
    BY <1>10, <2>2, <1>l DEF LockInv, ReleaseSetPending, Goto, InRelease, InDrain
  <2>. QED BY <2>1, <2>2
<1>11. ASSUME NEW t \in Thread, ReleaseSetFree(t) PROVE LockInv'
  BY <1>11, <1>l DEF LockInv, ReleaseSetFree, Goto, InRelease, InDrain
<1>12. ASSUME NEW t \in Thread, ReleasePush(t) PROVE LockInv'
  BY <1>12, <1>c, <1>l DEF LockInv, ReleasePush, Return, Goto, Unlock, InRelease, InDrain, Lists
<1>13. ASSUME NEW t \in Thread, DrainIfReady(t) PROVE LockInv'
  <2>1. lock' = lock /\ pc[t] \in {"drain_owner", "drain_pinned", "drain_mappings"}
    BY Zenon, <1>13 DEF DrainIfReady, DrainLoad
  <2>2. \/ /\ pc' = [pc EXCEPT ![t] = "idle"]
           /\ frame' = [frame EXCEPT ![t] = NONE] /\ seen' = [seen EXCEPT ![t] = "Reserved"]
        \/ /\ \E l \in {"drain_pinned", "drain_mappings", "release"} : pc' = [pc EXCEPT ![t] = l]
           /\ UNCHANGED <<frame, seen>>
    BY <1>13 DEF DrainIfReady, DrainLoad, Return, Goto
  <2>3. \A u \in Thread : u # t => pc'[u] = pc[u] /\ frame'[u] = frame[u] /\ seen'[u] = seen[u]
    BY <2>2, <1>l
  <2>4. pc'[t] \in {"idle", "drain_pinned", "drain_mappings", "release"} /\ (pc'[t] # "idle" => frame'[t] = frame[t])
    BY <2>2, <1>l
  <2>5. frame[t] \in Frame
    BY <2>1, <1>l DEF LockInv, InDrain
  <2>. QED BY <2>1, <2>3, <2>4, <2>5, <1>l DEF LockInv, InRelease, InDrain
<1>14. ASSUME NEW t \in Thread, NEW f \in Frame, PinFrame(t, f) \/ AddMapping(t, f) \/ Retype(t, f) PROVE LockInv'
  BY <1>14, <1>l DEF LockInv, PinFrame, AddMapping, Retype
<1>15. ASSUME NEW t \in Thread, NEW f \in Frame, UnpinFrame(t, f) \/ RemoveMapping(t, f) PROVE LockInv'
  <2>1. /\ pc' = [pc EXCEPT ![t] = "drain_owner"] /\ frame' = [frame EXCEPT ![t] = f]
        /\ pc[t] = "idle" /\ UNCHANGED <<lock, seen>>
    BY <1>15 DEF UnpinFrame, RemoveMapping, Goto
  <2>. QED BY <2>1, <1>l DEF LockInv, InRelease, InDrain
<1>16. ASSUME NEW t \in Thread, NEW f \in Frame, ReleaseHeld(t, f) PROVE LockInv'
  BY ZenonT(40), <1>16, <1>7 DEF ReleaseHeld
<1>17. ASSUME NEW t \in Thread, Step(t) PROVE LockInv'
  BY <1>17, <1>1, <1>2, <1>3, <1>4, <1>5, <1>6, <1>8, <1>9, <1>10, <1>11, <1>12, <1>13 DEF Step, AllocRetry
<1>18. ASSUME NEW t \in Thread, Call(t) PROVE LockInv'
  BY <1>18, <1>1, <1>2, <1>14, <1>15, <1>16 DEF Call, Alloc
<1>. QED  BY <1>0, <1>17, <1>18 DEF Next

LEMMA ChainStep ==
    ASSUME IInv, [Next]_vars, TypeOK'
    PROVE  ChainInv'
<1> DEFINE Quiet == /\ owner' \in [Frame -> Owner] /\ Free' = Free /\ UNCHANGED <<next, head, count, refill>>
<1>o. owner' \in [Frame -> Owner]
  BY DEF TypeOK
<1>q. ASSUME Quiet, NEW t \in Thread, NEW l \in PC, pc' = [pc EXCEPT ![t] = l],
             pc[t] \notin {"splice", "push", "peel"}, l \notin {"splice", "push", "peel"},
             \A u \in Thread : u # t => frame'[u] = frame[u]
      PROVE  ChainInv'
  <2>1. \A u \in Thread : pc'[u] = IF u = t THEN l ELSE pc[u]
    BY <1>q DEF IInv, TypeOK
  <2>2. /\ {t} \in SUBSET Thread /\ \A u \in {t} : {pc[u], pc'[u]} \cap {"splice", "push", "peel"} = {}
        /\ \A u \in Thread \ {t} : pc'[u] = pc[u] /\ frame'[u] = frame[u]
    <3>1. \A u \in {t} : pc[u] \notin {"splice", "push", "peel"} /\ pc'[u] \notin {"splice", "push", "peel"}
      BY <1>q, <2>1
    <3>2. \A u \in Thread \ {t} : pc'[u] = pc[u] /\ frame'[u] = frame[u]
      BY <1>q, <2>1
    <3>. QED BY ONLY <3>1, <3>2, t \in Thread, Zenon
  <2>. QED BY <1>q, <2>2, QuietStep DEF IInv, refill
<1>u. ASSUME Quiet, UNCHANGED <<pc, frame>> PROVE ChainInv'
  <2>1. /\ {} \in SUBSET Thread /\ \A u \in {} : {pc[u], pc'[u]} \cap {"splice", "push", "peel"} = {}
        /\ \A u \in Thread \ {} : pc'[u] = pc[u] /\ frame'[u] = frame[u]
    BY <1>u
  <2>. QED BY <1>u, <2>1, QuietStep DEF IInv, refill
<1>f. owner' = owner => Free' = Free
  BY DEF Free
<1>. HIDE DEF Quiet
<1>0. CASE UNCHANGED vars
  BY <1>0, <1>u, <1>o, <1>f DEF Quiet, vars, table, freelists
<1>1. ASSUME NEW t \in Thread, PopFrame(t), pc[t] \in {"idle", "pop_again"} PROVE ChainInv'
  BY <1>1, PopChain
<1>2. ASSUME NEW t \in Thread, NEW l \in {"idle", "refill"}, pc[t] \in {"idle", "pop_again"}, PopNothing(t, l)
      PROVE  ChainInv'
  <2>1. Quiet /\ frame' = frame /\ pc' = [pc EXCEPT ![t] = l]
    BY SMTT(30), <1>2, <1>o, <1>f DEF Quiet, PopNothing, Goto, table, freelists
  <2>. QED BY <1>2, <2>1, <1>q, Zenon DEF PC
<1>7. ASSUME NEW t \in Thread, NEW f \in Frame, ReleaseHeld(t, f) PROVE ChainInv'
  <2>1. /\ Quiet /\ pc[t] = "idle" /\ frame' = [frame EXCEPT ![t] = f]
        /\ \E l \in {"release_panic", "read_pinned"} : pc' = [pc EXCEPT ![t] = l]
    BY Zenon, <1>7, <1>o, <1>f DEF Quiet, ReleaseHeld, ReleaseBegin, Goto, table, freelists
  <2>2. \A u \in Thread : u # t => frame'[u] = frame[u]
    BY SMTT(30), <2>1 DEF IInv, TypeOK
  <2>. QED BY <2>1, <2>2, <1>q, Zenon DEF PC
<1>8. ASSUME NEW t \in Thread, ReleaseDrained(t) PROVE ChainInv'
  <2>1. /\ Quiet /\ pc[t] = "release" /\ frame' = frame
        /\ \E l \in {"release_panic", "read_pinned"} : pc' = [pc EXCEPT ![t] = l]
    BY Zenon, <1>8, <1>o, <1>f DEF Quiet, ReleaseDrained, ReleaseBegin, Goto, table, freelists
  <2>. QED BY <2>1, <1>q, Zenon DEF PC
<1>9. ASSUME NEW t \in Thread, ReleaseReadPinned(t) \/ ReleaseReadMappings(t) PROVE ChainInv'
  <2>1. /\ Quiet /\ pc[t] \in {"read_pinned", "read_mappings"} /\ frame' = frame
        /\ \E l \in {"set_pending", "read_mappings", "set_free"} : pc' = [pc EXCEPT ![t] = l]
    BY <1>9, <1>o, <1>f DEF Quiet, ReleaseReadPinned, ReleaseReadMappings, Goto, table, freelists
  <2>. QED BY <2>1, <1>q, Zenon DEF PC
<1>10. ASSUME NEW t \in Thread, ReleaseSetPending(t) PROVE ChainInv'
  <2>1. pc[t] = "set_pending" /\ frame[t] \in Frame /\ seen[t] # "Free" /\ UNCHANGED <<next, head, count, refill>>
    BY <1>10 DEF ReleaseSetPending, IInv, LockInv, InRelease, freelists
  <2>2. /\ \E l \in {"idle", "owner_panic"} : pc' = [pc EXCEPT ![t] = l]
        /\ \A u \in Thread : u # t => frame'[u] = frame[u]
    BY <1>10 DEF ReleaseSetPending, Return, Goto, IInv, TypeOK
  <2>3. ASSUME NEW g \in Frame PROVE owner'[g] = "Free" <=> owner[g] = "Free"
    <3>1. \/ owner' = owner
          \/ /\ owner' = [owner EXCEPT ![frame[t]] = IF seen[t] = "Pending" THEN @ ELSE "Pending"]
             /\ owner[frame[t]] = seen[t] \/ seen[t] = "Pending"
      BY <1>10 DEF ReleaseSetPending
    <3>. QED BY <2>1, <3>1 DEF IInv, TypeOK
  <2>4. Free' = Free
    BY <2>3 DEF Free
  <2>5. Quiet
    BY SMTT(30), <2>1, <2>4, <1>o DEF Quiet
  <2>. QED BY <2>1, <2>2, <2>5, <1>q, Zenon DEF PC
<1>11. ASSUME NEW t \in Thread, ReleaseSetFree(t) PROVE ChainInv'
  <2>1. CASE owner[frame[t]] = seen[t]
    BY <1>11, <2>1, SetFreeChain
  <2>2. CASE owner[frame[t]] # seen[t]
    <3>1. Quiet /\ pc[t] = "set_free" /\ frame' = frame /\ pc' = [pc EXCEPT ![t] = "owner_panic"]
      BY <1>11, <2>2, <1>o, <1>f DEF Quiet, ReleaseSetFree, Goto, freelists
    <3>. QED BY <3>1, <1>q, Zenon DEF PC
  <2>. QED BY <2>1, <2>2
<1>13. ASSUME NEW t \in Thread, DrainIfReady(t) PROVE ChainInv'
  <2>1. Quiet /\ pc[t] \in {"drain_owner", "drain_pinned", "drain_mappings"}
    BY <1>13, <1>o, <1>f DEF Quiet, DrainIfReady, DrainLoad, table, freelists
  <2>2. /\ \E l \in {"idle", "drain_pinned", "drain_mappings", "release"} : pc' = [pc EXCEPT ![t] = l]
        /\ \A u \in Thread : u # t => frame'[u] = frame[u]
    BY <1>13 DEF DrainIfReady, DrainLoad, Return, Goto, IInv, TypeOK
  <2>. QED BY <2>1, <2>2, <1>q, Zenon DEF PC
<1>14. ASSUME NEW t \in Thread, NEW f \in Frame, PinFrame(t, f) \/ AddMapping(t, f) PROVE ChainInv'
  BY <1>14, <1>u, <1>o, <1>f DEF Quiet, PinFrame, AddMapping, freelists
<1>15. ASSUME NEW t \in Thread, NEW f \in Frame, UnpinFrame(t, f) \/ RemoveMapping(t, f) PROVE ChainInv'
  <2>1. /\ Quiet /\ pc[t] = "idle" /\ frame' = [frame EXCEPT ![t] = f] /\ pc' = [pc EXCEPT ![t] = "drain_owner"]
    BY <1>15, <1>o, <1>f DEF Quiet, UnpinFrame, RemoveMapping, Goto, freelists
  <2>2. \A u \in Thread : u # t => frame'[u] = frame[u]
    BY SMTT(30), <2>1 DEF IInv, TypeOK
  <2>. QED BY <2>1, <2>2, <1>q, Zenon DEF PC
<1>16. ASSUME NEW t \in Thread, NEW f \in Frame, Retype(t, f) PROVE ChainInv'
  <2>1. Free' = Free
    BY <1>16 DEF Retype, Free, IInv, TypeOK
  <2>. QED BY <1>16, <2>1, <1>u, <1>o DEF Quiet, Retype, freelists
<1>17. ASSUME NEW t \in Thread, Step(t) PROVE ChainInv'
  BY <1>17, <1>1, <1>2, <1>8, <1>9, <1>10, <1>11, <1>13,
     BeginChain, WalkChain, CutChain, SpliceChain, PushChain DEF Step, AllocRetry
<1>18. ASSUME NEW t \in Thread, Call(t) PROVE ChainInv'
  BY <1>18, <1>1, <1>2, <1>7, <1>14, <1>15, <1>16 DEF Call, Alloc
<1>. QED  BY <1>0, <1>17, <1>18 DEF Next

----------------------------------------------------------------------------
(* None means empty: the lists one thread can see. *)

OneThread == \A t, u \in Thread : t = u

\* One thread fills no shard but its own, and tries again only with a frame in it or
\* after it found the global list empty.
ShardInv ==
    /\ OneThread
    /\ \A t \in Thread : \A s \in Shards : s # Shard(t) => count[s] = 0
    /\ \A t \in Thread : pc[t] = "pop_again" => head[Shard(t)] # LIST_END \/ count[Global] = 0

\* The chain a refill carries is not empty.
LEMMA SpliceFrame ==
    ASSUME IInv, NEW t \in Thread, pc[t] = "splice"
    PROVE  bhead[t] \in Frame
<1>1. PICK place \in Places(Free), pos \in Positions(Free) : Linked(place, pos)
  BY SMTT(30) DEF IInv, ChainInv
<1>2. /\ IsChain(At(place, t), pos, next, bhead[t], batch[t])
      /\ tail[t] \in At(place, t) /\ batch[t] \in Nat
  BY <1>1 DEF Linked, InHand, IInv, TypeOK
<1>3. batch[t] # 0
  BY <1>2 DEF IsChain
<1>. QED BY <1>2, <1>3 DEF IsChain, At, Free

LEMMA ShardStep == IInv /\ ShardInv /\ [Next]_vars => ShardInv'
<1> SUFFICES ASSUME IInv, ShardInv, [Next]_vars PROVE ShardInv'
  OBVIOUS
<1>t. TypeOK
  BY DEF IInv
<1>c. LIST_END \notin Frame /\ Global \notin Shards /\ Global \in Lists /\ SHARD_REFILL_BATCH \in Nat \ {0}
  BY ConstantsOK DEF LIST_END, Frame, Global, Shards, Lists
<1>1. ASSUME NEW t \in Thread, \A l \in Lists : l \notin {Shard(t), Global} => count'[l] = count[l],
             \/ pc'[t] # "pop_again"
             \/ head'[Shard(t)] # LIST_END \/ count'[Global] = 0
      PROVE  ShardInv'
  <2>1. \A u \in Thread : u = t
    BY DEF ShardInv, OneThread
  <2>2. \A s \in Shards : s # Shard(t) => count'[s] = 0
    BY <1>1, <1>c DEF ShardInv, Lists
  <2>. QED BY <1>1, <2>1, <2>2 DEF ShardInv, OneThread
<1>2. ASSUME NEW t \in Thread, RefillBegin(t) PROVE ShardInv'
  <2>1. UNCHANGED <<count, head>>
    BY <1>2 DEF RefillBegin, freelists
  <2>2. pc'[t] = "pop_again" => count[Global] = 0
    <3>1. PICK n \in Nat, b \in Nat \ {0} : n = count[Global] /\ b = SHARD_REFILL_BATCH
      BY <1>t, <1>c DEF TypeOK
    <3>2. MinOf(n, b) = 0 => n = 0
      BY DEF MinOf
    <3>. QED BY <1>2, <1>t, <3>1, <3>2 DEF RefillBegin, Goto, Lock, TypeOK
  <2>. QED BY <1>1, <2>1, <2>2
<1>3. ASSUME NEW t \in Thread, RefillSplice(t) PROVE ShardInv'
  <2>1. bhead[t] \in Frame
    BY <1>3, SpliceFrame DEF RefillSplice
  <2>2. /\ head' = [head EXCEPT ![Shard(t)] = bhead[t]]
        /\ count' = [count EXCEPT ![Shard(t)] = @ + batch[t]]
    BY <1>3 DEF RefillSplice
  <2>3. head'[Shard(t)] # LIST_END /\ \A l \in Lists : l # Shard(t) => count'[l] = count[l]
    BY <1>t, <1>c, <2>1, <2>2, ShardInShards DEF TypeOK
  <2>. QED BY <1>1, <2>3
<1>y. pc \in [Thread -> PC] /\ count \in [Lists -> Nat]
  BY <1>t DEF TypeOK
<1>4. ASSUME NEW t \in Thread, \E k \in PC \ {"pop_again"} : pc' = [pc EXCEPT ![t] = k],
             count' = count \/ \E l \in {Shard(t), Global}, n \in Int : count' = [count EXCEPT ![l] = n]
      PROVE  ShardInv'
  <2>1. pc'[t] # "pop_again"
    BY <1>4, <1>y
  <2>2. \A l \in Lists : l \notin {Shard(t), Global} => count'[l] = count[l]
    BY <1>4, <1>y
  <2>. QED BY Zenon, <1>1, <2>1, <2>2
<1>5. ASSUME NEW t \in Thread, NEW k \in {"idle", "refill"}, PopFrame(t) \/ PopNothing(t, k) PROVE ShardInv'
  <2>1. count[Shard(t)] \in Nat /\ {"idle", "refill", "list_panic"} \subseteq PC \ {"pop_again"}
    BY <1>y, ShardInShards DEF PC
  <2>2. \E m \in {"idle", "refill", "list_panic"} : pc' = [pc EXCEPT ![t] = m]
    BY <1>5 DEF PopFrame, PopNothing, Goto
  <2>3. count' = count \/ count' = [count EXCEPT ![Shard(t)] = count[Shard(t)] - 1]
    BY <1>5 DEF PopFrame, PopNothing, freelists
  <2>4. count[Shard(t)] - 1 \in Int
    BY <2>1
  <2>. QED BY Zenon, <1>4, <2>1, <2>2, <2>3, <2>4
<1>6. ASSUME NEW t \in Thread, RefillWalk(t) PROVE ShardInv'
  <2>1. pc[t] = "peel" /\ pc' = pc /\ count' = count
    BY <1>6 DEF RefillWalk, freelists
  <2>. QED BY <1>1, <2>1
<1>7. ASSUME NEW t \in Thread, RefillCut(t) PROVE ShardInv'
  <2>1. count[Global] - batch[t] \in Int /\ "splice" \in PC \ {"pop_again"}
    BY <1>t, <1>c DEF TypeOK, PC
  <2>2. pc' = [pc EXCEPT ![t] = "splice"] /\ count' = [count EXCEPT ![Global] = count[Global] - batch[t]]
    BY <1>7 DEF RefillCut, Goto
  <2>. QED BY Zenon, <1>4, <2>1, <2>2
<1>8. ASSUME NEW t \in Thread, ReleaseDrained(t) \/ ReleaseReadPinned(t) \/ ReleaseReadMappings(t) \/ ReleaseSetPending(t)
                               \/ ReleaseSetFree(t) \/ DrainIfReady(t)
      PROVE  ShardInv'
  <2>1. count' = count
    BY Zenon, <1>8 DEF ReleaseDrained, ReleaseBegin, ReleaseReadPinned, ReleaseReadMappings, ReleaseSetPending,
         ReleaseSetFree, DrainIfReady, DrainLoad, freelists
  <2>2. \E k \in PC \ {"pop_again"} : pc' = [pc EXCEPT ![t] = k]
    <3>1. CASE ReleaseDrained(t) \/ ReleaseReadPinned(t) \/ ReleaseReadMappings(t)
      BY <3>1 DEF ReleaseDrained, ReleaseBegin, ReleaseReadPinned, ReleaseReadMappings, Goto, PC
    <3>2. CASE ReleaseSetPending(t) \/ ReleaseSetFree(t)
      BY <3>2 DEF ReleaseSetPending, ReleaseSetFree, Return, Goto, PC
    <3>3. CASE DrainIfReady(t)
      BY <3>3 DEF DrainIfReady, DrainLoad, Return, Goto, PC
    <3>. QED BY <1>8, <3>1, <3>2, <3>3
  <2>. QED BY Zenon, <1>4, <2>1, <2>2
<1>9. ASSUME NEW t \in Thread, ReleasePush(t) PROVE ShardInv'
  <2>1. count[Shard(t)] + 1 \in Int /\ "idle" \in PC \ {"pop_again"}
    BY <1>y, ShardInShards DEF PC
  <2>2. pc' = [pc EXCEPT ![t] = "idle"] /\ count' = [count EXCEPT ![Shard(t)] = count[Shard(t)] + 1]
    BY <1>9 DEF ReleasePush, Return, Goto
  <2>. QED BY Zenon, <1>4, <2>1, <2>2
<1>10. ASSUME NEW t \in Thread, NEW f \in Frame, ReleaseHeld(t, f) \/ UnpinFrame(t, f) \/ RemoveMapping(t, f)
       PROVE  ShardInv'
  <2>1. count' = count
    BY Zenon, <1>10 DEF ReleaseHeld, ReleaseBegin, UnpinFrame, RemoveMapping, freelists
  <2>2. \E k \in PC \ {"pop_again"} : pc' = [pc EXCEPT ![t] = k]
    BY <1>10 DEF ReleaseHeld, ReleaseBegin, UnpinFrame, RemoveMapping, Goto, PC
  <2>. QED BY Zenon, <1>4, <2>1, <2>2
<1>11. ASSUME NEW t \in Thread, NEW f \in Frame, Retype(t, f) \/ PinFrame(t, f) \/ AddMapping(t, f) PROVE ShardInv'
  <2>1. count' = count /\ pc' = pc /\ pc[t] = "idle"
    BY Zenon, <1>11 DEF Retype, PinFrame, AddMapping, freelists
  <2>. QED BY <1>1, <2>1
<1>12. CASE UNCHANGED vars
  BY <1>12 DEF vars, freelists, ShardInv, OneThread
<1>13. ASSUME NEW t \in Thread, Step(t) PROVE ShardInv'
  BY Zenon, <1>13, <1>2, <1>3, <1>5, <1>6, <1>7, <1>8, <1>9 DEF Step, AllocRetry
<1>14. ASSUME NEW t \in Thread, Call(t) PROVE ShardInv'
  BY Zenon, <1>14, <1>5, <1>10, <1>11 DEF Call, Alloc
<1>. QED BY Zenon, <1>12, <1>13, <1>14 DEF Next
=============================================================================
