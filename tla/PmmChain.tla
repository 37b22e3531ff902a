------------------------------ MODULE PmmChain ------------------------------
(***************************************************************************)
(* The inductive invariant of Pmm, and that every operation that moves a   *)
(* free frame keeps the free lists linked: one lemma per operation.        *)
(***************************************************************************)
EXTENDS Pmm, TLAPS

----------------------------------------------------------------------------
(* What cutting a list, joining a chain to a list, and changes elsewhere do *)
(* to the chains of module Chains.                                          *)

\* A chain depends on the positions and links of its own elements only.
LEMMA ChainKept ==
    ASSUME NEW at, NEW pos, NEW nx, NEW hd, NEW n, NEW pos2, NEW nx2,
           IsChain(at, pos, nx, hd, n),
           \A f \in at : pos2[f] = pos[f] /\ nx2[f] = nx[f]
    PROVE  IsChain(at, pos2, nx2, hd, n)
BY DEF IsChain

LEMMA ListKept ==
    ASSUME NEW at, NEW pos, NEW nx, NEW hd, NEW n, NEW end, NEW pos2, NEW nx2,
           IsList(at, pos, nx, hd, n, end),
           \A f \in at : pos2[f] = pos[f] /\ nx2[f] = nx[f]
    PROVE  IsList(at, pos2, nx2, hd, n, end)
BY ChainKept DEF IsList

\* Cutting the first b elements (`up', the last of them `tail') off a list of n
\* leaves `low', whose head is where the tail points.
IsCut(at, pos, n, b, tl, up, low, pos2) ==
    /\ b \in 1 .. n /\ tl \in at /\ pos[tl] = n - b + 1
    /\ up = {f \in at : pos[f] > n - b}
    /\ low = {f \in at : pos[f] <= n - b}
    /\ \A f \in up : pos2[f] = pos[f] - (n - b)
    /\ \A f \in low : pos2[f] = pos[f]

LEMMA ListCut ==
    ASSUME NEW at, NEW pos, NEW nx, NEW hd, NEW n \in Nat, NEW end,
           IsList(at, pos, nx, hd, n, end),
           NEW b, NEW tl, NEW up, NEW low, NEW pos2, IsCut(at, pos, n, b, tl, up, low, pos2)
    PROVE  /\ IsChain(up, pos2, nx, hd, b)
           /\ IsList(low, pos2, nx, nx[tl], n - b, end)
           /\ tl \in up /\ pos2[tl] = 1
<1>. USE DEF IsCut
<1>1. /\ \A f \in at : pos[f] \in 1 .. n
      /\ \A k \in 1 .. n : \E f \in at : pos[f] = k
      /\ \A f, g \in at : pos[f] = pos[g] => f = g
      /\ hd \in at /\ pos[hd] = n
      /\ \A f \in at : pos[f] > 1 => nx[f] \in at /\ pos[nx[f]] = pos[f] - 1
      /\ \A f \in at : pos[f] = 1 => nx[f] = end
  BY DEF IsList, IsChain
<1>2. tl \in up /\ pos2[tl] = 1
  BY <1>1
<1>3. IsChain(up, pos2, nx, hd, b)
  <2>1. \A f \in up : pos2[f] \in 1 .. b
    BY <1>1
  <2>2. ASSUME NEW k \in 1 .. b PROVE \E f \in up : pos2[f] = k
    <3>1. k + (n - b) \in 1 .. n
      OBVIOUS
    <3>2. PICK f \in at : pos[f] = k + (n - b)
      BY <1>1, <3>1
    <3>3. f \in up
      BY <3>2
    <3>. QED BY <3>2, <3>3
  <2>3. ASSUME NEW f \in up, NEW g \in up, pos2[f] = pos2[g] PROVE f = g
    <3>1. f \in at /\ g \in at /\ pos[f] = pos[g]
      BY <1>1, <2>3
    <3>. QED BY <1>1, <3>1
  <2>4. hd \in up /\ pos2[hd] = b
    BY <1>1
  <2>5. ASSUME NEW f \in up, pos2[f] > 1 PROVE nx[f] \in up /\ pos2[nx[f]] = pos2[f] - 1
    <3>1. f \in at /\ pos[f] > 1 /\ pos[f] - 1 > n - b /\ pos2[f] = pos[f] - (n - b) /\ pos[f] \in 1 .. n
      BY <1>1, <2>5
    <3>2. nx[f] \in up /\ pos[nx[f]] = pos[f] - 1
      BY <1>1, <3>1
    <3>. QED BY <3>1, <3>2
  <2>. QED BY <2>1, <2>2, <2>3, <2>4, <2>5 DEF IsChain
<1>4. IsList(low, pos2, nx, nx[tl], n - b, end)
  <2>1. \A f \in low : pos2[f] \in 1 .. n - b
    BY <1>1
  <2>2. \A k \in 1 .. n - b : \E f \in low : pos2[f] = k
    BY <1>1
  <2>3. \A f, g \in low : pos2[f] = pos2[g] => f = g
    BY <1>1
  <2>4. n - b # 0 => nx[tl] \in low /\ pos2[nx[tl]] = n - b
    BY <1>1
  <2>5. \A f \in low : pos2[f] > 1 => nx[f] \in low /\ pos2[nx[f]] = pos2[f] - 1
    BY <1>1
  <2>6. n - b = 0 => nx[tl] = end
    BY <1>1
  <2>7. \A f \in low : pos2[f] = 1 => nx[f] = end
    BY <1>1
  <2>. QED BY Zenon, <2>1, <2>2, <2>3, <2>4, <2>5, <2>6, <2>7 DEF IsList, IsChain
<1>. QED  BY <1>2, <1>3, <1>4

\* Joining a chain `bat', whose last element is `tail', to the front of a list
\* of n by pointing the tail at the list's head.
IsJoin(at, bat, pos, nx, hd, n, tl, pos2, nx2) ==
    /\ tl \in bat /\ pos[tl] = 1 /\ at \cap bat = {}
    /\ nx2[tl] = hd /\ \A f \in (at \cup bat) \ {tl} : nx2[f] = nx[f]
    /\ \A f \in bat : pos2[f] = pos[f] + n
    /\ \A f \in at : pos2[f] = pos[f]

LEMMA ListJoin ==
    ASSUME NEW at, NEW pos, NEW nx, NEW hd, NEW n \in Nat, NEW end,
           IsList(at, pos, nx, hd, n, end),
           NEW bat, NEW bhd, NEW b \in Nat \ {0}, IsChain(bat, pos, nx, bhd, b),
           NEW tl, NEW pos2, NEW nx2, IsJoin(at, bat, pos, nx, hd, n, tl, pos2, nx2)
    PROVE  IsList(at \cup bat, pos2, nx2, bhd, n + b, end)
<1>. USE DEF IsJoin
<1>1. /\ \A f \in at : pos[f] \in 1 .. n
      /\ \A k \in 1 .. n : \E f \in at : pos[f] = k
      /\ \A f, g \in at : pos[f] = pos[g] => f = g
      /\ n # 0 => hd \in at /\ pos[hd] = n
      /\ \A f \in at : pos[f] > 1 => nx[f] \in at /\ pos[nx[f]] = pos[f] - 1
      /\ n = 0 => hd = end
      /\ \A f \in at : pos[f] = 1 => nx[f] = end
  BY DEF IsList, IsChain
<1>2. /\ \A f \in bat : pos[f] \in 1 .. b
      /\ \A k \in 1 .. b : \E f \in bat : pos[f] = k
      /\ \A f, g \in bat : pos[f] = pos[g] => f = g
      /\ bhd \in bat /\ pos[bhd] = b
      /\ \A f \in bat : pos[f] > 1 => nx[f] \in bat /\ pos[nx[f]] = pos[f] - 1
  BY DEF IsChain
<1>3. /\ \A f \in at : pos2[f] \in 1 .. n /\ f # tl
      /\ \A f \in bat : pos2[f] \in n + 1 .. n + b
  BY <1>1, <1>2
<1>4. \A f \in at \cup bat : pos2[f] \in 1 .. n + b
  BY <1>3
<1>5. ASSUME NEW k \in 1 .. n + b PROVE \E f \in at \cup bat : pos2[f] = k
  <2>1. CASE k <= n
    BY <1>1, <2>1
  <2>2. CASE k > n
    <3>1. k - n \in 1 .. b
      BY <2>2
    <3>2. PICK f \in bat : pos[f] = k - n
      BY <1>2, <3>1
    <3>. QED BY <3>2
  <2>. QED BY <2>1, <2>2
<1>6. ASSUME NEW f \in at \cup bat, NEW g \in at \cup bat, pos2[f] = pos2[g] PROVE f = g
  <2>1. f \in at <=> g \in at
    BY <1>3, <1>6
  <2>2. pos[f] = pos[g]
    BY <1>1, <1>2, <1>6, <2>1
  <2>. QED BY <1>1, <1>2, <2>1, <2>2
<1>7. bhd \in at \cup bat /\ pos2[bhd] = n + b
  BY <1>2
<1>8. ASSUME NEW f \in at \cup bat, pos2[f] > 1
      PROVE  nx2[f] \in at \cup bat /\ pos2[nx2[f]] = pos2[f] - 1
  <2>1. CASE f \in at
    BY <1>1, <1>3, <1>8, <2>1
  <2>2. CASE f = tl
    BY <1>1, <1>8, <2>2
  <2>3. CASE f \in bat /\ f # tl
    <3>1. pos[f] > 1
      BY <1>2, <2>3
    <3>2. nx2[f] = nx[f] /\ nx[f] \in bat /\ pos[nx[f]] = pos[f] - 1
      BY <1>2, <2>3, <3>1
    <3>. QED BY <1>2, <2>3, <3>2
  <2>. QED BY <2>1, <2>2, <2>3
<1>9. ASSUME NEW f \in at \cup bat, pos2[f] = 1 PROVE nx2[f] = end
  <2>1. CASE f \in at
    BY <1>1, <1>3, <1>9, <2>1
  <2>2. CASE f \in bat
    <3>1. n = 0 /\ pos[f] = 1
      BY <1>2, <1>9, <2>2
    <3>2. f = tl
      BY <1>2, <2>2, <3>1
    <3>. QED BY <1>1, <3>1, <3>2
  <2>. QED BY <2>1, <2>2
<1>. QED  BY <1>4, <1>5, <1>6, <1>7, <1>8, <1>9 DEF IsList, IsChain

\* Taking the head off a list.
LEMMA ListPop ==
    ASSUME NEW at, NEW pos, NEW nx, NEW hd, NEW n \in Nat, NEW end,
           IsList(at, pos, nx, hd, n, end), hd # end
    PROVE  /\ n > 0 /\ hd \in at
           /\ IsList(at \ {hd}, pos, nx, nx[hd], n - 1, end)
<1>1. /\ \A f \in at : pos[f] \in 1 .. n
      /\ \A k \in 1 .. n : \E f \in at : pos[f] = k
      /\ \A f, g \in at : pos[f] = pos[g] => f = g
      /\ n > 0 /\ hd \in at /\ pos[hd] = n
      /\ \A f \in at : pos[f] > 1 => nx[f] \in at /\ pos[nx[f]] = pos[f] - 1
      /\ \A f \in at : pos[f] = 1 => nx[f] = end
  BY DEF IsList, IsChain
<1>2. \A f \in at \ {hd} : pos[f] \in 1 .. n - 1
  BY <1>1
<1>3. \A k \in 1 .. n - 1 : \E f \in at \ {hd} : pos[f] = k
  BY <1>1
<1>4. \A f \in at : pos[f] > 1 => nx[f] # hd
  BY <1>1
<1>5. n - 1 # 0 => nx[hd] \in at \ {hd} /\ pos[nx[hd]] = n - 1
  BY <1>1, <1>4
<1>6. n - 1 = 0 => nx[hd] = end
  BY <1>1
<1>. QED  BY <1>1, <1>2, <1>3, <1>4, <1>5, <1>6 DEF IsList, IsChain

\* Putting one more element in front of a list.
IsPush(at, pos, nx, hd, n, g, pos2, nx2) ==
    /\ g \notin at /\ nx2[g] = hd /\ pos2[g] = n + 1
    /\ \A f \in at : nx2[f] = nx[f] /\ pos2[f] = pos[f]

LEMMA ListPush ==
    ASSUME NEW at, NEW pos, NEW nx, NEW hd, NEW n \in Nat, NEW end,
           IsList(at, pos, nx, hd, n, end),
           NEW g, NEW pos2, NEW nx2, IsPush(at, pos, nx, hd, n, g, pos2, nx2)
    PROVE  IsList(at \cup {g}, pos2, nx2, g, n + 1, end)
<1>. USE DEF IsPush
<1>1. /\ \A f \in at : pos[f] \in 1 .. n
      /\ \A k \in 1 .. n : \E f \in at : pos[f] = k
      /\ \A f, h \in at : pos[f] = pos[h] => f = h
      /\ n # 0 => hd \in at /\ pos[hd] = n
      /\ \A f \in at : pos[f] > 1 => nx[f] \in at /\ pos[nx[f]] = pos[f] - 1
      /\ n = 0 => hd = end
      /\ \A f \in at : pos[f] = 1 => nx[f] = end
  BY DEF IsList, IsChain
<1>2. \A f \in at \cup {g} : pos2[f] \in 1 .. n + 1
  BY <1>1
<1>3. \A k \in 1 .. n + 1 : \E f \in at \cup {g} : pos2[f] = k
  BY <1>1
<1>4. \A f, h \in at \cup {g} : pos2[f] = pos2[h] => f = h
  BY <1>1
<1>5. \A f \in at \cup {g} : pos2[f] > 1 => nx2[f] \in at \cup {g} /\ pos2[nx2[f]] = pos2[f] - 1
  BY <1>1
<1>6. \A f \in at \cup {g} : pos2[f] = 1 => nx2[f] = end
  BY <1>1
<1>. QED  BY <1>2, <1>3, <1>4, <1>5, <1>6 DEF IsList, IsChain

----------------------------------------------------------------------------
(* The free lists of Pmm. *)

\* A thread's shard is a shard.
LEMMA ShardInShards ==
    ASSUME NEW t \in Thread
    PROVE  Shard(t) \in Shards /\ Shard(t) # Global /\ Shard(t) \in Lists
BY ConstantsOK DEF Shard, Shards, Global, Lists

\* Lists and threads are different places.
LEMMA ListsApart == Global \in Lists /\ \A l \in Lists : l \notin Thread
BY ConstantsOK DEF Lists

----------------------------------------------------------------------------
(* The inductive invariant. *)

InRelease == {"read_pinned", "read_mappings", "set_pending", "set_free", "push"}
InDrain == {"release", "drain_owner", "drain_pinned", "drain_mappings"}

\* Who holds which lock, and that a release works on a frame with an owner.
LockInv ==
    /\ \A t \in Thread : pc[t] = "peel" => lock[Global] = t
    /\ \A t \in Thread : pc[t] \in InRelease =>
           lock[Shard(t)] = t /\ frame[t] \in Frame /\ seen[t] \notin {"Reserved", "Free"}
    /\ \A t \in Thread : pc[t] \in InDrain => frame[t] \in Frame

\* The loop of refill_shard: after i rounds the tail is the i-th listed frame.
Peeling(place, pos, t) ==
    pc[t] = "peel" =>
        /\ i[t] \in 1 .. batch[t] /\ batch[t] <= count[Global]
        /\ bhead[t] = head[Global]
        /\ tail[t] \in At(place, Global) /\ pos[tail[t]] = count[Global] - i[t] + 1
        /\ cur[t] = next[tail[t]]

Places(F) == [F -> Lists \cup Thread]
Positions(F) == [F -> Nat \ {0}]

ChainInv ==
    \E place \in Places(Free), pos \in Positions(Free) :
        Linked(place, pos) /\ \A t \in Thread : Peeling(place, pos, t)

\* The counts of a frame are the clients' pins and mappings of it.
Holding(refs, f) == {t \in Thread : f \in refs[t]}
RefInv ==
    \A f \in Frame : /\ pinned[f] = Cardinality(Holding(pins, f))
                     /\ mappings[f] = Cardinality(Holding(maps, f))

IInv == TypeOK /\ LockInv /\ RefInv /\ ChainInv

----------------------------------------------------------------------------
\* A step that changes the frames, head and count of no place outside C, and
\* the locals of no thread outside C ...
SameOff(C, place, pos, place2, pos2) ==
    /\ \A p \in (Lists \cup Thread) \ C : At(place2, p)' = At(place, p)
    /\ \A f \in Free : place[f] \notin C => pos2[f] = pos[f] /\ next'[f] = next[f]
    /\ \A l \in Lists \ C : head'[l] = head[l] /\ count'[l] = count[l]
    /\ \A t \in Thread \ C : /\ pc'[t] = pc[t] /\ frame'[t] = frame[t] /\ bhead'[t] = bhead[t]
                             /\ batch'[t] = batch[t] /\ tail'[t] = tail[t] /\ cur'[t] = cur[t]
                             /\ i'[t] = i[t]

LinkedOff(C, place, pos) ==
    /\ \A l \in Lists \ C : ListChain(place, pos, l)
    /\ \A t \in Thread \ C : InHand(place, pos, t)
    /\ Global \notin C => \A t \in Thread \ C : Peeling(place, pos, t)

\* ... keeps the places outside C as they are.
LEMMA ElsewhereKept ==
    ASSUME NEW place, NEW pos, Linked(place, pos), \A t \in Thread : Peeling(place, pos, t),
           NEW C, NEW place2, NEW pos2, SameOff(C, place, pos, place2, pos2)
    PROVE  LinkedOff(C, place2, pos2)'
<1>. USE DEF SameOff
<1>1. \A p \in (Lists \cup Thread) \ C : \A f \in At(place, p) : pos2[f] = pos[f] /\ next'[f] = next[f]
  BY DEF At
<1>2. ASSUME NEW l \in Lists \ C PROVE ListChain(place2, pos2, l)'
  <2>1. IsList(At(place, l), pos, next, head[l], count[l], LIST_END)
    BY DEF Linked, ListChain
  <2>2. IsList(At(place, l), pos2, next', head[l], count[l], LIST_END)
    BY <1>1, <2>1, ListKept
  <2>. QED BY <2>2 DEF ListChain
<1>3. ASSUME NEW t \in Thread \ C PROVE InHand(place2, pos2, t)'
  <2>1. InHand(place, pos, t) /\ At(place2, t)' = At(place, t)
    BY DEF Linked
  <2>2. CASE pc[t] = "splice"
    <3>1. IsChain(At(place, t), pos2, next', bhead[t], batch[t])
      BY <1>1, <2>1, <2>2, ChainKept DEF InHand
    <3>. QED BY <1>1, <2>1, <2>2, <3>1 DEF InHand
  <2>3. CASE pc[t] # "splice"
    BY <1>1, <2>1, <2>3 DEF InHand
  <2>. QED BY <2>2, <2>3
<1>4. ASSUME Global \notin C, NEW t \in Thread \ C PROVE Peeling(place2, pos2, t)'
  <2>1. /\ Peeling(place, pos, t) /\ At(place2, Global)' = At(place, Global)
        /\ head'[Global] = head[Global] /\ count'[Global] = count[Global]
    BY <1>4, ListsApart
  <2>2. \A f \in At(place, Global) : pos2[f] = pos[f] /\ next'[f] = next[f]
    BY <1>1, <1>4, ListsApart
  <2>. QED BY <2>1, <2>2 DEF Peeling
<1>. QED  BY <1>2, <1>3, <1>4 DEF LinkedOff

\* A step that leaves the free frames, their links, the lists and what the
\* threads have in hand alone keeps them linked.
LEMMA QuietStep ==
    ASSUME ChainInv, Free' = Free, next' = next, head' = head, count' = count,
           UNCHANGED <<batch, bhead, tail, cur, i>>,
           NEW C \in SUBSET Thread, \A t \in C : {pc[t], pc'[t]} \cap {"splice", "push", "peel"} = {},
           \A u \in Thread \ C : pc'[u] = pc[u] /\ frame'[u] = frame[u]
    PROVE  ChainInv'
<1>1. PICK place \in Places(Free), pos \in Positions(Free) :
         Linked(place, pos) /\ \A u \in Thread : Peeling(place, pos, u)
  BY DEF ChainInv
<1>2. LinkedOff(C, place, pos)'
  <2>1. SameOff(C, place, pos, place, pos)
    BY DEF At, SameOff
  <2>. QED BY <1>1, <2>1, ElsewhereKept
<1>3. \A t \in C : InHand(place, pos, t)' /\ Peeling(place, pos, t)'
  BY Zenon, <1>1 DEF Linked, InHand, At, Peeling
<1>4. Linked(place, pos)' /\ \A u \in Thread : Peeling(place, pos, u)'
  BY <1>2, <1>3, ListsApart DEF Linked, LinkedOff
<1>. QED  BY <1>1, <1>4 DEF ChainInv

\* pop_shard cuts one frame off its shard.
LEMMA PopChain ==
    ASSUME IInv, NEW t \in Thread, PopFrame(t), pc[t] \in {"idle", "pop_again"}
    PROVE  /\ ChainInv' /\ count[Shard(t)] > 0
           /\ head[Shard(t)] \in Frame /\ owner[head[Shard(t)]] = "Free"
<1>1. PICK place \in Places(Free), pos \in Positions(Free) :
         Linked(place, pos) /\ \A u \in Thread : Peeling(place, pos, u)
  BY DEF IInv, ChainInv
<1>2. PICK s, n, f : s = Shard(t) /\ n = count[s] /\ f = head[s]
  OBVIOUS
<1>3. s \in Lists /\ s # Global /\ s \notin Thread /\ n \in Nat
  BY <1>2, ShardInShards, ListsApart DEF IInv, TypeOK
<1>4. IsList(At(place, s), pos, next, f, n, LIST_END)
  BY <1>1, <1>2, <1>3 DEF Linked, ListChain
<1>5. n # 0 /\ f \in At(place, s) /\ pos[f] = n
  <2>1. f # LIST_END
    BY <1>2 DEF PopFrame
  <2>. QED BY <1>4, <2>1 DEF IsList, IsChain
<1>6. f \in Free /\ f \in Frame /\ owner[f] = "Free"
  BY <1>5 DEF At, Free
<1>7. /\ owner' = [owner EXCEPT ![f] = "Kernel"]
      /\ next' = [next EXCEPT ![f] = LIST_END]
      /\ head' = [head EXCEPT ![s] = next[f]]
      /\ count' = [count EXCEPT ![s] = @ - 1]
      /\ pc' = [pc EXCEPT ![t] = "idle"]
      /\ UNCHANGED <<frame, batch, bhead, tail, cur, i>>
  BY <1>2, <1>6 DEF PopFrame, Goto, refill
<1>8. Free' = Free \ {f} /\ \A g \in Free' : next'[g] = next[g]
  BY <1>6, <1>7 DEF Free, IInv, TypeOK
<1>9. PICK low : low = At(place, s) \ {f}
  BY Zenon
<1>10. IsList(low, pos, next, next[f], n - 1, LIST_END)
  BY Zenon, <1>2, <1>3, <1>4, <1>9, ListPop DEF PopFrame
<1>11. IsList(low, pos, next', next[f], n - 1, LIST_END)
  <2>1. \A g \in low : next'[g] = next[g] /\ pos[g] = pos[g]
    BY <1>8, <1>9 DEF At
  <2>. QED BY <1>10, <2>1, ListKept
<1>12. PICK place2, pos2 : place2 = [g \in Free' |-> place[g]] /\ pos2 = [g \in Free' |-> pos[g]]
  BY Zenon
<1>13. place2 \in Places(Free') /\ pos2 \in Positions(Free')
  BY <1>8, <1>12 DEF Places, Positions
<1>14. /\ At(place2, s)' = low
       /\ \A p \in (Lists \cup Thread) \ {s} : At(place2, p)' = At(place, p)
  BY <1>5, <1>8, <1>9, <1>12 DEF At
<1>15. /\ head'[s] = next[f] /\ count'[s] = n - 1
       /\ \A l \in Lists \ {s} : head'[l] = head[l] /\ count'[l] = count[l]
  BY <1>2, <1>3, <1>7 DEF IInv, TypeOK
<1>16. ListChain(place2, pos2, s)'
  <2>1. \A g \in low : pos2[g] = pos[g] /\ next'[g] = next'[g]
    BY <1>8, <1>9, <1>12 DEF At
  <2>2. IsList(low, pos2, next', next[f], n - 1, LIST_END)
    BY <1>11, <2>1, ListKept
  <2>. QED BY <1>14, <1>15, <2>2 DEF ListChain
<1>17. LinkedOff({s, t}, place2, pos2)'
  <2>1. \A g \in Free : place[g] \notin {s, t} => pos2[g] = pos[g] /\ next'[g] = next[g]
    BY <1>5, <1>8, <1>12 DEF At
  <2>2. \A u \in Thread \ {s, t} : pc'[u] = pc[u]
    BY <1>7 DEF IInv, TypeOK
  <2>3. SameOff({s, t}, place, pos, place2, pos2)
    BY <1>7, <1>14, <1>15, <2>1, <2>2 DEF SameOff
  <2>. QED BY <1>1, <2>3, ElsewhereKept
<1>18. InHand(place2, pos2, t)' /\ pc'[t] = "idle"
  BY Zenon, <1>1, <1>3, <1>7, <1>14 DEF Linked, InHand, IInv, TypeOK
<1>19. Linked(place2, pos2)' /\ \A u \in Thread : Peeling(place2, pos2, u)'
  BY <1>3, <1>16, <1>17, <1>18, ListsApart DEF Linked, Peeling, LinkedOff
<1>. QED  BY <1>2, <1>3, <1>5, <1>6, <1>13, <1>19 DEF ChainInv

\* RefillBegin and RefillWalk move no frame; the loop's position is right.
LEMMA BeginChain ==
    ASSUME IInv, NEW t \in Thread, RefillBegin(t)
    PROVE  ChainInv' /\ (count[Global] # 0 => head[Global] \in Frame)
<1>1. PICK place \in Places(Free), pos \in Positions(Free) :
         Linked(place, pos) /\ \A u \in Thread : Peeling(place, pos, u)
  BY DEF IInv, ChainInv
<1>2. PICK c, n, h : /\ c = count[Global] /\ h = head[Global]
                     /\ n = MinOf(c, SHARD_REFILL_BATCH)
  OBVIOUS
<1>3. Global \in Lists /\ Global \notin Thread /\ c \in Nat /\ SHARD_REFILL_BATCH \in Nat \ {0}
  BY <1>2, ListsApart, ConstantsOK DEF IInv, TypeOK
<1>4. c # 0 => h \in At(place, Global) /\ pos[h] = c
  BY <1>1, <1>2, <1>3 DEF Linked, ListChain, IsList, IsChain
<1>5. n \in Nat /\ n <= c /\ (n = 0 <=> c = 0)
  BY <1>2, <1>3 DEF MinOf
<1>6. Free' = Free /\ UNCHANGED <<next, head, count, frame>> /\ pc[t] = "refill"
  BY DEF RefillBegin, Free, table, freelists
<1>7. ChainInv'
  <2>1. CASE n = 0
    <3>1. pc' = [pc EXCEPT ![t] = "pop_again"] /\ UNCHANGED <<batch, bhead, tail, cur, i>>
      BY <1>2, <2>1 DEF RefillBegin, Goto, refill
    <3>2. pc'[t] = "pop_again" /\ \A u \in Thread \ {t} : pc'[u] = pc[u]
      BY <3>1 DEF IInv, TypeOK
    <3>3. /\ {t} \in SUBSET Thread /\ \A u \in {t} : {pc[u], pc'[u]} \cap {"splice", "push", "peel"} = {}
          /\ \A u \in Thread \ {t} : pc'[u] = pc[u] /\ frame'[u] = frame[u]
      BY <1>6, <3>2
    <3>. QED BY <1>6, <3>1, <3>3, QuietStep DEF IInv
  <2>2. CASE n # 0
    <3>1. /\ pc' = [pc EXCEPT ![t] = "peel"] /\ batch' = [batch EXCEPT ![t] = n]
          /\ bhead' = [bhead EXCEPT ![t] = h] /\ tail' = [tail EXCEPT ![t] = h]
          /\ cur' = [cur EXCEPT ![t] = next[h]] /\ i' = [i EXCEPT ![t] = 1]
      BY <1>2, <2>2 DEF RefillBegin, Goto
    <3>2. /\ pc'[t] = "peel" /\ batch'[t] = n /\ bhead'[t] = h /\ tail'[t] = h
          /\ cur'[t] = next[h] /\ i'[t] = 1
      BY <3>1 DEF IInv, TypeOK
    <3>3. SameOff({t}, place, pos, place, pos)
      BY <1>6, <3>1 DEF SameOff, At, IInv, TypeOK
    <3>4. LinkedOff({t}, place, pos)'
      BY <1>1, <3>3, ElsewhereKept
    <3>5. InHand(place, pos, t)'
      BY ZenonT(40), <1>1, <1>6, <3>2 DEF Linked, InHand, At
    <3>6. Peeling(place, pos, t)'
      <4>1. 1 \in 1 .. n /\ n <= c /\ c - 1 + 1 = c /\ c # 0
        BY ONLY <1>3, <1>5, <2>2
      <4>2. count'[Global] = c /\ head'[Global] = h /\ next' = next /\ At(place, Global)' = At(place, Global)
        BY <1>2, <1>6 DEF At
      <4>. QED BY ONLY <1>4, <3>2, <4>1, <4>2 DEF Peeling
    <3>7. Linked(place, pos)' /\ \A u \in Thread : Peeling(place, pos, u)'
      BY <3>4, <3>5, <3>6, ListsApart DEF Linked, LinkedOff
    <3>. QED BY <1>1, <1>6, <3>7 DEF ChainInv
  <2>. QED BY <2>1, <2>2
<1>. QED  BY <1>2, <1>4, <1>7 DEF At, Free

LEMMA WalkChain ==
    ASSUME IInv, NEW t \in Thread, RefillWalk(t)
    PROVE  ChainInv' /\ cur[t] \in Frame
<1>1. PICK place \in Places(Free), pos \in Positions(Free) :
         Linked(place, pos) /\ \A u \in Thread : Peeling(place, pos, u)
  BY DEF IInv, ChainInv
<1>2. PICK c, n, k, x, g : /\ c = count[Global] /\ n = batch[t] /\ k = i[t]
                           /\ x = tail[t] /\ g = cur[t]
  OBVIOUS
<1>3. /\ k \in 1 .. n /\ n <= c /\ k < n /\ c \in Nat /\ n \in Nat /\ bhead[t] = head[Global]
      /\ x \in At(place, Global) /\ pos[x] = c - k + 1 /\ g = next[x]
  BY <1>1, <1>2, ListsApart DEF Peeling, RefillWalk, IInv, TypeOK
<1>4. g \in At(place, Global) /\ pos[g] = c - (k + 1) + 1
  <2>1. IsChain(At(place, Global), pos, next, head[Global], c)
    BY Zenon, <1>1, <1>2, ListsApart DEF Linked, ListChain, IsList
  <2>. QED BY ONLY <1>3, <2>1 DEF IsChain
<1>5. /\ Free' = Free /\ UNCHANGED <<next, head, count, frame, pc, batch, bhead>> /\ pc[t] = "peel"
      /\ tail' = [tail EXCEPT ![t] = g] /\ cur' = [cur EXCEPT ![t] = next[g]]
      /\ i' = [i EXCEPT ![t] = k + 1]
  BY <1>2 DEF RefillWalk, Free, table, freelists
<1>6. tail'[t] = g /\ cur'[t] = next[g] /\ i'[t] = k + 1
  BY <1>5 DEF IInv, TypeOK
<1>7. SameOff({t}, place, pos, place, pos)
  BY <1>5 DEF SameOff, At, IInv, TypeOK
<1>8. LinkedOff({t}, place, pos)'
  BY <1>1, <1>7, ElsewhereKept
<1>9. InHand(place, pos, t)'
  BY Zenon, <1>1, <1>5 DEF Linked, InHand, At
<1>10. Peeling(place, pos, t)'
  BY <1>2, <1>3, <1>4, <1>5, <1>6 DEF Peeling, At
<1>11. Linked(place, pos)' /\ \A u \in Thread : Peeling(place, pos, u)'
  BY <1>8, <1>9, <1>10, ListsApart DEF Linked, LinkedOff
<1>. QED  BY Zenon, <1>1, <1>2, <1>4, <1>5, <1>11 DEF ChainInv, At, Free

\* RefillCut takes the walked chain off the global list.
LEMMA CutChain ==
    ASSUME IInv, NEW t \in Thread, RefillCut(t)
    PROVE  ChainInv' /\ cur[t] \in 0 .. LIST_END /\ count[Global] - batch[t] \in Nat
<1>1. PICK place \in Places(Free), pos \in Positions(Free) :
         Linked(place, pos) /\ \A u \in Thread : Peeling(place, pos, u)
  BY DEF IInv, ChainInv
<1>2. PICK c, b, x : c = count[Global] /\ b = batch[t] /\ x = tail[t]
  OBVIOUS
<1>3. /\ b \in 1 .. c /\ c \in Nat /\ bhead[t] = head[Global]
      /\ x \in At(place, Global) /\ pos[x] = c - b + 1 /\ cur[t] = next[x]
  BY <1>1, <1>2, ListsApart DEF Peeling, RefillCut, IInv, TypeOK
<1>4. IsList(At(place, Global), pos, next, bhead[t], c, LIST_END)
  BY Zenon, <1>1, <1>2, <1>3, ListsApart DEF Linked, ListChain
<1>5. PICK up, low : /\ up = {f \in At(place, Global) : pos[f] > c - b}
                     /\ low = {f \in At(place, Global) : pos[f] <= c - b}
  BY Zenon
<1>6. PICK place2, pos2 :
        /\ place2 = [f \in Free |-> IF f \in up THEN t ELSE place[f]]
        /\ pos2 = [f \in Free |-> IF f \in up THEN pos[f] - (c - b) ELSE pos[f]]
  BY ZenonT(40)
<1>7. /\ IsChain(up, pos2, next, bhead[t], b)
      /\ IsList(low, pos2, next, next[x], c - b, LIST_END)
      /\ x \in up /\ pos2[x] = 1
  <2>1. \A f \in At(place, Global) : pos[f] \in 1 .. c /\ f \in Free
    BY <1>4 DEF IsList, IsChain, At
  <2>2. \A f \in up : pos2[f] = pos[f] - (c - b)
    BY <1>5, <1>6, <2>1
  <2>3. \A f \in low : pos2[f] = pos[f]
    BY <1>3, <1>5, <1>6, <2>1
  <2>4. IsCut(At(place, Global), pos, c, b, x, up, low, pos2)
    BY <1>3, <1>5, <2>2, <2>3 DEF IsCut
  <2>. QED BY ONLY <1>3, <1>4, <2>4, ListCut
<1>8. /\ Free' = Free /\ UNCHANGED <<next, frame, batch, bhead, tail, cur, i>> /\ pc[t] = "peel"
      /\ head' = [head EXCEPT ![Global] = cur[t]]
      /\ count' = [count EXCEPT ![Global] = c - b]
      /\ pc' = [pc EXCEPT ![t] = "splice"]
  BY Zenon, <1>2 DEF RefillCut, Free, table, refill, Goto
<1>9. /\ pc'[t] = "splice" /\ head'[Global] = cur[t] /\ count'[Global] = c - b
      /\ \A l \in Lists \ {Global} : head'[l] = head[l] /\ count'[l] = count[l]
  BY <1>8, ListsApart DEF IInv, TypeOK
<1>10. place2 \in Places(Free) /\ pos2 \in Positions(Free)
  <2>0. pos \in Positions(Free)
    BY Zenon
  <2>1. \A f \in Free : pos[f] \in Nat \ {0} /\ (f \in up => pos[f] - (c - b) \in Nat \ {0})
    BY ONLY <1>3, <1>5, <2>0 DEF Positions
  <2>. QED BY <1>1, <1>6, <2>1 DEF Places, Positions
<1>11. At(place, t) = {}
  BY <1>1, <1>8 DEF Linked, InHand
<1>12. /\ At(place2, t)' = up /\ At(place2, Global)' = low
       /\ \A p \in (Lists \cup Thread) \ {Global, t} : At(place2, p)' = At(place, p)
  <2>1. up \in SUBSET At(place, Global) /\ low = At(place, Global) \ up
    <3>1. \A f \in At(place, Global) : pos[f] \in Nat
      BY <1>1 DEF At, Positions
    <3>. QED BY <1>3, <1>5, <3>1
  <2>. QED BY <1>6, <1>8, <1>11, <2>1, ListsApart DEF At
<1>13. SameOff({Global, t}, place, pos, place2, pos2)
  <2>1. \A f \in Free : place[f] \notin {Global, t} => pos2[f] = pos[f] /\ next'[f] = next[f]
    BY <1>5, <1>6, <1>8 DEF At
  <2>2. \A u \in Thread \ {Global, t} : pc'[u] = pc[u]
    BY <1>8 DEF IInv, TypeOK
  <2>. QED BY <1>8, <1>9, <1>12, <2>1, <2>2 DEF SameOff
<1>14. LinkedOff({Global, t}, place2, pos2)'
  BY <1>1, <1>13, ElsewhereKept
<1>15. ListChain(place2, pos2, Global)'
  <2>1. head'[Global] = next[x] /\ count'[Global] = c - b
    BY <1>3, <1>9
  <2>2. IsList(At(place2, Global)', pos2, next', head'[Global], count'[Global], LIST_END)
    BY <1>7, <1>8, <1>12, <2>1
  <2>. QED BY <2>2 DEF ListChain
<1>16. InHand(place2, pos2, t)'
  BY Zenon, <1>2, <1>7, <1>8, <1>9, <1>12 DEF InHand
<1>17. Linked(place2, pos2)'
  BY <1>14, <1>15, <1>16, ListsApart DEF Linked, LinkedOff
<1>18. \A u \in Thread : Peeling(place2, pos2, u)'
  \* only the holder of the global lock is in the loop
  <2>1. \A u \in Thread : pc'[u] # "peel"
    BY <1>8 DEF IInv, TypeOK, LockInv
  <2>. QED BY Zenon, <2>1 DEF Peeling
<1>19. cur[t] \in 0 .. LIST_END /\ c - b \in Nat
  BY <1>3 DEF IInv, TypeOK
<1>. QED  BY <1>2, <1>8, <1>10, <1>17, <1>18, <1>19 DEF ChainInv

\* RefillSplice joins the chain in hand to the shard.
LEMMA SpliceChain ==
    ASSUME IInv, NEW t \in Thread, RefillSplice(t)
    PROVE  ChainInv' /\ tail[t] \in Frame
<1>1. PICK place \in Places(Free), pos \in Positions(Free) :
         Linked(place, pos) /\ \A u \in Thread : Peeling(place, pos, u)
  BY DEF IInv, ChainInv
<1>2. PICK s, n, b, x, h, up : /\ s = Shard(t) /\ n = count[s] /\ b = batch[t] /\ x = tail[t]
                               /\ h = bhead[t] /\ up = At(place, t)
  OBVIOUS
<1>3. s \in Lists /\ s # Global /\ s \notin Thread /\ n \in Nat
  BY <1>2, ShardInShards, ListsApart DEF IInv, TypeOK
<1>4. IsList(At(place, s), pos, next, head[s], n, LIST_END)
  BY ZenonT(40), <1>1, <1>2, <1>3 DEF Linked, ListChain
<1>5. /\ IsChain(up, pos, next, h, b) /\ x \in up /\ pos[x] = 1 /\ b \in Nat \ {0}
      /\ x \in Free /\ x \in Frame
  <2>1. InHand(place, pos, t) /\ pc[t] = "splice" /\ b \in Nat
    BY <1>1, <1>2 DEF Linked, RefillSplice, IInv, TypeOK
  <2>2. IsChain(up, pos, next, h, b) /\ x \in up /\ pos[x] = 1
    BY ZenonT(40), <1>2, <2>1 DEF InHand
  <2>3. x \in Free /\ x \in Frame
    BY Zenon, <1>2, <2>2 DEF At, Free
  <2>. QED BY ONLY <2>1, <2>2, <2>3 DEF IsChain
<1>6. /\ Free' = Free /\ UNCHANGED frame
      /\ next' = [next EXCEPT ![x] = head[s]]
      /\ head' = [head EXCEPT ![s] = h]
      /\ count' = [count EXCEPT ![s] = n + b]
      /\ pc' = [pc EXCEPT ![t] = "pop_again"] /\ batch' = [batch EXCEPT ![t] = 0]
      /\ bhead' = [bhead EXCEPT ![t] = LIST_END] /\ tail' = [tail EXCEPT ![t] = LIST_END]
      /\ cur' = [cur EXCEPT ![t] = LIST_END] /\ i' = [i EXCEPT ![t] = 0]
  BY <1>2 DEF RefillSplice, Free, table, Goto
<1>7. /\ pc'[t] = "pop_again" /\ head'[s] = h /\ count'[s] = n + b
      /\ \A l \in Lists \ {s} : head'[l] = head[l] /\ count'[l] = count[l]
      /\ next'[x] = head[s] /\ \A f \in Frame \ {x} : next'[f] = next[f]
  BY <1>3, <1>5, <1>6 DEF IInv, TypeOK
<1>8. PICK place2, pos2 :
        /\ place2 = [f \in Free |-> IF f \in up THEN s ELSE place[f]]
        /\ pos2 = [f \in Free |-> IF f \in up THEN pos[f] + n ELSE pos[f]]
  BY ZenonT(40)
<1>9. place2 \in Places(Free) /\ pos2 \in Positions(Free)
  <2>1. \A f \in Free : pos[f] \in Nat \ {0} /\ pos[f] + n \in Nat \ {0}
    BY <1>1, <1>3 DEF Positions
  <2>. QED BY <1>1, <1>3, <1>8, <2>1 DEF Places, Positions
<1>10. /\ At(place2, s)' = At(place, s) \cup up /\ At(place2, t)' = {}
       /\ \A p \in (Lists \cup Thread) \ {s, t} : At(place2, p)' = At(place, p)
  BY <1>2, <1>3, <1>6, <1>8 DEF At
<1>11. ListChain(place2, pos2, s)'
  <2>1. At(place, s) \cap up = {} /\ \A f \in At(place, s) \cup up : f \in Free /\ f \in Frame
    BY <1>2, <1>3 DEF At, Free
  <2>2. \A f \in (At(place, s) \cup up) \ {x} : next'[f] = next[f]
    BY <1>7, <2>1
  <2>3. (\A f \in up : pos2[f] = pos[f] + n) /\ (\A f \in At(place, s) : pos2[f] = pos[f])
    BY <1>8, <2>1
  <2>4. IsJoin(At(place, s), up, pos, next, head[s], n, x, pos2, next')
    BY Zenon, <1>5, <1>7, <2>1, <2>2, <2>3 DEF IsJoin
  <2>5. IsList(At(place, s) \cup up, pos2, next', h, n + b, LIST_END)
    BY <1>3, <1>4, <1>5, <2>4, ListJoin
  <2>. QED BY <1>7, <1>10, <2>5 DEF ListChain
<1>12. SameOff({s, t}, place, pos, place2, pos2)
  <2>1. \A f \in Free : place[f] \notin {s, t} => pos2[f] = pos[f] /\ next'[f] = next[f]
    BY ZenonT(40), <1>2, <1>5, <1>7, <1>8 DEF At, Free
  <2>2. \A u \in Thread \ {s, t} : /\ pc'[u] = pc[u] /\ bhead'[u] = bhead[u] /\ batch'[u] = batch[u]
                                   /\ tail'[u] = tail[u] /\ cur'[u] = cur[u] /\ i'[u] = i[u]
    BY <1>6 DEF IInv, TypeOK
  <2>. QED BY ZenonT(40), <1>6, <1>7, <1>10, <2>1, <2>2 DEF SameOff
<1>13. LinkedOff({s, t}, place2, pos2)'
  BY <1>1, <1>12, ElsewhereKept
<1>14. InHand(place2, pos2, t)'
  BY ZenonT(40), <1>7, <1>10 DEF InHand
<1>15. Linked(place2, pos2)' /\ \A u \in Thread : Peeling(place2, pos2, u)'
  BY ZenonT(40), <1>3, <1>7, <1>11, <1>13, <1>14, ListsApart DEF Linked, LinkedOff, Peeling
<1>. QED  BY <1>2, <1>5, <1>6, <1>9, <1>15 DEF ChainInv

\* ReleaseSetFree adds a Free frame, in the hand of the releasing thread.
LEMMA SetFreeChain ==
    ASSUME IInv, NEW t \in Thread, ReleaseSetFree(t), owner[frame[t]] = seen[t]
    PROVE  ChainInv'
<1>1. PICK place \in Places(Free), pos \in Positions(Free) :
         Linked(place, pos) /\ \A u \in Thread : Peeling(place, pos, u)
  BY DEF IInv, ChainInv
<1>2. PICK f : f = frame[t]
  OBVIOUS
<1>3. f \in Frame /\ owner[f] # "Free" /\ pc[t] = "set_free"
  BY <1>2 DEF IInv, LockInv, InRelease, ReleaseSetFree
<1>4. /\ owner' = [owner EXCEPT ![f] = "Free"] /\ pc' = [pc EXCEPT ![t] = "push"]
      /\ UNCHANGED <<next, head, count, frame, batch, bhead, tail, cur, i>>
  BY <1>2 DEF ReleaseSetFree, Goto, freelists, refill
<1>5. Free' = Free \cup {f} /\ f \notin Free /\ pc'[t] = "push"
  BY <1>3, <1>4 DEF Free, IInv, TypeOK
<1>6. PICK place2, pos2 : /\ place2 = [g \in Free' |-> IF g = f THEN t ELSE place[g]]
                          /\ pos2 = [g \in Free' |-> IF g = f THEN 1 ELSE pos[g]]
  BY ZenonT(40)
<1>7. place2 \in Places(Free') /\ pos2 \in Positions(Free')
  BY <1>1, <1>5, <1>6 DEF Places, Positions
<1>8. At(place, t) = {}
  BY <1>1, <1>3 DEF Linked, InHand
<1>9. /\ At(place2, t)' = {f}
      /\ \A p \in (Lists \cup Thread) \ {t} : At(place2, p)' = At(place, p)
  BY ZenonT(40), <1>5, <1>6, <1>8 DEF At
<1>10. SameOff({t}, place, pos, place2, pos2)
  <2>1. \A g \in Free : place[g] \notin {t} => pos2[g] = pos[g] /\ next'[g] = next[g]
    BY <1>4, <1>5, <1>6
  <2>2. \A u \in Thread \ {t} : pc'[u] = pc[u]
    BY <1>4 DEF IInv, TypeOK
  <2>. QED BY <1>4, <1>9, <2>1, <2>2 DEF SameOff
<1>11. LinkedOff({t}, place2, pos2)'
  BY <1>1, <1>10, ElsewhereKept
<1>12. InHand(place2, pos2, t)'
  <2>1. pos2[f] = 1 /\ frame'[t] = f
    BY <1>2, <1>4, <1>5, <1>6
  <2>. QED BY <1>5, <1>9, <2>1 DEF InHand
<1>13. Linked(place2, pos2)' /\ \A u \in Thread : Peeling(place2, pos2, u)'
  BY <1>5, <1>11, <1>12, ListsApart DEF Linked, LinkedOff, Peeling
<1>. QED  BY Zenon, <1>7, <1>13 DEF ChainInv

\* ReleasePush moves that frame to the front of the shard.
LEMMA PushChain ==
    ASSUME IInv, NEW t \in Thread, ReleasePush(t)
    PROVE  ChainInv' /\ frame[t] \in Free
<1>1. PICK place \in Places(Free), pos \in Positions(Free) :
         Linked(place, pos) /\ \A u \in Thread : Peeling(place, pos, u)
  BY DEF IInv, ChainInv
<1>2. PICK s, n, f : s = Shard(t) /\ n = count[s] /\ f = frame[t]
  OBVIOUS
<1>3. s \in Lists /\ s # Global /\ s \notin Thread /\ n \in Nat
  BY <1>2, ShardInShards, ListsApart DEF IInv, TypeOK
<1>4. IsList(At(place, s), pos, next, head[s], n, LIST_END)
  BY <1>1, <1>2, <1>3 DEF Linked, ListChain
<1>5. At(place, t) = {f} /\ f \in Free /\ f \in Frame /\ f \notin At(place, s)
  <2>1. At(place, t) = {f}
    BY ZenonT(40), <1>1, <1>2 DEF Linked, InHand, ReleasePush
  <2>. QED BY <1>3, <2>1 DEF At, Free
<1>6. /\ Free' = Free /\ next' = [next EXCEPT ![f] = head[s]]
      /\ head' = [head EXCEPT ![s] = f]
      /\ count' = [count EXCEPT ![s] = n + 1]
      /\ pc' = [pc EXCEPT ![t] = "idle"] /\ frame' = [frame EXCEPT ![t] = NONE]
      /\ UNCHANGED <<batch, bhead, tail, cur, i>>
  BY ZenonT(40), <1>2 DEF ReleasePush, Return, Goto, refill, Free
<1>7. /\ pc'[t] = "idle" /\ head'[s] = f /\ count'[s] = n + 1
      /\ \A l \in Lists \ {s} : head'[l] = head[l] /\ count'[l] = count[l]
      /\ next'[f] = head[s] /\ \A g \in Frame \ {f} : next'[g] = next[g]
  BY <1>3, <1>5, <1>6 DEF IInv, TypeOK
<1>8. PICK place2, pos2 : /\ place2 = [g \in Free |-> IF g = f THEN s ELSE place[g]]
                          /\ pos2 = [g \in Free |-> IF g = f THEN n + 1 ELSE pos[g]]
  BY Zenon
<1>9. place2 \in Places(Free) /\ pos2 \in Positions(Free)
  BY <1>1, <1>3, <1>8 DEF Places, Positions
<1>10. /\ At(place2, s)' = At(place, s) \cup {f} /\ At(place2, t)' = {}
       /\ \A p \in (Lists \cup Thread) \ {s, t} : At(place2, p)' = At(place, p)
  BY <1>3, <1>5, <1>6, <1>8 DEF At
<1>11. ListChain(place2, pos2, s)'
  <2>1. \A g \in At(place, s) : g \in Free /\ g \in Frame /\ g # f
    BY <1>5 DEF At, Free
  <2>2. /\ \A g \in At(place, s) : next'[g] = next[g]
        /\ pos2[f] = n + 1 /\ \A g \in At(place, s) : pos2[g] = pos[g]
    BY <1>5, <1>7, <1>8, <2>1
  <2>3. IsList(At(place, s) \cup {f}, pos2, next', f, n + 1, LIST_END)
    <3>1. IsPush(At(place, s), pos, next, head[s], n, f, pos2, next')
      BY <1>5, <1>7, <2>2 DEF IsPush
    <3>. QED BY <1>3, <1>4, <3>1, ListPush
  <2>4. head'[s] = f /\ count'[s] = n + 1
    BY <1>7
  <2>5. IsList(At(place2, s)', pos2, next', head'[s], count'[s], LIST_END)
    BY <1>10, <2>3, <2>4
  <2>. QED BY Zenon, <2>5 DEF ListChain
<1>12. SameOff({s, t}, place, pos, place2, pos2)
  <2>1. \A g \in Free : place[g] \notin {s, t} => pos2[g] = pos[g] /\ next'[g] = next[g]
    BY <1>5, <1>7, <1>8 DEF At, Free
  <2>2. \A u \in Thread \ {s, t} : pc'[u] = pc[u] /\ frame'[u] = frame[u]
    BY <1>6 DEF IInv, TypeOK
  <2>. QED BY ZenonT(40), <1>6, <1>7, <1>10, <2>1, <2>2 DEF SameOff
<1>13. LinkedOff({s, t}, place2, pos2)'
  BY <1>1, <1>12, ElsewhereKept
<1>14. InHand(place2, pos2, t)'
  BY <1>7, <1>10 DEF InHand
<1>15. Linked(place2, pos2)' /\ \A u \in Thread : Peeling(place2, pos2, u)'
  BY <1>3, <1>7, <1>11, <1>13, <1>14, ListsApart DEF Linked, LinkedOff, Peeling
<1>. QED  BY <1>2, <1>5, <1>6, <1>9, <1>15 DEF ChainInv
=============================================================================
