--------------------------- MODULE ComponentProofs ---------------------------
(***************************************************************************)
(* Theorems about two components that stand alone.  Untyped, for every     *)
(* number of threads, regions, frames and capabilities: no frame leaves    *)
(* its region, and None is true.  Keyboard, for every ring size and set of *)
(* keys: the handler stays in step with the device, and its ring is a      *)
(* bounded queue.                                                          *)
(***************************************************************************)
EXTENDS Untyped, Keyboard, TLAPS

----------------------------------------------------------------------------
(* Sequences *)

LEMMA SeqMember ==
    ASSUME NEW S, NEW s \in Seq(S)
    PROVE  Len(s) \in Nat /\ DOMAIN s = 1 .. Len(s) /\ \A n \in 1 .. Len(s) : s[n] \in S
OBVIOUS

LEMMA SeqReplace ==
    ASSUME NEW S, NEW s \in Seq(S), NEW n \in 1 .. Len(s), NEW e \in S
    PROVE  /\ [s EXCEPT ![n] = e] \in Seq(S) /\ Len([s EXCEPT ![n] = e]) = Len(s)
           /\ \A j \in 1 .. Len(s) : [s EXCEPT ![n] = e][j] = IF j = n THEN e ELSE s[j]
OBVIOUS

LEMMA SeqConcat ==
    ASSUME NEW S, NEW s \in Seq(S), NEW r \in Seq(S)
    PROVE  /\ s \o r \in Seq(S) /\ Len(s \o r) = Len(s) + Len(r)
           /\ \A n \in 1 .. Len(s) + Len(r) : (s \o r)[n] = IF n <= Len(s) THEN s[n] ELSE r[n - Len(s)]
OBVIOUS

LEMMA SeqFront ==
    ASSUME NEW S, NEW s \in Seq(S), NEW n \in Int, n = Len(s) - 1
    PROVE  SubSeq(s, 1, n) \in Seq(S) /\ (n >= 0 => Len(SubSeq(s, 1, n)) = n)
<1>1. \A j \in 1 .. n : s[j] \in S
  OBVIOUS
<1>2. Len(SubSeq(s, 1, n)) = IF 1 <= n THEN n ELSE 0
  OBVIOUS
<1>3. SubSeq(s, 1, n) \in Seq(S)
  BY ONLY <1>1, n \in Int
<1>. QED  BY ONLY <1>2, <1>3, n \in Int

----------------------------------------------------------------------------
(* Untyped: the capabilities and the searches under way *)

CapType == [id : Ids, base : Nat, num : Nat, cursor : Nat]

\* A capability covers part of its region, its base included also when a split
\* left it no frame, and its cursor is in the range or just past it.
InRegion(k) ==
    /\ k.base \in Span(Regions[k.id])
    /\ k.base + k.num <= Regions[k.id].base + Regions[k.id].num
    /\ k.cursor \in k.base .. k.base + k.num

CapsInv ==
    /\ caps \in Seq(CapType) /\ Len(caps) <= MAX_CAPS
    /\ \A c \in 1 .. Len(caps) : InRegion(caps[c])

\* The frames a search has been at: the `tried' ones before `idx', going round.
Visited(k, at, n, f) ==
    \/ f < at /\ at - f <= n
    \/ f >= at /\ at + k.num - f <= n

\* Thread t inside retype_frame on capability k: where it is and what it knows.
Searching(k, at, n, label) ==
    /\ at \in k.base .. k.base + k.num
    /\ n \in 0 .. k.num
    /\ label \in {"cas", "store"} => at \in Span(k) /\ n < k.num
    /\ label \in {"look", "cas"} =>
         \A f \in Span(k) : Visited(k, at, n, f) => owner[f] # k.id

LocalsOK(t) ==
    IF pc[t] = "idle" THEN cap[t] = 0 /\ idx[t] = 0 /\ tried[t] = 0
    ELSE cap[t] \in 1 .. Len(caps) /\ Searching(caps[cap[t]], idx[t], tried[t], pc[t])

LocalsInv ==
    /\ pc \in [Thread -> {"idle", "look", "cas", "store"}]
    /\ cap \in [Thread -> Nat] /\ idx \in [Thread -> Nat] /\ tried \in [Thread -> Nat]
    /\ \A t \in Thread : LocalsOK(t)

FramesInv ==
    /\ owner \in [Frame -> Ids \cup {0}]
    /\ got \in [Thread -> SUBSET Frame]
    /\ RetypedOnce

UInv == CapsInv /\ FramesInv /\ LocalsInv

----------------------------------------------------------------------------
LEMMA RegionFacts ==
    /\ Ids = 1 .. Len(Regions) /\ Len(Regions) \in Nat /\ 0 \notin Ids
    /\ \A r \in Ids : /\ Regions[r].base \in Nat /\ Regions[r].num \in Nat \ {0}
                      /\ Regions[r].base + Regions[r].num <= NumFrames
<1>1. Ids = 1 .. Len(Regions) /\ Len(Regions) \in Nat
  BY UntypedConstants, SeqMember DEF Ids
<1>2. ASSUME NEW r \in Ids
      PROVE  /\ Regions[r].base \in Nat /\ Regions[r].num \in Nat \ {0}
             /\ Regions[r].base + Regions[r].num <= NumFrames
  <2>1. Regions \in Seq([base : Nat, num : Nat \ {0}]) /\ r \in 1 .. Len(Regions)
    BY <1>1, UntypedConstants
  <2>2. Regions[r] \in [base : Nat, num : Nat \ {0}]
    BY Zenon, <2>1, SeqMember
  <2>3. Regions[r].base \in Nat /\ Regions[r].num \in Nat \ {0}
    BY <2>2
  <2>4. Span(Regions[r]) \subseteq Frame
    BY UntypedConstants
  <2>5. Regions[r].base + Regions[r].num - 1 \in Span(Regions[r])
    BY <2>3 DEF Span
  <2>6. Regions[r].base + Regions[r].num - 1 \in 0 .. NumFrames - 1 /\ NumFrames \in Nat
    BY <2>4, <2>5, UntypedConstants DEF Frame
  <2>. QED BY <2>3, <2>6
<1>. QED BY <1>1, <1>2

\* A capability's frames exist and are those of its region.
LEMMA CapFacts ==
    ASSUME CapsInv, NEW c \in 1 .. Len(caps)
    PROVE  /\ caps[c] \in CapType /\ caps[c].id \in Ids /\ caps[c].id # 0
           /\ caps[c].base \in Nat /\ caps[c].num \in Nat /\ caps[c].cursor \in Nat
           /\ caps[c].base \in Frame /\ caps[c].base + caps[c].num <= NumFrames
           /\ Span(caps[c]) \subseteq Span(Regions[caps[c].id])
           /\ Span(caps[c]) \subseteq Frame
<1>1. caps[c] \in CapType /\ InRegion(caps[c])
  BY SeqMember DEF CapsInv
<1>2. /\ caps[c].id \in Ids /\ caps[c].base \in Nat /\ caps[c].num \in Nat
      /\ caps[c].cursor \in Nat
  BY <1>1 DEF CapType
<1>3. LET r == Regions[caps[c].id]
      IN  r.base \in Nat /\ r.num \in Nat \ {0} /\ r.base + r.num <= NumFrames
  BY <1>2, RegionFacts
<1>4. caps[c].id # 0 /\ NumFrames \in Nat
  BY <1>2, RegionFacts, UntypedConstants
<1>5. /\ caps[c].base \in Frame /\ caps[c].base + caps[c].num <= NumFrames
      /\ Span(caps[c]) \subseteq Span(Regions[caps[c].id])
      /\ Span(caps[c]) \subseteq Frame
  <2>1. PICK a \in Nat, n \in Nat, b \in Nat, m \in Nat :
             /\ a = caps[c].base /\ n = caps[c].num
             /\ b = Regions[caps[c].id].base /\ m = Regions[caps[c].id].num
    BY SMTT(30), <1>2, <1>3
  <2>2. /\ a \in b .. b + m - 1 /\ a + n <= b + m /\ b + m <= NumFrames
    BY <1>1, <1>3, <2>1 DEF InRegion, Span
  <2>3. a \in 0 .. NumFrames - 1 /\ a + n <= NumFrames
    BY <1>4, <2>2
  <2>4. a .. a + n - 1 \subseteq b .. b + m - 1 /\ a .. a + n - 1 \subseteq 0 .. NumFrames - 1
    BY <1>4, <2>2
  <2>. QED BY <2>1, <2>3, <2>4 DEF Span, Frame
<1>. QED BY <1>1, <1>2, <1>4, <1>5

\* A step of others cannot spoil a search: capabilities keep their ranges and a
\* frame never becomes raw again.
LEMMA SearchKept ==
    ASSUME UInv, NEW t \in Thread, pc[t] # "idle",
           pc'[t] = pc[t], cap'[t] = cap[t], idx'[t] = idx[t], tried'[t] = tried[t],
           cap[t] \in 1 .. Len(caps'),
           LET k == caps[cap[t]]  l == caps'[cap[t]]
           IN  l.id = k.id /\ l.base = k.base /\ l.num = k.num,
           \A f \in Frame : owner'[f] = owner[f] \/ owner'[f] = 0
    PROVE  LocalsOK(t)'
<1>1. cap[t] \in 1 .. Len(caps) /\ Searching(caps[cap[t]], idx[t], tried[t], pc[t])
  BY DEF UInv, LocalsInv, LocalsOK
<1>2. caps[cap[t]].id # 0 /\ Span(caps[cap[t]]) \subseteq Frame
  BY <1>1, CapFacts DEF UInv
<1>. QED BY <1>1, <1>2 DEF LocalsOK, Searching, Visited, Span

----------------------------------------------------------------------------
LEMMA UntypedInit == Init => UInv
<1> SUFFICES ASSUME Init PROVE UInv
  OBVIOUS
<1>1. CapsInv
  <2>1. PICK n : n = Len(Regions) /\ n \in Nat /\ Ids = 1 .. n
    BY RegionFacts
  <2>2. caps = [r \in 1 .. n |-> NewCap(r, Regions[r].base, Regions[r].num)]
    BY <2>1 DEF Init
  <2>3. \A r \in 1 .. n : caps[r] \in CapType /\ InRegion(caps[r])
    BY <2>1, <2>2, RegionFacts DEF NewCap, CapType, InRegion, Span
  <2>4. caps \in Seq(CapType) /\ Len(caps) = n
    BY <2>1, <2>2, <2>3
  <2>. QED BY <2>1, <2>3, <2>4, UntypedConstants DEF CapsInv
<1>2. FramesInv
  BY DEF Init, FramesInv, RetypedOnce
<1>3. LocalsInv
  BY DEF Init, LocalsInv, LocalsOK
<1>. QED BY <1>1, <1>2, <1>3 DEF UInv

----------------------------------------------------------------------------
(* The capabilities: split adds two parts of a capability, the cursor moves. *)

LEMMA SplitCaps ==
    ASSUME UInv, NEW c \in 1 .. Len(caps), NEW n \in 1 .. COUNT_MOD, Split(c, n)
    PROVE  /\ CapsInv'
           /\ Len(caps') \in Nat /\ Len(caps') >= Len(caps)
           /\ \A d \in 1 .. Len(caps) : caps'[d] = caps[d]
<1>k. PICK k : k = caps[c]
  OBVIOUS
<1>m. n \in Nat /\ COUNT_MOD \in Nat \ {0}
  BY UntypedConstants
<1>n. n % COUNT_MOD \in Nat
  BY <1>m
<1>1. PICK m \in Nat : k = caps[c] /\ m = n % COUNT_MOD
  BY <1>k, <1>n
<1>2. PICK left, right : /\ left = NewCap(k.id, k.base, m)
                         /\ right = NewCap(k.id, k.base + m, k.num - m)
  OBVIOUS
<1>3. Len(caps) + 2 <= MAX_CAPS /\ m < k.num /\ caps' = caps \o <<left, right>>
  BY <1>1, <1>2 DEF Split
<1>4. PICK a \in Nat, num \in Nat : a = k.base /\ num = k.num
  BY <1>1, CapFacts DEF UInv
<1>5. m < num
  BY <1>3, <1>4
<1>6. PICK b \in Nat, l \in Nat : b = Regions[k.id].base /\ l = Regions[k.id].num
  BY Zenon, <1>1, CapFacts, RegionFacts DEF UInv
<1>7. k.id \in Ids /\ a \in b .. b + l - 1 /\ a + num <= b + l
  BY Zenon, <1>1, <1>4, <1>6, CapFacts DEF UInv, CapsInv, InRegion, Span
<1>8. a + m \in b .. b + l - 1 /\ a + m <= b + l /\ num - m \in Nat
  BY <1>5, <1>7
<1>9. left \in CapType /\ InRegion(left)
  <2>1. left = [id |-> k.id, base |-> a, num |-> m, cursor |-> a]
    BY <1>2, <1>4 DEF NewCap
  <2>2. left \in CapType /\ left.id = k.id /\ left.base = a /\ left.num = m /\ left.cursor = a
    BY <1>7, <2>1 DEF CapType
  <2>3. a \in a .. a + m
    OBVIOUS
  <2>. QED BY <1>6, <1>7, <1>8, <2>2, <2>3 DEF InRegion, Span
<1>10. right \in CapType /\ InRegion(right)
  <2>1. PICK x \in Nat, y \in Nat : x = a + m /\ y = num - m
    BY <1>8
  <2>2. right = [id |-> k.id, base |-> x, num |-> y, cursor |-> x]
    BY <1>2, <1>4, <2>1 DEF NewCap
  <2>3. right \in CapType /\ right.id = k.id /\ right.base = x /\ right.num = y /\ right.cursor = x
    BY <1>7, <2>2 DEF CapType
  <2>4. x \in b .. b + l - 1 /\ x + y <= b + l /\ x \in x .. x + y
    BY <1>7, <1>8, <2>1
  <2>. QED BY <1>6, <2>3, <2>4 DEF InRegion, Span
<1>11. caps \in Seq(CapType) /\ <<left, right>> \in Seq(CapType) /\ Len(<<left, right>>) = 2
  BY <1>9, <1>10 DEF UInv, CapsInv
<1>12. Len(caps) \in Nat
  BY <1>11, SeqMember
<1>13. /\ caps' \in Seq(CapType) /\ Len(caps') = Len(caps) + 2
       /\ \A d \in 1 .. Len(caps) + 2 :
             caps'[d] = IF d <= Len(caps) THEN caps[d] ELSE <<left, right>>[d - Len(caps)]
  BY <1>3, <1>11, SeqConcat
<1>14. \A d \in 1 .. Len(caps) : caps'[d] = caps[d]
  BY <1>12, <1>13
<1>15. \A d \in 1 .. Len(caps) + 2 : d \in 1 .. Len(caps) \/ caps'[d] = left \/ caps'[d] = right
  <2>1. ASSUME NEW d \in 1 .. Len(caps) + 2, d \notin 1 .. Len(caps)
        PROVE  caps'[d] = left \/ caps'[d] = right
    <3>1. d = Len(caps) + 1 \/ d = Len(caps) + 2
      BY <1>12, <2>1
    <3>. QED BY <1>12, <1>13, <3>1
  <2>. QED BY <2>1
<1>16. \A d \in 1 .. Len(caps') : InRegion(caps'[d])
  BY <1>9, <1>10, <1>13, <1>14, <1>15 DEF UInv, CapsInv
<1>17. CapsInv'
  BY <1>3, <1>13, <1>16 DEF CapsInv, InRegion, Span
<1>. QED BY <1>12, <1>13, <1>14, <1>17

LEMMA StoreCaps ==
    ASSUME UInv, NEW t \in Thread, RetypeStore(t)
    PROVE  /\ CapsInv'
           /\ Len(caps') = Len(caps)
           /\ \A d \in 1 .. Len(caps) : /\ caps'[d].id = caps[d].id
                                        /\ caps'[d].base = caps[d].base
                                        /\ caps'[d].num = caps[d].num
<1>1. PICK c : c = cap[t]
  OBVIOUS
<1>2. c \in 1 .. Len(caps) /\ Searching(caps[c], idx[t], tried[t], "store")
  BY <1>1 DEF RetypeStore, UInv, LocalsInv, LocalsOK
<1>3. PICK a \in Nat, num \in Nat, x \in Nat : a = caps[c].base /\ num = caps[c].num /\ x = idx[t]
  BY <1>2, CapFacts DEF UInv, LocalsInv
<1>4. x \in a .. a + num - 1
  BY <1>2, <1>3 DEF Searching, Span
<1>5. PICK k : k = [caps[c] EXCEPT !.cursor = x + 1]
  BY Zenon
<1>6. caps[c] \in CapType /\ InRegion(caps[c]) /\ caps \in Seq(CapType)
  BY <1>2, CapFacts DEF UInv, CapsInv
<1>7. /\ k.id = caps[c].id /\ k.base = a /\ k.num = num /\ k.cursor = x + 1 /\ k \in CapType
  <2>1. PICK r, y : r \in Ids /\ caps[c] = [id |-> r, base |-> a, num |-> num, cursor |-> y]
    BY Zenon, <1>3, <1>6 DEF CapType
  <2>2. k = [id |-> r, base |-> a, num |-> num, cursor |-> x + 1] /\ r = caps[c].id
    BY <1>5, <2>1
  <2>3. x + 1 \in Nat
    OBVIOUS
  <2>. QED BY <2>1, <2>2, <2>3 DEF CapType
<1>8. InRegion(k)
  <2>1. x + 1 \in a .. a + num
    BY <1>4
  <2>. QED BY <1>3, <1>6, <1>7, <2>1 DEF InRegion
<1>9. caps' = [caps EXCEPT ![c] = k]
  BY <1>1, <1>3, <1>5 DEF RetypeStore
<1>10. /\ caps' \in Seq(CapType) /\ Len(caps') = Len(caps)
       /\ \A d \in 1 .. Len(caps) : caps'[d] = IF d = c THEN k ELSE caps[d]
  BY <1>2, <1>6, <1>7, <1>9, SeqReplace
<1>11. \A d \in 1 .. Len(caps) : InRegion(caps'[d])
  BY <1>8, <1>10 DEF UInv, CapsInv
<1>12. CapsInv'
  BY <1>10, <1>11 DEF UInv, CapsInv, InRegion, Span
<1>. QED BY <1>3, <1>7, <1>10, <1>12

----------------------------------------------------------------------------
(* The searches. *)

\* Every action but split leaves the threads other than its own as they were.
LEMMA OthersKept ==
    ASSUME UInv, NEW t \in Thread, LocalsOK(t)',
           pc' \in [Thread -> {"idle", "look", "cas", "store"}],
           cap' \in [Thread -> Nat], idx' \in [Thread -> Nat], tried' \in [Thread -> Nat],
           \A u \in Thread \ {t} : /\ pc'[u] = pc[u] /\ cap'[u] = cap[u]
                                   /\ idx'[u] = idx[u] /\ tried'[u] = tried[u],
           Len(caps') = Len(caps),
           \A d \in 1 .. Len(caps) : /\ caps'[d].id = caps[d].id
                                    /\ caps'[d].base = caps[d].base
                                    /\ caps'[d].num = caps[d].num,
           \A f \in Frame : owner'[f] = owner[f] \/ owner'[f] = 0
    PROVE  LocalsInv'
<1>1. ASSUME NEW u \in Thread, u # t PROVE LocalsOK(u)'
  <2>1. CASE pc[u] = "idle"
    BY <1>1, <2>1 DEF UInv, LocalsInv, LocalsOK
  <2>2. CASE pc[u] # "idle"
    <3>1. cap[u] \in 1 .. Len(caps)
      BY <2>2 DEF UInv, LocalsInv, LocalsOK
    <3>. QED BY Zenon, <1>1, <2>2, <3>1, SearchKept
  <2>. QED BY <2>1, <2>2
<1>. QED BY <1>1 DEF LocalsInv

LEMMA SplitStep ==
    ASSUME UInv, NEW c \in 1 .. Len(caps), NEW n \in 1 .. COUNT_MOD, Split(c, n)
    PROVE  UInv'
<1>1. UNCHANGED <<owner, pc, cap, idx, tried, got>>
  BY DEF Split, locals
<1>2. /\ CapsInv' /\ Len(caps') \in Nat /\ Len(caps') >= Len(caps)
      /\ \A d \in 1 .. Len(caps) : caps'[d] = caps[d]
  BY SplitCaps
<1>3. FramesInv'
  BY <1>1 DEF UInv, FramesInv, RetypedOnce
<1>4. ASSUME NEW t \in Thread PROVE LocalsOK(t)'
  <2>1. CASE pc[t] = "idle"
    BY <1>1, <2>1 DEF UInv, LocalsInv, LocalsOK
  <2>2. CASE pc[t] # "idle"
    <3>1. cap[t] \in 1 .. Len(caps) /\ Len(caps) \in Nat
      BY <2>2, SeqMember DEF UInv, LocalsInv, LocalsOK, CapsInv
    <3>2. cap[t] \in 1 .. Len(caps')
      BY <1>2, <3>1
    <3>. QED BY <1>1, <1>2, <2>2, <3>1, <3>2, SearchKept
  <2>. QED BY <2>1, <2>2
<1>5. LocalsInv'
  BY <1>1, <1>4 DEF UInv, LocalsInv
<1>. QED BY <1>2, <1>3, <1>5 DEF UInv

LEMMA BeginStep ==
    ASSUME UInv, NEW t \in Thread, NEW c \in 1 .. Len(caps), RetypeBegin(t, c)
    PROVE  UInv'
<1>1. UNCHANGED <<owner, caps, got>>
  BY DEF RetypeBegin
<1>2. CapsInv' /\ FramesInv'
  BY <1>1 DEF UInv, CapsInv, InRegion, Span, FramesInv, RetypedOnce
<1>3. PICK a \in Nat, num \in Nat, x \in Nat :
             a = caps[c].base /\ num = caps[c].num /\ x = caps[c].cursor
  BY CapFacts DEF UInv
<1>4. x \in a .. a + num
  BY <1>3 DEF UInv, CapsInv, InRegion
<1>5. c \in Nat /\ pc'[t] = "look" /\ cap'[t] = c /\ idx'[t] = x /\ tried'[t] = 0
  BY <1>3 DEF UInv, LocalsInv, RetypeBegin, Goto
<1>6. \A f \in a .. a + num - 1 : ~(f < x /\ x - f <= 0) /\ ~(f >= x /\ x + num - f <= 0)
  BY <1>4
<1>7. Searching(caps[c], x, 0, "look")
  BY <1>3, <1>4, <1>6 DEF Searching, Visited, Span
<1>8. LocalsOK(t)'
  BY <1>1, <1>5, <1>7 DEF LocalsOK, Searching, Visited, Span
<1>9. LocalsInv'
  BY Zenon, <1>1, <1>3, <1>5, <1>8, OthersKept DEF UInv, LocalsInv, RetypeBegin, Goto
<1>. QED BY <1>2, <1>9 DEF UInv

\* What a search on the frame j = Wrap(idx) adds to the frames it has visited.
LEMMA NextVisited ==
    ASSUME NEW a \in Nat, NEW num \in Nat, NEW x \in a .. a + num, NEW n \in 0 .. num - 1,
           NEW j, j = IF x >= a + num THEN a ELSE x
    PROVE  /\ j \in Nat /\ j \in a .. a + num - 1 /\ j + 1 \in a .. a + num
           /\ \A f \in a .. a + num - 1 :
                /\ (f < j + 1 /\ (j + 1) - f <= n + 1) \/ (f >= j + 1 /\ (j + 1) + num - f <= n + 1)
                     => f = j \/ (f < x /\ x - f <= n) \/ (f >= x /\ x + num - f <= n)
                /\ (f < j /\ j - f <= n) \/ (f >= j /\ j + num - f <= n)
                     => (f < x /\ x - f <= n) \/ (f >= x /\ x + num - f <= n)
OBVIOUS

\* The locals of a thread in the search, as numbers.
LEMMA SearchFacts ==
    ASSUME UInv, NEW t \in Thread, pc[t] # "idle"
    PROVE  /\ cap[t] \in 1 .. Len(caps)
           /\ \E a \in Nat, num \in Nat, x \in Nat, n \in Nat :
                /\ a = caps[cap[t]].base /\ num = caps[cap[t]].num /\ x = idx[t] /\ n = tried[t]
                /\ x \in a .. a + num /\ n <= num /\ a + num <= NumFrames
                /\ pc[t] \in {"cas", "store"} => x \in a .. a + num - 1 /\ n < num
<1>1. cap[t] \in 1 .. Len(caps) /\ Searching(caps[cap[t]], idx[t], tried[t], pc[t])
  BY DEF UInv, LocalsInv, LocalsOK
<1>2. PICK a \in Nat, num \in Nat, x \in Nat, n \in Nat :
           a = caps[cap[t]].base /\ num = caps[cap[t]].num /\ x = idx[t] /\ n = tried[t]
  BY SMTT(30), <1>1, CapFacts DEF UInv, LocalsInv
<1>3. a + num <= NumFrames
  BY <1>1, <1>2, CapFacts DEF UInv
<1>4. x \in a .. a + num /\ n <= num
  BY <1>1, <1>2 DEF Searching
<1>5. pc[t] \in {"cas", "store"} => x \in a .. a + num - 1 /\ n < num
  BY <1>1, <1>2 DEF Searching, Span
<1>. QED BY Zenon, <1>1, <1>2, <1>3, <1>4, <1>5

LEMMA SkipStep ==
    ASSUME UInv, NEW t \in Thread, pc[t] \in {"look", "cas"}, Untried(t),
           NEW j, j = Wrap(caps[cap[t]], idx[t]), owner[j] # caps[cap[t]].id,
           Skip(t, j), UNCHANGED <<owner, caps, got>>
    PROVE  UInv'
<1>1. CapsInv' /\ FramesInv'
  BY DEF UInv, CapsInv, InRegion, Span, FramesInv, RetypedOnce
<1>2. PICK k : k = caps[cap[t]]
  OBVIOUS
<1>3. PICK a \in Nat, num \in Nat, x \in Nat, n \in Nat :
        /\ a = k.base /\ num = k.num /\ x = idx[t] /\ n = tried[t]
        /\ x \in a .. a + num
  BY SMTT(30), <1>2, SearchFacts
<1>4. n \in 0 .. num - 1
  BY <1>2, <1>3 DEF Untried
<1>5. j = IF x >= a + num THEN a ELSE x
  BY <1>2, <1>3 DEF Wrap
<1>6. /\ j \in Nat /\ j + 1 \in a .. a + num
      /\ \A f \in a .. a + num - 1 :
            Visited(k, j + 1, n + 1, f) => f = j \/ Visited(k, x, n, f)
  <2>1. /\ j \in Nat /\ j \in a .. a + num - 1 /\ j + 1 \in a .. a + num
        /\ \A f \in a .. a + num - 1 :
             (f < j + 1 /\ (j + 1) - f <= n + 1) \/ (f >= j + 1 /\ (j + 1) + num - f <= n + 1)
                     => f = j \/ (f < x /\ x - f <= n) \/ (f >= x /\ x + num - f <= n)
    <3>1. x \in a .. a + num /\ n \in 0 .. num - 1 /\ j = IF x >= a + num THEN a ELSE x
      BY <1>3, <1>4, <1>5
    <3>. QED BY ONLY <3>1, a \in Nat, num \in Nat, NextVisited, Zenon
  <2>. QED BY <1>3, <2>1 DEF Visited
<1>7. \A f \in a .. a + num - 1 : Visited(k, x, n, f) => owner[f] # k.id
  BY Zenon, <1>2, <1>3 DEF UInv, LocalsInv, LocalsOK, Searching, Span
<1>8. \A f \in a .. a + num - 1 : Visited(k, j + 1, n + 1, f) => owner[f] # k.id
  BY <1>2, <1>6, <1>7
<1>9. n + 1 \in 0 .. num /\ n + 1 \in Nat /\ j + 1 \in Nat
  BY <1>4, <1>6
<1>10. Searching(k, j + 1, n + 1, "look")
  BY <1>3, <1>6, <1>8, <1>9 DEF Searching, Span
<1>11. pc'[t] = "look" /\ cap'[t] = cap[t] /\ idx'[t] = j + 1 /\ tried'[t] = n + 1
  BY <1>3 DEF UInv, LocalsInv, Skip, Goto
<1>12. LocalsOK(t)'
  <2>1. cap[t] \in 1 .. Len(caps)
    BY SearchFacts
  <2>. QED BY <1>2, <1>10, <1>11, <2>1 DEF LocalsOK, Searching, Visited, Span
<1>13. LocalsInv'
  BY <1>3, <1>9, <1>12, OthersKept DEF UInv, LocalsInv, Skip, Goto
<1>. QED BY <1>1, <1>13 DEF UInv

LEMMA LookStep ==
    ASSUME UInv, NEW t \in Thread, RetypeLook(t)
    PROVE  UInv'
<1>1. PICK k, j : k = caps[cap[t]] /\ j = Wrap(k, idx[t])
  OBVIOUS
<1>2. pc[t] = "look" /\ Untried(t) /\ UNCHANGED <<owner, caps, got>>
  BY DEF RetypeLook
<1>3. CASE owner[j] # k.id
  <2>1. Skip(t, j)
    BY <1>1, <1>3 DEF RetypeLook
  <2>. QED BY <1>1, <1>2, <1>3, <2>1, SkipStep
<1>4. CASE owner[j] = k.id
  <2>1. CapsInv' /\ FramesInv'
    BY <1>2 DEF UInv, CapsInv, InRegion, Span, FramesInv, RetypedOnce
  <2>2. PICK a \in Nat, num \in Nat, x \in Nat, n \in Nat :
          /\ a = k.base /\ num = k.num /\ x = idx[t] /\ n = tried[t]
          /\ x \in a .. a + num
    BY <1>1, <1>2, SearchFacts
  <2>3. n \in 0 .. num - 1
    BY <1>1, <1>2, <2>2 DEF Untried
  <2>4. j = IF x >= a + num THEN a ELSE x
    BY <1>1, <2>2 DEF Wrap
  <2>5. /\ j \in Nat /\ j \in a .. a + num - 1 /\ j \in a .. a + num
        /\ \A f \in a .. a + num - 1 : Visited(k, j, n, f) => Visited(k, x, n, f)
    <3>1. /\ j \in Nat /\ j \in a .. a + num - 1
          /\ \A f \in a .. a + num - 1 :
               (f < j /\ j - f <= n) \/ (f >= j /\ j + num - f <= n)
                  => (f < x /\ x - f <= n) \/ (f >= x /\ x + num - f <= n)
      <4>1. x \in a .. a + num /\ n \in 0 .. num - 1 /\ j = IF x >= a + num THEN a ELSE x
        BY <2>2, <2>3, <2>4
      <4>. QED BY ONLY <4>1, a \in Nat, num \in Nat, NextVisited, Zenon
    <3>. QED BY <2>2, <3>1 DEF Visited
  <2>6. \A f \in a .. a + num - 1 : Visited(k, x, n, f) => owner[f] # k.id
    BY ZenonT(40), <1>1, <1>2, <2>2 DEF UInv, LocalsInv, LocalsOK, Searching, Span
  <2>7. Searching(k, j, n, "cas")
    BY <2>2, <2>3, <2>5, <2>6 DEF Searching, Span
  <2>8. pc'[t] = "cas" /\ cap'[t] = cap[t] /\ idx'[t] = j /\ tried'[t] = n
    BY <1>1, <1>4, <2>2 DEF UInv, LocalsInv, RetypeLook, Goto
  <2>9. LocalsOK(t)'
    <3>1. cap[t] \in 1 .. Len(caps)
      BY <1>2, SearchFacts
    <3>. QED BY <1>1, <1>2, <2>7, <2>8, <3>1 DEF LocalsOK, Searching, Visited, Span
  <2>10. /\ pc' = [pc EXCEPT ![t] = "cas"] /\ idx' = [idx EXCEPT ![t] = j]
         /\ UNCHANGED <<cap, tried>>
    BY <1>1, <1>4 DEF RetypeLook, Goto
  <2>11. LocalsInv'
    BY <1>2, <2>5, <2>9, <2>10, OthersKept DEF UInv, LocalsInv
  <2>. QED BY <2>1, <2>11 DEF UInv
<1>. QED BY <1>3, <1>4

LEMMA CasStep ==
    ASSUME UInv, NEW t \in Thread, RetypeCas(t)
    PROVE  UInv'
<1>1. PICK k, j : k = caps[cap[t]] /\ j = idx[t]
  OBVIOUS
<1>2. pc[t] = "cas" /\ UNCHANGED caps
  BY DEF RetypeCas
<1>3. PICK a \in Nat, num \in Nat, n \in Nat :
        /\ a = k.base /\ num = k.num /\ n = tried[t] /\ j \in Nat
        /\ j \in a .. a + num - 1 /\ n < num /\ a + num <= NumFrames
  BY <1>1, <1>2, SearchFacts
<1>4. j \in Frame /\ cap[t] \in 1 .. Len(caps) /\ k.id # 0
  <2>1. j \in Frame
    BY <1>3, UntypedConstants DEF Frame
  <2>2. cap[t] \in 1 .. Len(caps)
    BY <1>2, SearchFacts
  <2>. QED BY <1>1, <2>1, <2>2, CapFacts DEF UInv
<1>5. CASE owner[j] # k.id
  <2>1. Skip(t, j) /\ UNCHANGED <<owner, got>>
    BY <1>1, <1>5 DEF RetypeCas, Cas
  <2>2. Untried(t) /\ j = Wrap(caps[cap[t]], idx[t])
    BY <1>1, <1>3 DEF Untried, Wrap
  <2>. QED BY <1>1, <1>2, <1>5, <2>1, <2>2, SkipStep
<1>6. CASE owner[j] = k.id
  <2>1. /\ owner' = [owner EXCEPT ![j] = 0]
        /\ got' = [got EXCEPT ![t] = @ \cup {j}]
        /\ pc' = [pc EXCEPT ![t] = "store"]
        /\ UNCHANGED <<caps, cap, idx, tried>>
    BY <1>1, <1>6 DEF RetypeCas, Cas, Goto, locals
  <2>2. CapsInv'
    BY <2>1 DEF UInv, CapsInv, InRegion, Span
  <2>3. \A u \in Thread : j \notin got[u]
    BY <1>4, <1>6 DEF UInv, FramesInv, RetypedOnce
  <2>4. owner' \in [Frame -> Ids \cup {0}] /\ got' \in [Thread -> SUBSET Frame]
    BY <1>4, <2>1 DEF UInv, FramesInv
  <2>5. RetypedOnce'
    BY <1>4, <2>1, <2>3 DEF UInv, FramesInv, RetypedOnce
  <2>6. LocalsOK(t)'
    <3>1. Searching(k, j, n, "cas") /\ pc'[t] = "store"
      BY Zenon, <1>1, <1>2, <1>3, <2>1 DEF UInv, LocalsInv, LocalsOK
    <3>. QED BY Zenon, <1>1, <1>3, <1>4, <2>1, <3>1 DEF LocalsOK, Searching, Visited, Span
  <2>7. \A f \in Frame : owner'[f] = owner[f] \/ owner'[f] = 0
    BY <2>1 DEF UInv, FramesInv
  <2>8. LocalsInv'
    BY <2>1, <2>6, <2>7, OthersKept DEF UInv, LocalsInv
  <2>. QED BY <2>2, <2>4, <2>5, <2>8 DEF UInv, FramesInv
<1>. QED BY <1>5, <1>6

\* RetypeStore and RetypeExhausted both end the call.
LEMMA ReturnStep ==
    ASSUME UInv, NEW t \in Thread, RetypeStore(t) \/ RetypeExhausted(t)
    PROVE  UInv'
<1>1. /\ pc' = [pc EXCEPT ![t] = "idle"] /\ cap' = [cap EXCEPT ![t] = 0]
      /\ idx' = [idx EXCEPT ![t] = 0] /\ tried' = [tried EXCEPT ![t] = 0]
      /\ UNCHANGED <<owner, got>>
  BY DEF RetypeStore, RetypeExhausted, Return, Goto
<1>2. /\ CapsInv'
      /\ Len(caps') = Len(caps)
      /\ \A d \in 1 .. Len(caps) : /\ caps'[d].id = caps[d].id
                                   /\ caps'[d].base = caps[d].base
                                   /\ caps'[d].num = caps[d].num
  <2>1. CASE RetypeStore(t)
    BY SMTT(30), <2>1, StoreCaps
  <2>2. CASE RetypeExhausted(t)
    BY <2>2 DEF RetypeExhausted, UInv, CapsInv, InRegion, Span
  <2>. QED BY <2>1, <2>2
<1>3. FramesInv'
  BY <1>1 DEF UInv, FramesInv, RetypedOnce
<1>4. LocalsOK(t)'
  BY <1>1 DEF UInv, LocalsInv, LocalsOK
<1>5. LocalsInv'
  BY Zenon, <1>1, <1>2, <1>4, OthersKept DEF UInv, LocalsInv
<1>. QED BY <1>2, <1>3, <1>5 DEF UInv

LEMMA UntypedNext == UInv /\ [Next]_vars => UInv'
<1> SUFFICES ASSUME UInv, [Next]_vars PROVE UInv'
  OBVIOUS
<1>1. CASE \E t \in Thread : Step(t)
  BY <1>1, LookStep, CasStep, ReturnStep DEF Step
<1>2. CASE \E t \in Thread : \E c \in 1 .. Len(caps) : RetypeBegin(t, c)
  BY <1>2, BeginStep
<1>3. CASE \E c \in 1 .. Len(caps) : \E n \in 1 .. COUNT_MOD : Split(c, n)
  BY SMTT(30), <1>3, SplitStep
<1>4. CASE UNCHANGED vars
  BY <1>4 DEF vars, locals, UInv, CapsInv, InRegion, Span, FramesInv, RetypedOnce,
              LocalsInv, LocalsOK, Searching, Visited
<1>. QED BY <1>1, <1>2, <1>3, <1>4 DEF Next

LEMMA UntypedInvariance == Spec => []UInv
BY UntypedInit, UntypedNext, PTL DEF Spec

----------------------------------------------------------------------------
\* The capabilities stay inside their regions whatever splits are made, no frame is
\* retyped twice, and a retyped frame is never raw again, for any number of threads
\* and capabilities (untyped.rs:61-70, untyped.rs:81-84).
THEOREM RegionsSound == Spec => []CapsSound
<1>1. UInv => CapsSound
  <2> SUFFICES ASSUME UInv PROVE CapsSound
    OBVIOUS
  <2>1. ASSUME NEW c \in 1 .. Len(caps)
        PROVE  /\ caps[c].id \in Ids /\ caps[c].num \in 0 .. COUNT_MOD - 1
               /\ Span(caps[c]) \subseteq Span(Regions[caps[c].id])
               /\ caps[c].cursor \in caps[c].base .. caps[c].base + caps[c].num
    <3>1. PICK a \in Nat, num \in Nat : a = caps[c].base /\ num = caps[c].num
      BY CapFacts DEF UInv
    <3>2. a + num <= NumFrames
      BY <3>1, CapFacts DEF UInv
    <3>3. num \in 0 .. COUNT_MOD - 1
      BY <3>2, UntypedConstants
    <3>. QED BY Zenon, <3>1, <3>3, CapFacts DEF UInv, CapsInv, InRegion
  <2>2. ASSUME NEW t \in Thread
        PROVE  cap[t] \in 0 .. Len(caps) /\ idx[t] \in 0 .. NumFrames /\ tried[t] \in 0 .. NumFrames
    <3>1. Len(caps) \in Nat /\ NumFrames \in Nat
      BY SeqMember, UntypedConstants DEF UInv, CapsInv
    <3>2. CASE pc[t] = "idle"
      BY <3>1, <3>2 DEF UInv, LocalsInv, LocalsOK
    <3>3. CASE pc[t] # "idle"
      <4>1. PICK a \in Nat, num \in Nat, x \in Nat, n \in Nat :
               /\ x = idx[t] /\ n = tried[t]
               /\ x \in a .. a + num /\ n <= num /\ a + num <= NumFrames
        BY Zenon, <3>3, SearchFacts
      <4>2. cap[t] \in 1 .. Len(caps)
        BY <3>3, SearchFacts
      <4>3. x \in 0 .. NumFrames /\ n \in 0 .. NumFrames
        BY <3>1, <4>1
      <4>. QED BY <3>1, <4>1, <4>2, <4>3
    <3>. QED BY <3>2, <3>3
  <2>3. TypeOK
    BY Zenon, <2>1, <2>2 DEF TypeOK, UInv, CapsInv, FramesInv, LocalsInv
  <2>. QED BY <2>3 DEF CapsSound, UInv, FramesInv
<1>. QED BY <1>1, UntypedInvariance, PTL

\* A thread leaves the search without a frame only through RetypeExhausted.
LEMMA OnlyExhausted ==
    ASSUME UInv, [Next]_vars, NEW t \in Thread, pc[t] = "look", pc'[t] = "idle"
    PROVE  RetypeExhausted(t)
<1>0. pc \in [Thread -> {"idle", "look", "cas", "store"}]
  BY DEF UInv, LocalsInv
<1>1. ASSUME NEW u \in Thread, Step(u) PROVE RetypeExhausted(t)
  BY <1>0, <1>1 DEF Step, RetypeLook, RetypeCas, RetypeStore, RetypeExhausted, Skip, Return, Goto
<1>2. ASSUME NEW u \in Thread, NEW c \in 1 .. Len(caps), RetypeBegin(u, c) PROVE FALSE
  BY <1>0, <1>2 DEF RetypeBegin, Goto
<1>3. ASSUME NEW c \in 1 .. Len(caps), NEW n \in 1 .. COUNT_MOD, Split(c, n) PROVE FALSE
  BY <1>3 DEF Split
<1>4. CASE UNCHANGED vars
  BY <1>4 DEF vars
<1>. QED BY <1>1, <1>2, <1>3, <1>4 DEF Next

\* Exhausted is the truth for any number of threads searching, splitting and
\* moving the shared cursors: a search that gives up has been at every frame of its
\* capability, and none of them can have become raw again (untyped.rs:75-76).
THEOREM ExhaustedSound == Spec => ExhaustedIsTrue
<1> DEFINE Exhausted ==
      \A t \in Thread : pc[t] = "look" /\ pc'[t] = "idle" =>
         \A f \in Span(caps[cap[t]]) : owner[f] # caps[cap[t]].id
<1>1. UInv /\ [Next]_vars => Exhausted
  <2> SUFFICES ASSUME UInv, [Next]_vars, NEW t \in Thread, pc[t] = "look", pc'[t] = "idle",
                      NEW f \in Span(caps[cap[t]])
               PROVE  owner[f] # caps[cap[t]].id
    OBVIOUS
  <2>1. ~Untried(t)
    BY OnlyExhausted DEF RetypeExhausted
  <2>2. PICK k : k = caps[cap[t]]
    OBVIOUS
  <2>3. PICK a \in Nat, num \in Nat, x \in Nat, n \in Nat :
          /\ a = k.base /\ num = k.num /\ x = idx[t] /\ n = tried[t]
          /\ x \in a .. a + num /\ n <= num
    BY <2>2, SearchFacts
  <2>4. n = num /\ f \in a .. a + num - 1
    BY <2>1, <2>2, <2>3 DEF Untried, Span
  <2>5. (f < x /\ x - f <= n) \/ (f >= x /\ x + num - f <= n)
    BY <2>3, <2>4
  <2>6. Visited(k, x, n, f)
    BY <2>3, <2>5 DEF Visited
  <2>. QED BY Zenon, <2>2, <2>3, <2>6 DEF UInv, LocalsInv, LocalsOK, Searching
<1>2. UInv /\ [Next]_vars => [Exhausted]_vars
  BY <1>1
<1>. QED BY <1>2, UntypedInvariance, PTL DEF Spec, ExhaustedIsTrue

----------------------------------------------------------------------------
(* The keyboard's interrupt handler and its ring *)

Plain == [key : Keys, break : BOOLEAN, second : {FALSE}]
Second == [key : Keys, break : BOOLEAN, second : {TRUE}]

\* What the device may have left to send: one byte, or an extended key's two.
InFlight ==
    \/ bytes = <<>>
    \/ \E b \in Plain \cup Second : bytes = <<b>>
    \/ \E b \in Second : bytes = <<E0, b>>

\* The byte to come is a shift key's own.
ShiftComing == bytes # <<>> /\ ~Head(bytes).second /\ Head(bytes).key \in Shifts

\* SHIFT is set only while a shift key is held, or its byte is on the way:
\* NoStuckShift is not inductive without what that byte will do.
ShiftFollows ==
    IF ShiftComing THEN ~Head(bytes).break => Head(bytes).key \in down ELSE shift => down # {}

KInv == KbdTypeOK /\ ExtendedInStep /\ InFlight /\ ShiftFollows

----------------------------------------------------------------------------
\* An index one step past the end of the ring, or a whole turn past a slot, wraps.
LEMMA ModWraps ==
    ASSUME NEW i \in 0 .. 2 * RING_SIZE - 1
    PROVE  i % RING_SIZE = IF i < RING_SIZE THEN i ELSE i - RING_SIZE
BY KeyboardConstants

\* One byte, and an extended key's two, as sequences.
LEMMA OneByte ==
    ASSUME NEW S, NEW b \in S
    PROVE  <<b>> \in Seq(S) /\ Len(<<b>>) = 1 /\ <<b>> # <<>> /\ Head(<<b>>) = b /\ Tail(<<b>>) = <<>>
OBVIOUS

LEMMA TwoBytes ==
    ASSUME NEW S, NEW a \in S, NEW b \in S
    PROVE  <<a, b>> \in Seq(S) /\ Len(<<a, b>>) = 2 /\ <<a, b>> # <<>> /\ Head(<<a, b>>) = a /\ Tail(<<a, b>>) = <<b>>
OBVIOUS

\* A line stays one, whatever character it is given.
LEMMA LineTyped ==
    ASSUME line \in Seq(Char), Len(line) <= MAX_LINE, NEW c \in Char \cup {NoChar}
    PROVE  EditLine(c) \in Seq(Char) /\ Len(EditLine(c)) <= MAX_LINE
<1>0. Len(line) \in Nat /\ MAX_LINE \in Nat /\ <<>> \in Seq(Char) /\ Len(<<>>) = 0
  BY KeyboardConstants
<1>1. CASE c.key = "enter"
  BY <1>0, <1>1 DEF EditLine
<1>2. CASE c.key # "enter" /\ c.key = "bksp"
  <2>. DEFINE n == Len(line) - 1
  <2>1. n \in Int /\ n <= MAX_LINE
    BY <1>0
  <2>2. SubSeq(line, 1, n) \in Seq(Char) /\ (n >= 0 => Len(SubSeq(line, 1, n)) = n)
    BY Zenon, <2>1, SeqFront
  <2>3. n < 0 => Len(SubSeq(line, 1, n)) = 0
    BY <1>0
  <2>. QED  BY <1>0, <1>2, <2>1, <2>2, <2>3 DEF EditLine
<1>3. CASE c.key \in Letters \cup Symbols \cup {"space"} /\ Len(line) < MAX_LINE /\ c.key # "enter" /\ c.key # "bksp"
  <2>1. c \in Char
    BY <1>3, KeyboardConstants DEF NoChar, Keys
  <2>. QED  BY <1>0, <1>3, <2>1 DEF EditLine
<1>. QED  BY <1>1, <1>2, <1>3 DEF EditLine

----------------------------------------------------------------------------
Byte == [key : Keys \cup {"E0"}, break : BOOLEAN, second : BOOLEAN]

\* The members of Plain and of Second, field by field.
LEMMA PlainFields ==
    ASSUME NEW b \in Plain
    PROVE  b \in Byte /\ b.key \in Keys /\ b.key # "E0" /\ b.break \in BOOLEAN /\ ~b.second
BY Zenon, KeyboardConstants DEF Plain, Byte

LEMMA SecondFields ==
    ASSUME NEW b \in Second
    PROVE  b \in Byte /\ b.key \in Keys /\ b.second
BY Zenon DEF Second, Byte

LEMMA E0Fields == E0 \in Byte /\ E0.key = "E0" /\ ~E0.second /\ E0.key \notin Shifts
BY KeyboardConstants DEF E0, Byte, Keys

LEMMA KInit == KbdInit => KInv
<1>. SUFFICES ASSUME KbdInit PROVE KInv
  OBVIOUS
<1>1. KbdTypeOK
  BY KeyboardConstants DEF KbdInit, KbdTypeOK, NoChar
<1>. QED  BY <1>1 DEF KbdInit, KInv, ExtendedInStep, InFlight, ShiftFollows, ShiftComing

\* What the device sends.
LEMMA DeviceStep ==
    ASSUME KInv, NEW k \in Keys, Press(k) \/ Release(k) \/ PressExtended(k)
    PROVE  KInv'
<1>1. bytes = <<>> /\ down \subseteq Shifts /\ ~extended /\ (shift => down # {})
  BY DEF KInv, KbdTypeOK, ExtendedInStep, ShiftFollows, ShiftComing, Press, Release, PressExtended
<1>2. /\ ring' = ring /\ rhead' = rhead /\ rtail' = rtail /\ read' = read /\ line' = line
      /\ extended' = extended /\ shift' = shift /\ capsLock' = capsLock
  BY DEF Press, Release, PressExtended, ringVars, flags, shell
<1>3. ASSUME bytes' \in Seq(Byte), Len(bytes') <= 2, down' \subseteq Shifts
      PROVE  KbdTypeOK'
  BY <1>2, <1>3 DEF KInv, KbdTypeOK, Byte
<1>4. ASSUME NEW b \in Plain, bytes' = <<b>>, down' \subseteq Shifts,
             b.key \in Shifts /\ ~b.break => b.key \in down',
             b.key \notin Shifts => down' = down
      PROVE  KInv'
  <2>1. /\ b \in Byte /\ b.break \in BOOLEAN /\ ~b.second
        /\ bytes' \in Seq(Byte) /\ Len(bytes') <= 2 /\ bytes' # <<>> /\ Head(bytes') = b
    BY <1>4, PlainFields, OneByte
  <2>2. KbdTypeOK'
    BY <1>3, <1>4, <2>1
  <2>3. ExtendedInStep'
    BY <1>1, <1>2, <2>1 DEF ExtendedInStep
  <2>4. InFlight'
    BY <1>4 DEF InFlight
  <2>5. ShiftFollows'
    BY <1>1, <1>2, <1>4, <2>1 DEF ShiftFollows, ShiftComing
  <2>. QED  BY <2>2, <2>3, <2>4, <2>5 DEF KInv
<1>5. CASE Press(k)
  <2>1. Make(k) \in Plain /\ Make(k).key = k
    BY DEF Make, Plain
  <2>. QED  BY <1>1, <1>4, <1>5, <2>1 DEF Press
<1>6. CASE Release(k)
  <2>1. Break(k) \in Plain /\ Break(k).key = k /\ Break(k).break
    BY DEF Break, Plain
  <2>2. bytes' = <<Break(k)>> /\ down' = down \ {k}
    BY <1>6 DEF Release
  <2>. QED  BY <1>1, <1>4, <2>1, <2>2
<1>7. CASE PressExtended(k)
  <2>1. PICK b \in Second : bytes' = <<E0, b>> /\ down' = down
    BY Zenon, <1>7 DEF PressExtended, Second
  <2>2. /\ bytes' \in Seq(Byte) /\ Len(bytes') <= 2 /\ bytes' # <<>> /\ Head(bytes') = E0
        /\ ~E0.second /\ E0.key \notin Shifts
    BY <2>1, E0Fields, SecondFields, TwoBytes
  <2>3. KbdTypeOK'
    BY <1>1, <1>3, <2>1, <2>2
  <2>4. ExtendedInStep' /\ InFlight' /\ ShiftFollows'
    BY <1>1, <1>2, <2>1, <2>2 DEF ExtendedInStep, InFlight, ShiftFollows, ShiftComing
  <2>. QED  BY <2>3, <2>4 DEF KInv
<1>. QED  BY <1>5, <1>6, <1>7

\* push_char leaves the ring a ring.
LEMMA PushTyped ==
    ASSUME KbdTypeOK, NEW c \in Char, PushChar(c)
    PROVE  ring' \in [0 .. RING_SIZE - 1 -> Char \cup {NoChar}] /\ rhead' \in 0 .. RING_SIZE - 1
<1>1. (rhead + 1) % RING_SIZE \in 0 .. RING_SIZE - 1
  BY KeyboardConstants DEF KbdTypeOK
<1>. QED  BY <1>1 DEF PushChar, KbdTypeOK

LEMMA TranslateIsChar ==
    ASSUME NEW k \in Letters \cup Symbols \cup Controls
    PROVE  Translate(k) \in Char
BY DEF Translate, Char

\* The interrupt handler on one byte.
LEMMA IrqStep ==
    ASSUME KInv, Irq1
    PROVE  KInv'
<1>t. KbdTypeOK /\ InFlight /\ ExtendedInStep /\ ShiftFollows /\ bytes # <<>>
  BY DEF KInv, Irq1
<1>0. bytes' = Tail(bytes) /\ down' = down /\ rtail' = rtail /\ read' = read /\ line' = line
  BY DEF Irq1, shell
<1>1. ASSUME NEW b \in Plain, bytes = <<b>>  PROVE  KInv'
  <2>1. /\ b.key \in Keys /\ b.key # "E0" /\ b.break \in BOOLEAN /\ ~b.second
        /\ Head(bytes) = b /\ Tail(bytes) = <<>>
    BY <1>1, PlainFields, OneByte
  <2>2. ~extended
    BY <1>t, <2>1 DEF ExtendedInStep
  <2>3. bytes' = <<>> /\ ~extended' /\ extended' \in BOOLEAN /\ PlainByte(b)
    BY Zenon, <1>0, <2>1, <2>2 DEF Irq1, ExtendedAfter
  <2>4. ring' \in [0 .. RING_SIZE - 1 -> Char \cup {NoChar}] /\ rhead' \in 0 .. RING_SIZE - 1
    <3>1. CASE ~b.break /\ b.key \in Letters \cup Symbols \cup Controls
      BY <1>t, <2>3, <3>1, PushTyped, TranslateIsChar DEF PlainByte
    <3>2. CASE ~(~b.break /\ b.key \in Letters \cup Symbols \cup Controls)
      BY <1>t, <2>3, <3>2 DEF PlainByte, KbdTypeOK
    <3>. QED  BY <3>1, <3>2
  <2>5. shift' \in BOOLEAN /\ capsLock' \in BOOLEAN
    BY Zenon, <1>t, <2>1, <2>3 DEF PlainByte, ShiftAfter, KbdTypeOK
  <2>6. KbdTypeOK'
    BY <1>t, <1>0, <2>3, <2>4, <2>5 DEF KbdTypeOK
  <2>7. shift' => down' # {}
    <3>1. CASE b.key \in Shifts
      <4>1. shift' <=> ~b.break
        BY Zenon, <2>1, <2>3, <3>1 DEF PlainByte, ShiftAfter
      <4>2. CASE b.break
        BY <4>1, <4>2
      <4>3. CASE ~b.break
        BY <1>t, <1>0, <2>1, <3>1, <4>3 DEF ShiftFollows, ShiftComing
      <4>. QED  BY <4>2, <4>3
    <3>2. CASE b.key \notin Shifts
      BY SMTT(30), <1>t, <1>0, <2>1, <2>3, <3>2 DEF PlainByte, ShiftAfter, ShiftFollows, ShiftComing
    <3>. QED  BY <3>1, <3>2
  <2>. QED  BY <2>3, <2>6, <2>7 DEF KInv, ExtendedInStep, InFlight, ShiftFollows, ShiftComing
<1>2. ASSUME NEW b \in Second, bytes = <<b>>  PROVE  KInv'
  <2>1. b.second /\ Head(bytes) = b /\ Tail(bytes) = <<>>
    BY <1>2, SecondFields, OneByte
  <2>2. extended
    BY <1>t, <2>1 DEF ExtendedInStep
  <2>3. bytes' = <<>> /\ ~extended' /\ extended' \in BOOLEAN /\ UNCHANGED <<shift, capsLock, ring, rhead>>
    BY Zenon, <1>0, <2>1, <2>2 DEF Irq1, ExtendedAfter
  <2>4. KbdTypeOK'
    BY <1>t, <1>0, <2>3 DEF KbdTypeOK
  <2>5. shift => down # {}
    BY <1>t, <2>1 DEF ShiftFollows, ShiftComing
  <2>. QED  BY Zenon, <1>0, <2>3, <2>4, <2>5 DEF KInv, ExtendedInStep, InFlight, ShiftFollows, ShiftComing
<1>3. ASSUME NEW b \in Second, bytes = <<E0, b>>  PROVE  KInv'
  <2>1. /\ b.second /\ Head(bytes) = E0 /\ Tail(bytes) = <<b>> /\ E0.key = "E0" /\ ~E0.second /\ E0.key \notin Shifts
        /\ <<b>> \in Seq(Byte) /\ Len(<<b>>) = 1 /\ Head(<<b>>) = b /\ <<b>> # <<>>
    BY <1>3, SecondFields, E0Fields, OneByte, TwoBytes
  <2>2. ~extended
    BY <1>t, <2>1 DEF ExtendedInStep
  <2>3. bytes' = <<b>> /\ extended' /\ extended' \in BOOLEAN /\ UNCHANGED <<shift, capsLock, ring, rhead>>
    BY Zenon, <1>0, <2>1, <2>2 DEF Irq1, ExtendedAfter
  <2>4. KbdTypeOK'
    BY <1>t, <1>0, <2>1, <2>3 DEF KbdTypeOK, Byte
  <2>5. shift => down # {}
    BY <1>t, <2>1 DEF ShiftFollows, ShiftComing
  <2>6. ExtendedInStep'
    BY <2>1, <2>3 DEF ExtendedInStep
  <2>7. InFlight'
    BY <2>3 DEF InFlight
  <2>8. ShiftFollows'
    BY <1>0, <2>1, <2>3, <2>5 DEF ShiftFollows, ShiftComing
  <2>. QED  BY <2>4, <2>6, <2>7, <2>8 DEF KInv
<1>. QED  BY <1>t, <1>1, <1>2, <1>3 DEF InFlight

\* The shell's loop and SYS_GETC.
LEMMA ConsumerStep ==
    ASSUME KInv, PollChar \/ GetC \/ \E c \in Char : ReadSerial(c)
    PROVE  KInv'
<1>t. KbdTypeOK /\ InFlight /\ ExtendedInStep /\ ShiftFollows
  BY DEF KInv
<1>1. /\ bytes' = bytes /\ down' = down /\ ring' = ring /\ rhead' = rhead
      /\ extended' = extended /\ shift' = shift /\ capsLock' = capsLock
  BY DEF PollChar, GetC, ReadSerial, device, ringVars, flags
<1>2. rtail' \in 0 .. RING_SIZE - 1
  BY <1>t, KeyboardConstants DEF KbdTypeOK, PollChar, GetC, ReadSerial, Pop, ringVars
<1>3. ring[rtail] \in Char \cup {NoChar} /\ line \in Seq(Char) /\ Len(line) <= MAX_LINE
  BY <1>t DEF KbdTypeOK
<1>4. read' \in Char \cup {NoChar}
  BY <1>t, <1>3 DEF KbdTypeOK, PollChar, GetC, ReadSerial, Pop
<1>5. line' \in Seq(Char) /\ Len(line') <= MAX_LINE
  BY <1>3, LineTyped DEF PollChar, GetC, ReadSerial
<1>6. KbdTypeOK'
  BY <1>t, <1>1, <1>2, <1>4, <1>5 DEF KbdTypeOK
<1>. QED  BY <1>t, <1>1, <1>6 DEF KInv, ExtendedInStep, InFlight, ShiftFollows, ShiftComing

LEMMA KStep == KInv /\ [KbdNext]_kbdVars => KInv'
<1>1. ASSUME KInv, UNCHANGED kbdVars PROVE KInv'
  BY <1>1 DEF kbdVars, device, ringVars, flags, shell, KInv, KbdTypeOK, ExtendedInStep, InFlight, ShiftFollows, ShiftComing
<1>. QED  BY <1>1, DeviceStep, IrqStep, ConsumerStep DEF KbdNext

LEMMA KAlways == KbdSpec => []KInv
BY KInit, KStep, PTL DEF KbdSpec

\* The handler's EXTENDED and SHIFT follow the device through every sequence of
\* keys, with any set of keys (keyboard.rs:126-143).
THEOREM FlagsInStep == KbdSpec => []InStep
<1>1. KInv => InStep
  BY DEF KInv, InStep, NoStuckShift, ShiftFollows, ShiftComing
<1>. QED  BY <1>1, KAlways, PTL

----------------------------------------------------------------------------
(* The ring implements CharQueue. *)

Index == 0 .. RING_SIZE - 1
Ring == [Index -> Char \cup {NoChar}]

\* How many characters are between tail t and head h, where the i-th of them
\* is, and the queue that a ring r stands for.
Count(h, t) == (h - t + RING_SIZE) % RING_SIZE
Slot(t, i) == (t + i - 1) % RING_SIZE
Typed(r, h, t) == [i \in 1 .. Count(h, t) |-> r[Slot(t, i)]]

LEMMA CountWraps ==
    ASSUME NEW h \in Index, NEW t \in Index
    PROVE  /\ Count(h, t) = IF h >= t THEN h - t ELSE (h - t) + RING_SIZE
           /\ Count(h, t) \in Index
<1>. DEFINE d == h - t + RING_SIZE
<1>1. d \in 0 .. 2 * RING_SIZE - 1
  BY KeyboardConstants DEF Index
<1>. HIDE DEF d
<1>2. d % RING_SIZE = IF d < RING_SIZE THEN d ELSE d - RING_SIZE
  BY <1>1, ModWraps
<1>3. Count(h, t) = IF d < RING_SIZE THEN d ELSE d - RING_SIZE
  BY <1>2, Zenon DEF Count, d
<1>. QED  BY <1>3, KeyboardConstants DEF Index, d

LEMMA SlotWraps ==
    ASSUME NEW t \in Index, NEW i \in 1 .. RING_SIZE
    PROVE  /\ Slot(t, i) = IF t + i <= RING_SIZE THEN t + i - 1 ELSE (t + i - 1) - RING_SIZE
           /\ Slot(t, i) \in Index
<1>. DEFINE d == t + i - 1
<1>1. d \in 0 .. 2 * RING_SIZE - 1
  BY KeyboardConstants DEF Index
<1>. HIDE DEF d
<1>2. d % RING_SIZE = IF d < RING_SIZE THEN d ELSE d - RING_SIZE
  BY <1>1, ModWraps
<1>3. Slot(t, i) = IF d < RING_SIZE THEN d ELSE d - RING_SIZE
  BY <1>2, Zenon DEF Slot, d
<1>. QED  BY <1>3, KeyboardConstants DEF Index, d

LEMMA NextWraps ==
    ASSUME NEW h \in Index
    PROVE  (h + 1) % RING_SIZE = IF h + 1 = RING_SIZE THEN 0 ELSE h + 1
BY KeyboardConstants DEF Index

LEMMA TypedIsSeq ==
    ASSUME NEW r \in Ring, NEW h \in Index, NEW t \in Index
    PROVE  /\ Typed(r, h, t) \in Seq(Char \cup {NoChar}) /\ Len(Typed(r, h, t)) = Count(h, t)
           /\ \A i \in 1 .. Count(h, t) : Typed(r, h, t)[i] = r[Slot(t, i)]
<1>1. Count(h, t) \in Nat /\ Count(h, t) < RING_SIZE
  BY CountWraps, KeyboardConstants DEF Index
<1>2. \A i \in 1 .. Count(h, t) : r[Slot(t, i)] \in Char \cup {NoChar}
  BY <1>1, SlotWraps, KeyboardConstants DEF Ring
<1>. QED  BY <1>1, <1>2 DEF Typed

\* push_char on a ring with room appends.
LEMMA PushAppends ==
    ASSUME NEW r \in Ring, NEW h \in Index, NEW t \in Index, NEW c \in Char,
           (h + 1) % RING_SIZE # t
    PROVE  /\ Len(Typed(r, h, t)) < RING_SIZE - 1
           /\ Typed([r EXCEPT ![h] = c], (h + 1) % RING_SIZE, t) = Append(Typed(r, h, t), c)
<1>. DEFINE g == (h + 1) % RING_SIZE
            q == [r EXCEPT ![h] = c]
<1>0. g = IF h + 1 = RING_SIZE THEN 0 ELSE h + 1
  BY NextWraps
<1>. HIDE DEF g
<1>1. g \in Index /\ q \in Ring /\ g # t
  BY <1>0, KeyboardConstants DEF Index, Ring, g
<1>2. Count(g, t) = Count(h, t) + 1 /\ Count(h, t) \in Nat /\ Count(h, t) < RING_SIZE - 1
  <2>1. Count(g, t) = IF g >= t THEN g - t ELSE (g - t) + RING_SIZE
    BY <1>1, CountWraps
  <2>2. Count(h, t) = IF h >= t THEN h - t ELSE (h - t) + RING_SIZE
    BY CountWraps
  <2>. QED  BY <1>0, <1>1, <2>1, <2>2, KeyboardConstants DEF Index
<1>c. Count(h, t) = IF h >= t THEN h - t ELSE (h - t) + RING_SIZE
  BY CountWraps
<1>s. \A i \in 1 .. Count(h, t) + 1 :
        Slot(t, i) \in Index /\ Slot(t, i) = IF t + i <= RING_SIZE THEN t + i - 1 ELSE (t + i - 1) - RING_SIZE
  BY <1>2, SlotWraps, KeyboardConstants
<1>3. Slot(t, Count(h, t) + 1) = h
  <2>. DEFINE n == Count(h, t) + 1
  <2>1. n \in 1 .. Count(h, t) + 1 /\ n = IF h >= t THEN (h - t) + 1 ELSE (h - t) + RING_SIZE + 1
    BY <1>2, <1>c, KeyboardConstants DEF Index
  <2>. HIDE DEF n
  <2>2. Slot(t, n) = IF t + n <= RING_SIZE THEN t + n - 1 ELSE (t + n - 1) - RING_SIZE
    BY <1>s, <2>1
  <2>3. Slot(t, n) = h
    BY <2>1, <2>2, KeyboardConstants DEF Index
  <2>. QED  BY <2>3 DEF n
<1>4. ASSUME NEW i \in 1 .. Count(h, t)  PROVE  Slot(t, i) # h /\ Slot(t, i) \in Index
  <2>1. Slot(t, i) \in Index /\ Slot(t, i) = IF t + i <= RING_SIZE THEN t + i - 1 ELSE (t + i - 1) - RING_SIZE
    BY <1>2, <1>s
  <2>. QED  BY <1>2, <1>c, <2>1, KeyboardConstants DEF Index
<1>5. Typed(r, h, t) \in Seq(Char \cup {NoChar}) /\ Len(Typed(r, h, t)) = Count(h, t)
  BY TypedIsSeq
<1>6. \A i \in 1 .. Count(h, t) : q[Slot(t, i)] = Typed(r, h, t)[i]
  <2>1. \A i \in 1 .. Count(h, t) : Typed(r, h, t)[i] = r[Slot(t, i)]
    BY TypedIsSeq
  <2>. QED  BY <1>4, <2>1 DEF Ring
<1>7. q[Slot(t, Count(h, t) + 1)] = c
  BY <1>3 DEF Ring
<1>. HIDE DEF q
<1>8. Typed(q, g, t) = Append(Typed(r, h, t), c)
  BY <1>2, <1>5, <1>6, <1>7 DEF Typed
<1>. QED  BY Zenon, <1>2, <1>5, <1>8 DEF g, q

\* poll_char on a ring that is not empty takes the oldest character.
LEMMA PopTakesHead ==
    ASSUME NEW r \in Ring, NEW h \in Index, NEW t \in Index, h # t
    PROVE  /\ Typed(r, h, t) # <<>> /\ Head(Typed(r, h, t)) = r[t]
           /\ Typed(r, h, (t + 1) % RING_SIZE) = Tail(Typed(r, h, t))
<1>. DEFINE u == (t + 1) % RING_SIZE
<1>0. u = IF t + 1 = RING_SIZE THEN 0 ELSE t + 1
  BY NextWraps
<1>. HIDE DEF u
<1>1. u \in Index
  BY <1>0, KeyboardConstants DEF Index
<1>c. Count(h, t) = IF h >= t THEN h - t ELSE (h - t) + RING_SIZE
  BY CountWraps
<1>2. Count(h, t) = Count(h, u) + 1 /\ Count(h, u) \in Nat /\ Count(h, t) < RING_SIZE
  <2>1. Count(h, u) = IF h >= u THEN h - u ELSE (h - u) + RING_SIZE
    BY <1>1, CountWraps
  <2>. QED  BY <1>0, <1>1, <1>c, <2>1, KeyboardConstants DEF Index
<1>3. ASSUME NEW i \in 1 .. Count(h, u)  PROVE  Slot(u, i) = Slot(t, i + 1)
  <2>1. i \in 1 .. RING_SIZE /\ i + 1 \in 1 .. RING_SIZE
    BY <1>2, KeyboardConstants
  <2>2. Slot(u, i) = IF u + i <= RING_SIZE THEN u + i - 1 ELSE (u + i - 1) - RING_SIZE
    BY <1>1, <2>1, SlotWraps
  <2>. DEFINE j == i + 1
  <2>. HIDE DEF j
  <2>3. Slot(t, j) = IF t + j <= RING_SIZE THEN t + j - 1 ELSE (t + j - 1) - RING_SIZE
    BY <2>1, SlotWraps DEF j
  <2>4. Slot(u, i) = Slot(t, j)
    BY <1>0, <1>1, <2>1, <2>2, <2>3, KeyboardConstants DEF Index, j
  <2>. QED  BY <2>4 DEF j
<1>4. Slot(t, 1) = t
  BY SlotWraps, KeyboardConstants DEF Index
<1>5. Typed(r, h, t) \in Seq(Char \cup {NoChar}) /\ Len(Typed(r, h, t)) = Count(h, t)
  BY TypedIsSeq
<1>6. Typed(r, h, t)[1] = r[t] /\ \A i \in 1 .. Count(h, u) : r[Slot(u, i)] = Typed(r, h, t)[i + 1]
  <2>1. \A i \in 1 .. Count(h, t) : Typed(r, h, t)[i] = r[Slot(t, i)]
    BY TypedIsSeq
  <2>2. 1 \in 1 .. Count(h, t) /\ \A i \in 1 .. Count(h, u) : i + 1 \in 1 .. Count(h, t)
    BY <1>2
  <2>. QED  BY <1>3, <1>4, <2>1, <2>2
<1>7. Typed(r, h, u) = Tail(Typed(r, h, t))
  BY <1>2, <1>5, <1>6 DEF Typed
<1>. QED  BY <1>2, <1>5, <1>6, <1>7 DEF u

\* Every step of the driver and of its consumers is a step of the queue, or
\* leaves it alone.
LEMMA QueueStep ==
    ASSUME KbdTypeOK, [KbdNext]_kbdVars
    PROVE  [Queue!Next]_<<Typed(ring, rhead, rtail), read>>
<1>t. ring \in Ring /\ rhead \in Index /\ rtail \in Index
  BY DEF KbdTypeOK, Ring, Index
<1>1. CASE UNCHANGED <<ringVars, read>>
  BY <1>1 DEF ringVars
<1>2. CASE Irq1
  <2>0. rtail' = rtail /\ read' = read
    BY <1>2 DEF Irq1, shell
  <2>1. CASE UNCHANGED <<ring, rhead>>
    BY <2>0, <2>1
  <2>2. CASE ~UNCHANGED <<ring, rhead>>
    <3>1. PICK c \in Char : PushChar(c)
      BY <1>2, <2>2, TranslateIsChar DEF Irq1, PlainByte
    <3>2. /\ (rhead + 1) % RING_SIZE # rtail
          /\ ring' = [ring EXCEPT ![rhead] = c] /\ rhead' = (rhead + 1) % RING_SIZE
      BY <2>2, <3>1 DEF PushChar
    <3>3. /\ Len(Typed(ring, rhead, rtail)) < RING_SIZE - 1
          /\ Typed(ring, rhead, rtail)' = Append(Typed(ring, rhead, rtail), c)
      BY Zenon, <1>t, <2>0, <3>2, PushAppends
    <3>4. Queue!Put(c)
      BY ZenonT(40), <2>0, <3>3 DEF Queue!Put, Typed, Slot, Count, Queued
    <3>. QED  BY <3>4 DEF Queue!Next
  <2>. QED  BY <2>1, <2>2
<1>3. CASE PollChar \/ GetC
  <2>1. ring' = ring /\ rhead' = rhead /\ rhead # rtail /\ read' = ring[rtail] /\ rtail' = (rtail + 1) % RING_SIZE
    BY <1>3 DEF PollChar, GetC, Pop
  <2>2. /\ Typed(ring, rhead, rtail) # <<>> /\ Head(Typed(ring, rhead, rtail)) = ring[rtail]
        /\ Typed(ring, rhead, rtail)' = Tail(Typed(ring, rhead, rtail))
    BY <1>t, <2>1, PopTakesHead
  <2>3. Queue!Get
    BY Zenon, <2>1, <2>2 DEF Queue!Get, Typed, Slot, Count, Queued
  <2>. QED  BY <2>3 DEF Queue!Next
<1>4. CASE \/ \E c \in Char : ReadSerial(c)
           \/ \E k \in Keys : Press(k) \/ Release(k) \/ PressExtended(k)
           \/ UNCHANGED kbdVars
  BY <1>1, <1>4 DEF ReadSerial, Press, Release, PressExtended, kbdVars, shell
<1>. QED  BY <1>2, <1>3, <1>4 DEF KbdNext

\* The ring implements the bounded queue of CharQueue, whatever the ring's size
\* and the interleaving of handler and pollers (keyboard.rs:55-101).
THEOREM ImplementsCharQueue == KbdSpec => RingIsQueue
<1>1. KbdInit => Queue!Init
  <2>. SUFFICES ASSUME KbdInit PROVE Queue!Init
    OBVIOUS
  <2>1. Queued = 0
    BY KeyboardConstants DEF KbdInit, Queued
  <2>2. [i \in 1 .. Queued |-> ring[(rtail + i - 1) % RING_SIZE]] = <<>>
    BY <2>1
  <2>3. read \notin Char
    BY KeyboardConstants DEF KbdInit, NoChar, Char, Keys
  <2>. QED  BY <2>2, <2>3 DEF Queue!Init
<1>2. KbdTypeOK /\ [KbdNext]_kbdVars => [Queue!Next]_<<[i \in 1 .. Queued |-> ring[(rtail + i - 1) % RING_SIZE]], read>>
  BY QueueStep DEF Typed, Slot, Count, Queued
<1>3. KInv => KbdTypeOK
  BY DEF KInv
<1>. QED  BY <1>1, <1>2, <1>3, KAlways, PTL DEF KbdSpec, RingIsQueue, Queue!Spec
=============================================================================
