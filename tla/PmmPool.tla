------------------------------ MODULE PmmPool ------------------------------
(***************************************************************************)
(* Who has a frame in custody.  For the two uses of the allocator without  *)
(* a race on a reference, one execution context or no pins and mappings at *)
(* all: no assertion fails, no Pending frame is forgotten, and Pmm         *)
(* implements FramePool.                                                   *)
(***************************************************************************)
EXTENDS PmmProofs

Unshared == Refs = {} \/ OneThread

NoRefs ==
    /\ \A t \in Thread : pins[t] = {} /\ maps[t] = {}
    /\ \A t \in Thread : pc[t] \notin InDrain /\ pc[t] # "set_pending"
    /\ \A f \in Frame : owner[f] # "Pending" /\ pinned[f] = 0 /\ mappings[f] = 0

\* A held frame has one holder; a frame being released has none, and one releaser.
Exclusive ==
    /\ \A t, u \in Thread : t # u => held[t] \cap held[u] = {}
    /\ \A t \in Thread : \A f \in held[t] : owner[f] \in {"Kernel", "Domain"}
    /\ \A t \in Thread : Releasing(t) =>
         /\ owner[frame[t]] = seen[t] /\ seen[t] \in Owned
         /\ \A u \in Thread : frame[t] \notin held[u]
         /\ \A u \in Thread \ {t} : Releasing(u) => frame[u] # frame[t]

\* What the loads of release_frame and drain_if_ready found still holds.
LoadsHold ==
    \A t \in Thread :
        /\ pc[t] \in {"drain_pinned", "drain_mappings", "release"} => owner[frame[t]] = "Pending"
        /\ pc[t] \in {"drain_mappings", "release", "read_mappings", "set_free"} => pinned[frame[t]] = 0
        /\ pc[t] \in {"release", "set_free"} => mappings[frame[t]] = 0
        /\ pc[t] = "set_pending" => pinned[frame[t]] + mappings[frame[t]] > 0

\* A Pending frame has a reference left, or a thread on its way to release it.
Awaited ==
    \A f \in Frame : owner[f] = "Pending" =>
        \/ pinned[f] + mappings[f] > 0
        \/ \E t \in Thread : /\ frame[t] = f
                             /\ pc[t] \in InDrain \cup {"read_pinned", "read_mappings", "set_free"}

Custody ==
    /\ Unshared
    /\ Refs = {} => NoRefs
    /\ NoPanic /\ Exclusive /\ LoadsHold /\ Awaited

----------------------------------------------------------------------------
(* Custody is kept. *)

CInv == IInv /\ NamedInv /\ Custody

LEMMA PopCustody ==
    ASSUME CInv, NEW t \in Thread, NEW f \in Frame, Pops(t, f)
    PROVE  Custody'
<1>t. TypeOK /\ LockInv /\ Custody
  BY DEF IInv, CInv
<1>1. /\ owner' = [owner EXCEPT ![f] = "Kernel"] /\ held' = [held EXCEPT ![t] = @ \cup {f}]
      /\ pc' = [pc EXCEPT ![t] = "idle"] /\ pc[t] \in InAlloc
      /\ UNCHANGED <<pinned, mappings, frame, seen, pins, maps>>
      /\ owner[f] = "Free"
  BY DEF Pops
<1>2. \A u \in Thread : f \notin held[u] /\ (Releasing(u) => frame[u] # f)
  BY <1>1, <1>t DEF Custody, Exclusive, Owned
<1>3. \A u \in Thread : Releasing(u)' <=> Releasing(u)
  BY <1>1, <1>t DEF Releasing, TypeOK, InAlloc
<1>4. (Refs = {} => NoRefs)'
  BY <1>1, <1>t DEF Custody, NoRefs, TypeOK, InDrain
<1>5. NoPanic'
  BY <1>1, <1>t DEF Custody, NoPanic, TypeOK
<1>6. Exclusive'
  BY <1>1, <1>2, <1>3, <1>t DEF Custody, Exclusive, TypeOK
<1>7. LoadsHold'
  BY <1>1, <1>t DEF Custody, LoadsHold, TypeOK
<1>8. Awaited'
  BY <1>1, <1>t DEF Custody, Awaited, TypeOK, InAlloc, InDrain
<1>. QED BY <1>4, <1>5, <1>6, <1>7, <1>8, <1>t DEF Custody, Unshared, OneThread

LEMMA RetypeCustody ==
    ASSUME CInv, NEW t \in Thread, NEW f \in Frame, Retype(t, f)
    PROVE  Custody'
<1>t. TypeOK /\ LockInv /\ Custody
  BY DEF IInv, CInv
<1>1. /\ owner' = [owner EXCEPT ![f] = "Domain"] /\ held' = [held EXCEPT ![t] = @ \cup {f}]
      /\ UNCHANGED <<pc, pinned, mappings, frame, seen, pins, maps>>
      /\ owner[f] = "Untyped"
  BY DEF Retype
<1>2. \A u \in Thread : f \notin held[u] /\ (Releasing(u) => frame[u] # f)
  BY <1>1, <1>t DEF Custody, Exclusive, Owned
<1>3. \A u \in Thread : Releasing(u)' <=> Releasing(u)
  BY <1>1 DEF Releasing
<1>4. (Refs = {} => NoRefs)'
  BY <1>1, <1>t DEF Custody, NoRefs, TypeOK, InDrain
<1>5. NoPanic'
  BY <1>1, <1>t DEF Custody, NoPanic
<1>6. Exclusive'
  BY <1>1, <1>2, <1>3, <1>t DEF Custody, Exclusive, TypeOK
<1>7. LoadsHold'
  BY <1>1, <1>t DEF Custody, LoadsHold, TypeOK
<1>8. Awaited'
  BY <1>1, <1>t DEF Custody, Awaited, TypeOK
<1>. QED BY <1>4, <1>5, <1>6, <1>7, <1>8, <1>t DEF Custody, Unshared, OneThread

LEMMA AllocCustody ==
    ASSUME CInv, NEW t \in Thread, Allocating(t)
    PROVE  Custody'
<1>t. TypeOK /\ LockInv /\ Custody
  BY DEF IInv, CInv
<1>1. PICK l \in InAlloc : pc' = [pc EXCEPT ![t] = l]
  BY Zenon DEF Allocating
<1>2. pc[t] \in InAlloc /\ UNCHANGED <<owner, pinned, mappings, held, frame, seen, pins, maps>>
  BY DEF Allocating, table, clients
<1>3. \A u \in Thread : /\ Releasing(u)' <=> Releasing(u)
                        /\ pc'[u] = pc[u] \/ (pc'[u] \in InAlloc /\ pc[u] \in InAlloc)
  BY <1>1, <1>2, <1>t DEF Releasing, TypeOK, InAlloc
<1>4. (Refs = {} => NoRefs)'
  BY <1>2, <1>3, <1>t DEF Custody, NoRefs, InAlloc, InDrain
<1>5. NoPanic'
  BY <1>2, <1>3, <1>t DEF Custody, NoPanic, InAlloc
<1>6. Exclusive'
  BY <1>2, <1>3, <1>t DEF Custody, Exclusive
<1>7. LoadsHold'
  BY <1>2, <1>3, <1>t DEF Custody, LoadsHold, InAlloc
<1>8. Awaited'
  BY <1>2, <1>3, <1>t DEF Custody, Awaited, InAlloc, InDrain
<1>. QED BY <1>4, <1>5, <1>6, <1>7, <1>8, <1>t DEF Custody, Unshared, OneThread

\* A release starts on a frame that nobody holds and nobody else releases.
LEMMA BeginCustody ==
    ASSUME CInv, NEW t \in Thread, NEW f \in Frame, pc[t] \in {"idle", "release"},
           pc' = [pc EXCEPT ![t] = "read_pinned"], frame' = [frame EXCEPT ![t] = f],
           seen' = [seen EXCEPT ![t] = owner[f]], owner[f] \in Owned,
           held' \in [Thread -> SUBSET Frame],
           \A u \in Thread : held'[u] \subseteq held[u] /\ f \notin held'[u],
           \A u \in Thread \ {t} : Releasing(u) => frame[u] # f,
           pc[t] = "release" => frame[t] = f,
           UNCHANGED <<owner, pinned, mappings, pins, maps>>
    PROVE  Custody'
<1>t. TypeOK /\ LockInv /\ Custody
  BY DEF IInv, CInv
<1>3. \A u \in Thread \ {t} : /\ Releasing(u)' <=> Releasing(u)
                              /\ pc'[u] = pc[u] /\ frame'[u] = frame[u] /\ seen'[u] = seen[u]
  BY <1>t DEF Releasing, TypeOK
<1>s. pc'[t] = "read_pinned" /\ frame'[t] = f /\ seen'[t] = owner[f] /\ Releasing(t)'
  BY <1>t DEF Releasing, TypeOK
<1>4. (Refs = {} => NoRefs)'
  BY <1>3, <1>s, <1>t DEF Custody, NoRefs, InDrain
<1>5. NoPanic'
  BY <1>3, <1>s, <1>t DEF Custody, NoPanic
<1>6. Exclusive'
  <2>1. \A u, v \in Thread : u # v => held'[u] \cap held'[v] = {}
    BY <1>t DEF Custody, Exclusive
  <2>2. \A u \in Thread : \A g \in held'[u] : owner'[g] \in {"Kernel", "Domain"}
    BY <1>t DEF Custody, Exclusive
  <2>3. ASSUME NEW u \in Thread, Releasing(u)'
        PROVE  /\ owner'[frame'[u]] = seen'[u] /\ seen'[u] \in Owned
               /\ \A v \in Thread : frame'[u] \notin held'[v]
               /\ \A v \in Thread \ {u} : Releasing(v)' => frame'[v] # frame'[u]
    <3>1. CASE u = t
      BY <1>3, <1>s, <3>1
    <3>2. CASE u # t
      BY <1>3, <1>s, <1>t, <2>3, <3>2 DEF Custody, Exclusive
    <3>. QED BY <3>1, <3>2
  <2>. QED BY <2>1, <2>2, <2>3 DEF Exclusive
<1>7. LoadsHold'
  BY <1>3, <1>s, <1>t DEF Custody, LoadsHold
<1>8. Awaited'
  <2>1. ASSUME NEW g \in Frame, owner[g] = "Pending", ~(pinned[g] + mappings[g] > 0)
        PROVE  \E u \in Thread : /\ frame'[u] = g
                                 /\ pc'[u] \in InDrain \cup {"read_pinned", "read_mappings", "set_free"}
    <3>1. PICK u \in Thread : /\ frame[u] = g
                              /\ pc[u] \in InDrain \cup {"read_pinned", "read_mappings", "set_free"}
      BY <2>1, <1>t DEF Custody, Awaited
    <3>. QED BY <1>3, <1>s, <3>1 DEF InDrain
  <2>. QED BY <2>1 DEF Awaited
<1>. QED BY <1>4, <1>5, <1>6, <1>7, <1>8, <1>t DEF Custody, Unshared, OneThread

LEMMA ReleaseCustody ==
    ASSUME CInv, NEW t \in Thread, (\E f \in Frame : ReleaseHeld(t, f)) \/ ReleaseDrained(t)
    PROVE  Custody'
<1>t. TypeOK /\ LockInv /\ Custody
  BY DEF IInv, CInv
<1>1. ASSUME NEW f \in Frame, ReleaseHeld(t, f) PROVE Custody'
  <2>1. pc[t] = "idle" /\ f \in held[t] /\ owner[f] \in {"Kernel", "Domain"}
    BY <1>1, <1>t DEF ReleaseHeld, Custody, Exclusive
  <2>2. /\ pc' = [pc EXCEPT ![t] = "read_pinned"] /\ frame' = [frame EXCEPT ![t] = f]
        /\ seen' = [seen EXCEPT ![t] = owner[f]] /\ held' = [held EXCEPT ![t] = @ \ {f}]
        /\ UNCHANGED <<owner, pinned, mappings, pins, maps>>
    BY Zenon, <1>1, <2>1 DEF ReleaseHeld, ReleaseBegin, Goto, table
  <2>3. held' \in [Thread -> SUBSET Frame] /\ \A u \in Thread : held'[u] \subseteq held[u] /\ f \notin held'[u]
    BY <2>1, <2>2, <1>t DEF TypeOK, Custody, Exclusive
  <2>4. \A u \in Thread \ {t} : Releasing(u) => frame[u] # f
    BY <2>1, <1>t DEF Custody, Exclusive
  <2>. QED BY Zenon, <2>1, <2>2, <2>3, <2>4, BeginCustody DEF Owned
<1>2. CASE ReleaseDrained(t)
  <2>1. PICK f : f = frame[t]
    OBVIOUS
  <2>2. pc[t] = "release" /\ f \in Frame /\ owner[f] = "Pending" /\ OneThread
    BY <1>2, <2>1, <1>t DEF ReleaseDrained, LockInv, InDrain, Custody, LoadsHold, NoRefs, Unshared
  <2>3. /\ pc' = [pc EXCEPT ![t] = "read_pinned"] /\ seen' = [seen EXCEPT ![t] = owner[f]]
        /\ UNCHANGED <<owner, pinned, mappings, pins, maps, held, frame>>
    BY <1>2, <2>1, <2>2 DEF ReleaseDrained, ReleaseBegin, Goto, table
  <2>4. frame' = [frame EXCEPT ![t] = f]
    BY <2>1, <2>3, <1>t DEF TypeOK
  <2>5. held' \in [Thread -> SUBSET Frame] /\ \A u \in Thread : held'[u] \subseteq held[u] /\ f \notin held'[u]
    BY <2>2, <2>3, <1>t DEF TypeOK, Custody, Exclusive
  <2>6. \A u \in Thread \ {t} : Releasing(u) => frame[u] # f
    BY <2>2 DEF OneThread
  <2>. QED BY ZenonT(40), <2>1, <2>2, <2>3, <2>4, <2>5, <2>6, BeginCustody DEF Owned
<1>. QED BY <1>1, <1>2

\* A thread moves on in a release, or out of it, and changes no frame.
LEMMA MoveCustody ==
    ASSUME CInv, NEW t \in Thread, NEW l, pc' = [pc EXCEPT ![t] = l],
           l \notin {"list_panic", "owner_panic", "release_panic"},
           UNCHANGED <<owner, pinned, mappings, held, pins, maps>>,
           \A u \in Thread \ {t} : frame'[u] = frame[u] /\ seen'[u] = seen[u],
           Releasing(t)' => Releasing(t) /\ frame'[t] = frame[t] /\ seen'[t] = seen[t],
           Refs = {} => l \notin InDrain /\ l # "set_pending",
           LoadsHold',
           owner[frame[t]] = "Pending" /\ ~(pinned[frame[t]] + mappings[frame[t]] > 0) =>
              \/ l \in InDrain \cup {"read_pinned", "read_mappings", "set_free"} /\ frame'[t] = frame[t]
              \/ pc[t] \notin InDrain \cup {"read_pinned", "read_mappings", "set_free"}
    PROVE  Custody'
<1>t. TypeOK /\ LockInv /\ Custody
  BY DEF IInv, CInv
<1>1. pc'[t] = l /\ \A u \in Thread \ {t} : pc'[u] = pc[u] /\ (Releasing(u)' <=> Releasing(u))
  BY <1>t DEF TypeOK, Releasing
<1>4. (Refs = {} => NoRefs)'
  BY <1>1, <1>t DEF Custody, NoRefs
<1>5. NoPanic'
  BY <1>1, <1>t DEF Custody, NoPanic
<1>6. Exclusive'
  BY <1>1, <1>t DEF Custody, Exclusive
<1>8. Awaited'
  <2>1. ASSUME NEW g \in Frame, owner[g] = "Pending", ~(pinned[g] + mappings[g] > 0)
        PROVE  \E u \in Thread : /\ frame'[u] = g
                                 /\ pc'[u] \in InDrain \cup {"read_pinned", "read_mappings", "set_free"}
    <3>1. PICK u \in Thread : /\ frame[u] = g
                              /\ pc[u] \in InDrain \cup {"read_pinned", "read_mappings", "set_free"}
      BY <2>1, <1>t DEF Custody, Awaited
    <3>. QED BY <1>1, <2>1, <3>1
  <2>. QED BY <2>1 DEF Awaited
<1>. QED BY <1>4, <1>5, <1>6, <1>8, <1>t DEF Custody, Unshared, OneThread

LEMMA ReadCustody ==
    ASSUME CInv, NEW t \in Thread, ReleaseReadPinned(t) \/ ReleaseReadMappings(t)
    PROVE  Custody'
<1>t. TypeOK /\ LockInv /\ Custody
  BY DEF IInv, CInv
<1>1. /\ pc[t] \in {"read_pinned", "read_mappings"} /\ frame[t] \in Frame
      /\ UNCHANGED <<owner, pinned, mappings, held, pins, maps, frame, seen>>
  BY <1>t DEF ReleaseReadPinned, ReleaseReadMappings, table, clients, LockInv, InRelease
<1>2. pinned[frame[t]] \in Nat /\ mappings[frame[t]] \in Nat
  BY <1>1, <1>t DEF TypeOK
<1>3. PICK l : /\ pc' = [pc EXCEPT ![t] = l]
               /\ \/ l = "set_pending" /\ pinned[frame[t]] + mappings[frame[t]] > 0
                  \/ l = "read_mappings" /\ pinned[frame[t]] = 0
                  \/ l = "set_free" /\ pinned[frame[t]] = 0 /\ mappings[frame[t]] = 0
  <2>1. PICK m \in Nat, n \in Nat : m = pinned[frame[t]] /\ n = mappings[frame[t]]
    BY <1>2
  <2>2. (m # 0 => m + n > 0) /\ (n # 0 => m + n > 0)
    OBVIOUS
  <2>3. CASE ReleaseReadPinned(t)
    BY <2>1, <2>2, <2>3, Zenon DEF ReleaseReadPinned, Goto
  <2>4. CASE ReleaseReadMappings(t)
    <3>1. LoadsHold /\ pc[t] = "read_mappings"
      BY <2>4, <1>t DEF ReleaseReadMappings, Custody
    <3>2. m = 0
      BY <2>1, <3>1 DEF LoadsHold
    <3>. QED BY <2>1, <2>2, <2>4, <3>2, Zenon DEF ReleaseReadMappings, Goto
  <2>. QED BY <2>3, <2>4
<1>4. LoadsHold'
  <2>1. ASSUME NEW u \in Thread, u # t PROVE pc'[u] = pc[u]
    BY <1>3, <2>1, <1>t DEF TypeOK
  <2>2. pc'[t] = l
    BY <1>3, <1>t DEF TypeOK
  <2>. QED BY <1>1, <1>3, <2>1, <2>2, <1>t DEF Custody, LoadsHold
<1>5. Refs = {} => l # "set_pending"
  BY <1>1, <1>3, <1>t DEF Custody, NoRefs
<1>6. Releasing(t)
  BY <1>1 DEF Releasing
<1>7. \/ l \in InDrain \cup {"read_pinned", "read_mappings", "set_free"}
      \/ pinned[frame[t]] + mappings[frame[t]] > 0
  BY <1>3
<1>8. l \notin InDrain /\ l \notin {"list_panic", "owner_panic", "release_panic"}
  BY <1>3 DEF InDrain
<1>. QED BY Zenon, <1>1, <1>3, <1>4, <1>5, <1>6, <1>7, <1>8, MoveCustody

LEMMA PushCustody ==
    ASSUME CInv, NEW t \in Thread, ReleasePush(t)
    PROVE  Custody'
<1>t. TypeOK /\ LockInv /\ Custody
  BY DEF IInv, CInv
<1>1. /\ pc[t] = "push" /\ pc' = [pc EXCEPT ![t] = "idle"]
      /\ frame' = [frame EXCEPT ![t] = NONE] /\ seen' = [seen EXCEPT ![t] = "Reserved"]
      /\ UNCHANGED <<owner, pinned, mappings, held, pins, maps>>
  BY DEF ReleasePush, Return, Goto, clients
<1>2. /\ pc'[t] = "idle"
      /\ \A u \in Thread \ {t} : pc'[u] = pc[u] /\ frame'[u] = frame[u] /\ seen'[u] = seen[u]
  BY <1>1, <1>t DEF TypeOK
<1>3. LoadsHold'
  BY <1>1, <1>2, <1>t DEF Custody, LoadsHold
<1>4. ~Releasing(t)' /\ "idle" \notin InDrain
  BY <1>2 DEF Releasing, InDrain
<1>5. pc[t] \notin InDrain \cup {"read_pinned", "read_mappings", "set_free"}
  BY <1>1 DEF InDrain
<1>. QED BY Zenon, <1>1, <1>2, <1>3, <1>4, <1>5, MoveCustody

LEMMA SetFreeCustody ==
    ASSUME CInv, NEW t \in Thread, ReleaseSetFree(t)
    PROVE  /\ Custody'
           /\ owner' = [owner EXCEPT ![frame[t]] = "Free"]
<1>t. TypeOK /\ LockInv /\ Custody
  BY DEF IInv, CInv
<1>1. PICK f : f = frame[t]
  OBVIOUS
<1>2. pc[t] = "set_free" /\ Releasing(t) /\ f \in Frame
  BY <1>1, <1>t DEF ReleaseSetFree, Releasing, LockInv, InRelease
<1>3. /\ owner[f] = seen[t] /\ owner[f] \in Owned
      /\ \A u \in Thread : f \notin held[u]
      /\ \A u \in Thread \ {t} : Releasing(u) => frame[u] # f
  BY <1>1, <1>2, <1>t DEF Custody, Exclusive
<1>4. /\ owner' = [owner EXCEPT ![f] = "Free"] /\ pc' = [pc EXCEPT ![t] = "push"]
      /\ UNCHANGED <<pinned, mappings, held, pins, maps, frame, seen>>
  BY <1>1, <1>3 DEF ReleaseSetFree, Goto, clients
<1>5. /\ pc'[t] = "push" /\ ~Releasing(t)'
      /\ \A u \in Thread \ {t} : pc'[u] = pc[u] /\ (Releasing(u)' <=> Releasing(u))
  BY <1>4, <1>t DEF TypeOK, Releasing
<1>6. \A g \in Frame : owner'[g] = IF g = f THEN "Free" ELSE owner[g]
  BY <1>4, <1>t DEF TypeOK
<1>7. (Refs = {} => NoRefs)'
  BY <1>4, <1>5, <1>6, <1>t DEF Custody, NoRefs, InDrain
<1>8. NoPanic'
  BY <1>5, <1>t DEF Custody, NoPanic
<1>9. Exclusive'
  <2>1. \A u \in Thread : \A g \in held[u] : g # f /\ g \in Frame
    BY <1>3, <1>t DEF TypeOK
  <2>2. \A u \in Thread : Releasing(u) => frame[u] \in Frame
    BY <1>t DEF LockInv, Releasing, InRelease
  <2>. QED BY <1>3, <1>4, <1>5, <1>6, <2>1, <2>2, <1>t DEF Custody, Exclusive
<1>10. \A u \in Thread \ {t} : pc[u] \notin {"drain_pinned", "drain_mappings", "release"} \/ Refs # {}
  BY <1>t DEF Custody, NoRefs, InDrain
<1>11. Refs # {} => \A u \in Thread : u = t
  BY <1>t DEF Custody, Unshared, OneThread
<1>12. LoadsHold'
  <2>1. ASSUME NEW u \in Thread, pc'[u] \in {"drain_pinned", "drain_mappings", "release"} PROVE FALSE
    BY <1>5, <1>10, <1>11, <2>1
  <2>. QED BY <1>4, <1>5, <2>1, <1>t DEF Custody, LoadsHold
<1>13. Awaited'
  BY <1>1, <1>4, <1>5, <1>6, <1>t DEF Custody, Awaited
<1>. QED BY <1>1, <1>4, <1>7, <1>8, <1>9, <1>12, <1>13, <1>t DEF Custody, Unshared, OneThread

LEMMA SetPendingCustody ==
    ASSUME CInv, NEW t \in Thread, ReleaseSetPending(t)
    PROVE  /\ Custody'
           /\ owner' = [owner EXCEPT ![frame[t]] = "Pending"]
           /\ owner[frame[t]] \in Owned /\ frame[t] \in Frame
<1>t. TypeOK /\ LockInv /\ Custody
  BY DEF IInv, CInv
<1>1. PICK f : f = frame[t]
  OBVIOUS
<1>2. pc[t] = "set_pending" /\ Releasing(t) /\ f \in Frame
  BY <1>1, <1>t DEF ReleaseSetPending, Releasing, LockInv, InRelease
<1>3. /\ owner[f] = seen[t] /\ owner[f] \in Owned
      /\ \A u \in Thread : f \notin held[u]
      /\ pinned[f] + mappings[f] > 0
  BY <1>1, <1>2, <1>t DEF Custody, Exclusive, LoadsHold
<1>4. Refs # {} /\ \A u \in Thread : u = t
  BY <1>2, <1>t DEF Custody, NoRefs, Unshared, OneThread
<1>5. /\ owner' = [owner EXCEPT ![f] = "Pending"] /\ pc' = [pc EXCEPT ![t] = "idle"]
      /\ UNCHANGED <<pinned, mappings, held, pins, maps>>
  BY <1>1, <1>3, <1>t DEF ReleaseSetPending, Return, Goto, clients, TypeOK
<1>6. pc'[t] = "idle" /\ \A g \in Frame : owner'[g] = IF g = f THEN "Pending" ELSE owner[g]
  BY <1>5, <1>t DEF TypeOK
<1>7. NoPanic' /\ LoadsHold'
  BY <1>4, <1>6 DEF NoPanic, LoadsHold
<1>8. Exclusive'
  <2>1. \A u \in Thread : \A g \in held[u] : g # f /\ g \in Frame
    BY <1>3, <1>t DEF TypeOK
  <2>. QED BY <1>4, <1>5, <1>6, <2>1, <1>t DEF Custody, Exclusive, Releasing
<1>9. Awaited'
  BY <1>2, <1>3, <1>4, <1>5, <1>6, <1>t DEF Custody, Awaited, InDrain
<1>. QED BY <1>1, <1>2, <1>3, <1>4, <1>5, <1>7, <1>8, <1>9, <1>t DEF Custody, Unshared, OneThread

\* With one thread every other thread's conjunct is its own.
LEMMA AloneCustody ==
    ASSUME CInv, NEW t \in Thread, \A u \in Thread : u = t, Refs # {},
           NEW l, pc' = [pc EXCEPT ![t] = l], ~Releasing(t)',
           l \notin {"list_panic", "owner_panic", "release_panic"},
           UNCHANGED <<owner, held>>, LoadsHold', Awaited'
    PROVE  Custody'
<1>t. TypeOK /\ LockInv /\ Custody
  BY DEF IInv, CInv
<1>1. NoPanic'
  BY <1>t DEF NoPanic, TypeOK
<1>2. Exclusive'
  BY <1>t DEF Custody, Exclusive
<1>. QED BY <1>1, <1>2 DEF Custody, Unshared, OneThread

LEMMA DrainCustody ==
    ASSUME CInv, NEW t \in Thread, DrainIfReady(t)
    PROVE  Custody'
<1>t. TypeOK /\ LockInv /\ Custody
  BY DEF IInv, CInv
<1>1. PICK f : f = frame[t]
  OBVIOUS
<1>2. /\ pc[t] \in {"drain_owner", "drain_pinned", "drain_mappings"} /\ f \in Frame
      /\ UNCHANGED <<owner, pinned, mappings, held>>
  BY <1>1, <1>t DEF DrainIfReady, DrainLoad, LockInv, InDrain, table, clients
<1>3. Refs # {} /\ \A u \in Thread : u = t
  BY <1>2, <1>t DEF Custody, NoRefs, InDrain, Unshared, OneThread
<1>4. /\ pc[t] \in {"drain_pinned", "drain_mappings"} => owner[f] = "Pending"
      /\ pc[t] = "drain_mappings" => pinned[f] = 0
  BY <1>1, <1>t DEF Custody, LoadsHold
<1>5. PICK l : /\ pc' = [pc EXCEPT ![t] = l]
               /\ \/ l = "drain_pinned" /\ owner[f] = "Pending" /\ frame' = frame
                  \/ l = "drain_mappings" /\ owner[f] = "Pending" /\ pinned[f] = 0 /\ frame' = frame
                  \/ /\ l = "release" /\ owner[f] = "Pending" /\ pinned[f] = 0 /\ mappings[f] = 0
                     /\ frame' = frame
                  \/ l = "idle" /\ (owner[f] # "Pending" \/ pinned[f] # 0 \/ mappings[f] # 0)
  <2>1. CASE DrainLoad(t, "drain_owner", owner[frame[t]] = "Pending", "drain_pinned")
    BY <1>1, <2>1, Zenon DEF DrainLoad, Return, Goto
  <2>2. CASE DrainLoad(t, "drain_pinned", pinned[frame[t]] = 0, "drain_mappings")
    <3>1. owner[f] = "Pending"
      BY <1>4, <2>2 DEF DrainLoad
    <3>. QED BY <1>1, <2>2, <3>1, Zenon DEF DrainLoad, Return, Goto
  <2>3. CASE DrainLoad(t, "drain_mappings", mappings[frame[t]] = 0, "release")
    <3>1. owner[f] = "Pending" /\ pinned[f] = 0
      BY <1>4, <2>3 DEF DrainLoad
    <3>. QED BY <1>1, <2>3, <3>1, Zenon DEF DrainLoad, Return, Goto
  <2>. QED BY <2>1, <2>2, <2>3 DEF DrainIfReady
<1>6. pc'[t] = l /\ l \in {"drain_pinned", "drain_mappings", "release", "idle"}
  BY <1>5, <1>t DEF TypeOK
<1>7. LoadsHold'
  BY <1>1, <1>2, <1>3, <1>5, <1>6 DEF LoadsHold
<1>8. Awaited'
  <2>1. ASSUME NEW g \in Frame, owner[g] = "Pending", ~(pinned[g] + mappings[g] > 0)
        PROVE  frame'[t] = g /\ pc'[t] \in InDrain
    <3>1. g = f
      BY <1>1, <1>3, <2>1, <1>t DEF Custody, Awaited
    <3>2. pinned[g] \in Nat /\ mappings[g] \in Nat
      BY <1>t DEF TypeOK
    <3>3. pinned[g] = 0 /\ mappings[g] = 0
      BY <2>1, <3>2
    <3>. QED BY <1>1, <1>5, <1>6, <2>1, <3>1, <3>3 DEF InDrain
  <2>. QED BY <1>2, <2>1 DEF Awaited
<1>9. ~Releasing(t)'
  BY <1>6 DEF Releasing
<1>. QED BY ZenonT(40), <1>2, <1>3, <1>5, <1>6, <1>7, <1>8, <1>9, AloneCustody

LEMMA ReferenceCustody ==
    ASSUME CInv, NEW t \in Thread, References(t)
    PROVE  Custody'
<1>t. TypeOK /\ LockInv /\ Custody
  BY DEF IInv, CInv
<1>1. PICK f \in Frame : PinFrame(t, f) \/ UnpinFrame(t, f) \/ AddMapping(t, f) \/ RemoveMapping(t, f)
  BY DEF References
<1>2. pc[t] = "idle" /\ UNCHANGED <<owner, held>>
  BY <1>1 DEF PinFrame, UnpinFrame, AddMapping, RemoveMapping
<1>3. Refs # {} /\ \A u \in Thread : u = t
  BY <1>1, <1>t DEF PinFrame, UnpinFrame, AddMapping, RemoveMapping, Custody, NoRefs, Unshared, OneThread
<1>4. \A g \in Frame : owner[g] = "Pending" => pinned[g] + mappings[g] > 0
  BY <1>2, <1>3, <1>t DEF Custody, Awaited, InDrain
<1>5. \A g \in Frame : pinned[g] \in Nat /\ mappings[g] \in Nat
  BY <1>t DEF TypeOK
<1>6. PICK l : /\ pc' = [pc EXCEPT ![t] = l]
               /\ \/ /\ l = "idle"
                     /\ \A g \in Frame : pinned'[g] >= pinned[g] /\ mappings'[g] >= mappings[g]
                     /\ \A g \in Frame : pinned'[g] \in Nat /\ mappings'[g] \in Nat
                  \/ /\ l = "drain_owner" /\ frame'[t] = f
                     /\ \A g \in Frame \ {f} : pinned'[g] = pinned[g] /\ mappings'[g] = mappings[g]
  <2>1. CASE PinFrame(t, f) \/ AddMapping(t, f)
    <3>1. pc' = [pc EXCEPT ![t] = "idle"]
      BY <1>2, <2>1, <1>t DEF PinFrame, AddMapping, TypeOK
    <3>2. /\ \A g \in Frame : pinned'[g] >= pinned[g] /\ mappings'[g] >= mappings[g]
          /\ \A g \in Frame : pinned'[g] \in Nat /\ mappings'[g] \in Nat
      <4>1. \A g \in Frame : /\ pinned'[g] \in {pinned[g], pinned[g] + 1}
                             /\ mappings'[g] \in {mappings[g], mappings[g] + 1}
        BY <2>1, <1>t DEF PinFrame, AddMapping, TypeOK
      <4>. QED BY <1>5, <4>1
    <3>. QED BY ZenonT(40), <3>1, <3>2
  <2>2. CASE UnpinFrame(t, f) \/ RemoveMapping(t, f)
    <3>1. pc' = [pc EXCEPT ![t] = "drain_owner"]
      BY <2>2 DEF UnpinFrame, RemoveMapping, Goto
    <3>2. /\ frame'[t] = f
          /\ \A g \in Frame \ {f} : pinned'[g] = pinned[g] /\ mappings'[g] = mappings[g]
      BY <2>2, <1>t DEF UnpinFrame, RemoveMapping, TypeOK
    <3>. QED BY ZenonT(40), <3>1, <3>2
  <2>. QED BY <1>1, <2>1, <2>2
<1>7. pc'[t] = l /\ l \in {"idle", "drain_owner"}
  BY <1>6, <1>t DEF TypeOK
<1>8. LoadsHold' /\ ~Releasing(t)'
  BY <1>3, <1>7 DEF LoadsHold, Releasing
<1>9. Awaited'
  <2>1. ASSUME NEW g \in Frame, owner[g] = "Pending"
        PROVE  pinned'[g] + mappings'[g] > 0 \/ (frame'[t] = g /\ pc'[t] = "drain_owner")
    BY <1>4, <1>5, <1>6, <1>7, <2>1
  <2>. QED BY <1>2, <2>1 DEF Awaited, InDrain
<1>. QED BY Zenon, <1>2, <1>3, <1>6, <1>7, <1>8, <1>9, AloneCustody

LEMMA CustodyInit == Unshared /\ Init => CInv
<1> SUFFICES ASSUME Unshared, Init PROVE CInv
  OBVIOUS
<1>1. IInv
  BY InitInv
<1>2. NamedInv
  BY DEF Init, NamedInv, Named, InRelease, InDrain
<1>3. NoRefs /\ NoPanic /\ Exclusive /\ LoadsHold /\ Awaited
  BY DEF Init, NoRefs, NoPanic, Exclusive, LoadsHold, Awaited, Releasing, InDrain
<1>. QED BY <1>1, <1>2, <1>3 DEF CInv, Custody

LEMMA CustodyStep == CInv /\ [Next]_vars => CInv'
<1> SUFFICES ASSUME CInv, [Next]_vars PROVE CInv'
  OBVIOUS
<1>1. IInv'
  BY Inductive DEF CInv
<1>2. CASE Next
  <2>1. PICK t \in Thread :
             \/ \E f \in Frame : Pops(t, f) \/ ReleaseHeld(t, f) \/ Retype(t, f)
             \/ Allocating(t) \/ ReleaseDrained(t) \/ Releases(t) \/ DrainIfReady(t) \/ References(t)
    BY <1>2, NextCases DEF CInv
  <2>2. NamedInv'
    BY <1>2, NamedStep DEF CInv
  <2>3. Custody'
    BY SMTT(30), <2>1, PopCustody, RetypeCustody, AllocCustody, ReleaseCustody, ReadCustody, PushCustody,
       SetFreeCustody, SetPendingCustody, DrainCustody, ReferenceCustody DEF Releases
  <2>. QED BY <1>1, <2>2, <2>3 DEF CInv
<1>3. CASE UNCHANGED vars
  <2>1. UNCHANGED <<owner, pinned, mappings, held, pins, maps, pc, frame, seen>>
    BY <1>3 DEF vars, table, clients
  <2>2. NamedInv'
    BY <2>1 DEF CInv, NamedInv, Named
  <2>3. Custody'
    BY <2>1 DEF CInv, Custody, Unshared, OneThread, NoRefs, NoPanic, Exclusive, LoadsHold, Awaited, Releasing
  <2>. QED BY <1>1, <2>2, <2>3 DEF CInv
<1>. QED BY <1>2, <1>3

LEMMA CustodyInvariance == Unshared /\ Spec => []CInv
BY CustodyInit, CustodyStep, PTL DEF Spec

\* No assertion of the allocator fails (set_owner's transitions, release_frame's check
\* of the owner), whatever one execution context does, and with any number of them
\* as long as nobody pins or maps a frame (allocator.rs:88, 136-146, frame.rs set_owner).
THEOREM NeverPanics == Unshared /\ Spec => []NoPanic
<1>1. CInv => NoPanic
  BY DEF CInv, Custody
<1>. QED BY <1>1, CustodyInvariance, PTL

\* A Pending frame is waiting for a reference that is still there: the removal that
\* drops the last one drains it (allocator.rs:123-125, frame.rs drain_if_ready).
THEOREM PendingAwaited == Unshared /\ Spec => []PendingIsAwaited
<1>1. CInv => PendingIsAwaited
  BY DEF CInv, Custody, Awaited, PendingIsAwaited, InDrain
<1>. QED BY <1>1, CustodyInvariance, PTL

----------------------------------------------------------------------------
(* The refinement. *)

Raw == {f \in Frame : owner[f] = "Untyped"}
Limbo == {f \in Frame : owner[f] \in Owned /\ \A t \in Thread : f \notin held[t]}
RefCount == [f \in Frame |-> pinned[f] + mappings[f]]

\* A step that moves no frame between the four states and no reference stutters.
LEMMA PoolStutter ==
    ASSUME UNCHANGED held, Free' = Free, Raw' = Raw, Limbo' = Limbo, RefCount' = RefCount
    PROVE  UNCHANGED Pool!vars
BY DEF Pool!vars, Raw, Limbo, RefCount, Owned

LEMMA PoolInit == Init => Pool!Init
<1> SUFFICES ASSUME Init PROVE Pool!Init
  OBVIOUS
<1>1. Free \in SUBSET Frame /\ Raw \in SUBSET (Frame \ Free)
  BY DEF Free, Raw
<1>2. held = [t \in Thread |-> {}]
  BY DEF Init
<1>3. Limbo = {}
  BY DEF Init, Limbo, Owned
<1>4. RefCount = [f \in Frame |-> 0]
  BY DEF Init, RefCount
<1>. QED BY <1>1, <1>2, <1>3, <1>4 DEF Pool!Init, Raw, Limbo, RefCount, Owned

LEMMA PoolTake ==
    ASSUME CInv, NEW t \in Thread, NEW f \in Frame, Pops(t, f)
    PROVE  Pool!Take(t, f)
<1>1. /\ owner \in [Frame -> Owner] /\ held \in [Thread -> SUBSET Frame]
      /\ \A u \in Thread : \A g \in held[u] : owner[g] \in {"Kernel", "Domain"}
  BY DEF CInv, IInv, TypeOK, Custody, Exclusive
<1>2. /\ owner' = [owner EXCEPT ![f] = "Kernel"] /\ held' = [held EXCEPT ![t] = @ \cup {f}]
      /\ UNCHANGED <<pinned, mappings>> /\ owner[f] = "Free"
  BY DEF Pops
<1>3. f \in Free /\ Free' = Free \ {f} /\ Raw' = Raw
  BY <1>1, <1>2 DEF Free, Raw
<1>4. Limbo' = Limbo /\ RefCount' = RefCount
  BY <1>1, <1>2 DEF Limbo, RefCount, Owned
<1>. QED BY <1>2, <1>3, <1>4 DEF Pool!Take, Raw, Limbo, RefCount, Owned

LEMMA PoolRetype ==
    ASSUME CInv, NEW t \in Thread, NEW f \in Frame, Retype(t, f)
    PROVE  Pool!Retype(t, f)
<1>1. /\ owner \in [Frame -> Owner] /\ held \in [Thread -> SUBSET Frame]
      /\ \A u \in Thread : \A g \in held[u] : owner[g] \in {"Kernel", "Domain"}
  BY DEF CInv, IInv, TypeOK, Custody, Exclusive
<1>2. /\ owner' = [owner EXCEPT ![f] = "Domain"] /\ held' = [held EXCEPT ![t] = @ \cup {f}]
      /\ UNCHANGED <<pinned, mappings>> /\ owner[f] = "Untyped"
  BY DEF Retype
<1>3. f \in Raw /\ Free' = Free /\ Raw' = Raw \ {f}
  BY <1>1, <1>2 DEF Free, Raw
<1>4. Limbo' = Limbo /\ RefCount' = RefCount
  BY <1>1, <1>2 DEF Limbo, RefCount, Owned
<1>. QED BY <1>2, <1>3, <1>4 DEF Pool!Retype, Raw, Limbo, RefCount, Owned

LEMMA PoolGiveBack ==
    ASSUME CInv, NEW t \in Thread, NEW f \in Frame, ReleaseHeld(t, f)
    PROVE  Pool!GiveBack(t, f)
<1>1. /\ owner \in [Frame -> Owner] /\ held \in [Thread -> SUBSET Frame]
      /\ \A u \in Thread : \A g \in held[u] : owner[g] \in {"Kernel", "Domain"}
      /\ \A u \in Thread \ {t} : held[u] \cap held[t] = {}
  BY DEF CInv, IInv, TypeOK, Custody, Exclusive
<1>2. /\ f \in held[t] /\ held' = [held EXCEPT ![t] = @ \ {f}]
      /\ UNCHANGED <<owner, pinned, mappings>>
  BY DEF ReleaseHeld, ReleaseBegin, table
<1>3. Free' = Free /\ Raw' = Raw /\ RefCount' = RefCount
  BY <1>2 DEF Free, Raw, RefCount
<1>4. Limbo' = Limbo \cup {f}
  BY <1>1, <1>2 DEF Limbo, Owned
<1>. QED BY <1>2, <1>3, <1>4 DEF Pool!GiveBack, Raw, Limbo, RefCount, Owned

LEMMA PoolReclaim ==
    ASSUME CInv, NEW t \in Thread, ReleaseSetFree(t)
    PROVE  \E f \in Frame : Pool!Reclaim(f)
<1>1. PICK f : f = frame[t]
  OBVIOUS
<1>2. pc[t] = "set_free" /\ Releasing(t) /\ f \in Frame
  BY <1>1 DEF ReleaseSetFree, Releasing, CInv, IInv, LockInv, InRelease
<1>3. owner[f] \in Owned /\ \A u \in Thread : f \notin held[u]
  BY <1>1, <1>2 DEF CInv, Custody, Exclusive
<1>4. pinned[f] = 0 /\ mappings[f] = 0
  BY <1>1, <1>2 DEF CInv, Custody, LoadsHold
<1>5. owner' = [owner EXCEPT ![f] = "Free"] /\ UNCHANGED <<held, pinned, mappings>>
  BY <1>1, SetFreeCustody DEF ReleaseSetFree, clients
<1>6. owner \in [Frame -> Owner]
  BY DEF CInv, IInv, TypeOK
<1>7. f \in Limbo /\ RefCount[f] = 0 /\ RefCount' = RefCount
  BY <1>2, <1>3, <1>4, <1>5 DEF Limbo, RefCount
<1>8. Free' = Free \cup {f} /\ Raw' = Raw /\ Limbo' = Limbo \ {f}
  BY <1>2, <1>3, <1>5, <1>6 DEF Free, Raw, Limbo, Owned
<1>9. Pool!Reclaim(f)
  BY <1>5, <1>7, <1>8 DEF Pool!Reclaim, Raw, Limbo, RefCount, Owned
<1>. QED BY <1>2, <1>9

\* A pin or a mapping is counted.
LEMMA CountedRefs ==
    ASSUME CInv, NEW t \in Thread, NEW f \in Frame
    PROVE  /\ pinned[f] \in Nat /\ mappings[f] \in Nat
           /\ f \in pins[t] => pinned[f] > 0
           /\ f \in maps[t] => mappings[f] > 0
<1>1. /\ pinned[f] \in Nat /\ mappings[f] \in Nat
      /\ pins \in [Thread -> SUBSET Frame] /\ maps \in [Thread -> SUBSET Frame]
      /\ pinned[f] = Cardinality(Holding(pins, f)) /\ mappings[f] = Cardinality(Holding(maps, f))
  BY DEF CInv, IInv, TypeOK, RefInv
<1>2. f \in pins[t] => pinned[f] - 1 \in Nat
  BY Zenon, <1>1, HoldingRemove
<1>3. f \in maps[t] => mappings[f] - 1 \in Nat
  BY ZenonT(40), <1>1, HoldingRemove
<1>. QED BY <1>1, <1>2, <1>3

LEMMA PoolReferences ==
    ASSUME CInv, NEW t \in Thread, References(t)
    PROVE  \E f \in Frame : Pool!Ref(f) \/ Pool!Unref(f)
<1>1. PICK f \in Frame : PinFrame(t, f) \/ UnpinFrame(t, f) \/ AddMapping(t, f) \/ RemoveMapping(t, f)
  BY DEF References
<1>2. UNCHANGED <<owner, held>>
  BY <1>1 DEF PinFrame, UnpinFrame, AddMapping, RemoveMapping
<1>3. Free' = Free /\ Raw' = Raw /\ Limbo' = Limbo
  BY <1>2 DEF Free, Raw, Limbo
<1>4. pinned \in [Frame -> Nat] /\ mappings \in [Frame -> Nat]
  BY DEF CInv, IInv, TypeOK
<1>5. CASE PinFrame(t, f) \/ AddMapping(t, f)
  <2>1. /\ \A g \in Frame \ {f} : pinned'[g] = pinned[g] /\ mappings'[g] = mappings[g]
        /\ \/ pinned'[f] = pinned[f] + 1 /\ mappings'[f] = mappings[f]
           \/ pinned'[f] = pinned[f] /\ mappings'[f] = mappings[f] + 1
    BY <1>4, <1>5 DEF PinFrame, AddMapping
  <2>2. RefCount' = [RefCount EXCEPT ![f] = @ + 1]
    <3>1. /\ \A g \in Frame \ {f} : pinned'[g] + mappings'[g] = pinned[g] + mappings[g]
          /\ pinned'[f] + mappings'[f] = (pinned[f] + mappings[f]) + 1
      BY <1>4, <2>1
    <3>. QED BY ZenonT(40), <3>1 DEF RefCount
  <2>3. RefCount[f] > 0 \/ \E u \in Thread : f \in held[u]
    <3>1. MayRef(t, f)
      BY <1>5 DEF PinFrame, AddMapping
    <3>2. f \in pins[t] \cup maps[t] => pinned[f] + mappings[f] > 0
      BY <1>4, CountedRefs
    <3>. QED BY <3>1, <3>2 DEF MayRef, RefCount
  <2>4. Pool!Ref(f)
    BY <1>2, <1>3, <2>2, <2>3 DEF Pool!Ref, Raw, Limbo, RefCount, Owned
  <2>. QED BY <2>4
<1>6. CASE UnpinFrame(t, f) \/ RemoveMapping(t, f)
  <2>1. /\ \A g \in Frame \ {f} : pinned'[g] = pinned[g] /\ mappings'[g] = mappings[g]
        /\ \/ pinned'[f] = pinned[f] - 1 /\ mappings'[f] = mappings[f]
           \/ pinned'[f] = pinned[f] /\ mappings'[f] = mappings[f] - 1
    BY <1>4, <1>6 DEF UnpinFrame, RemoveMapping
  <2>2. RefCount' = [RefCount EXCEPT ![f] = @ - 1]
    <3>1. /\ \A g \in Frame \ {f} : pinned'[g] + mappings'[g] = pinned[g] + mappings[g]
          /\ pinned'[f] + mappings'[f] = (pinned[f] + mappings[f]) - 1
      BY <1>4, <2>1
    <3>. QED BY Zenon, <3>1 DEF RefCount
  <2>3. RefCount[f] > 0
    <3>1. f \in pins[t] \cup maps[t]
      BY <1>6 DEF UnpinFrame, RemoveMapping
    <3>2. pinned[f] + mappings[f] > 0
      BY <1>4, <3>1, CountedRefs
    <3>. QED BY <3>2 DEF RefCount
  <2>4. Pool!Unref(f)
    BY <1>2, <1>3, <2>2, <2>3 DEF Pool!Unref, Raw, Limbo, RefCount, Owned
  <2>. QED BY <2>4
<1>. QED BY <1>1, <1>5, <1>6

\* The steps that only the implementation has.
LEMMA PoolInternal ==
    ASSUME CInv, NEW t \in Thread,
           \/ Allocating(t) \/ ReleaseDrained(t) \/ DrainIfReady(t)
           \/ ReleaseReadPinned(t) \/ ReleaseReadMappings(t) \/ ReleaseSetPending(t) \/ ReleasePush(t)
    PROVE  UNCHANGED Pool!vars
<1>1. UNCHANGED <<held, pinned, mappings>>
  BY DEF Allocating, ReleaseDrained, ReleaseBegin, DrainIfReady, DrainLoad, ReleaseReadPinned,
         ReleaseReadMappings, ReleaseSetPending, ReleasePush, table, clients
<1>2. CASE ReleaseSetPending(t)
  <2>1. /\ owner' = [owner EXCEPT ![frame[t]] = "Pending"]
        /\ owner[frame[t]] \in Owned /\ frame[t] \in Frame
    BY <1>2, SetPendingCustody
  <2>2. owner \in [Frame -> Owner]
    BY DEF CInv, IInv, TypeOK
  <2>3. Free' = Free /\ Raw' = Raw /\ Limbo' = Limbo
    BY <1>1, <2>1, <2>2 DEF Free, Raw, Limbo, Owned
  <2>. QED BY <1>1, <2>3, PoolStutter DEF RefCount
<1>3. CASE ~ReleaseSetPending(t)
  <2>1. UNCHANGED owner
    BY ZenonT(40), <1>3 DEF Allocating, ReleaseDrained, ReleaseBegin, DrainIfReady, DrainLoad, ReleaseReadPinned,
         ReleaseReadMappings, ReleasePush, table
  <2>2. Free' = Free /\ Raw' = Raw /\ Limbo' = Limbo /\ RefCount' = RefCount
    BY Zenon, <1>1, <2>1 DEF Free, Raw, Limbo, RefCount
  <2>. QED BY <1>1, <2>2, PoolStutter
<1>. QED BY <1>2, <1>3

\* Frames are uniquely owned, and one becomes free again only without pins and mappings:
\* with one execution context, or any number of them that take no references, every
\* behaviour of the allocator is a behaviour of FramePool (lib.rs:26-30).
THEOREM ImplementsFramePool == Unshared /\ Spec => ImplementsPool
<1>1. CInv /\ [Next]_vars => [Pool!Next]_(Pool!vars)
  <2> SUFFICES ASSUME CInv, [Next]_vars PROVE [Pool!Next]_(Pool!vars)
    OBVIOUS
  <2>1. CASE Next
    <3>1. PICK t \in Thread :
             \/ \E f \in Frame : Pops(t, f) \/ ReleaseHeld(t, f) \/ Retype(t, f)
             \/ Allocating(t) \/ ReleaseDrained(t) \/ Releases(t) \/ DrainIfReady(t) \/ References(t)
      BY <2>1, NextCases DEF CInv
    <3>2. ASSUME NEW f \in Frame, Pops(t, f) \/ ReleaseHeld(t, f) \/ Retype(t, f) PROVE Pool!Next
      BY <3>2, PoolTake, PoolRetype, PoolGiveBack DEF Pool!Next
    <3>3. ASSUME ReleaseSetFree(t) PROVE Pool!Next
      BY SMTT(30), <3>3, PoolReclaim DEF Pool!Next
    <3>4. ASSUME References(t) PROVE Pool!Next
      BY <3>4, PoolReferences DEF Pool!Next
    <3>. QED BY <3>1, <3>2, <3>3, <3>4, PoolInternal DEF Releases
  <2>2. CASE UNCHANGED vars
    <3>1. UNCHANGED <<owner, held, pinned, mappings>>
      BY <2>2 DEF vars, table, clients
    <3>2. Free' = Free /\ Raw' = Raw /\ Limbo' = Limbo /\ RefCount' = RefCount
      BY <3>1 DEF Free, Raw, Limbo, RefCount
    <3>. QED BY <3>1, <3>2, PoolStutter
  <2>. QED BY <2>1, <2>2
<1>. QED BY <1>1, PoolInit, CustodyInvariance, PTL DEF Spec, ImplementsPool, Pool!Spec
=============================================================================
