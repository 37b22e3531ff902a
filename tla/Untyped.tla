------------------------------ MODULE Untyped ------------------------------
(***************************************************************************)
(* Untyped regions (kernel/src/untyped.rs): threads retype frames of a     *)
(* region through capabilities that share it, and split capabilities.      *)
(* Each atomic access of retype_frame is a step: the cursor, the owner     *)
(* word, the compare-exchange, the cursor again.                           *)
(***************************************************************************)
EXTENDS Integers, Sequences

CONSTANTS
    Thread,
    Regions,    \* the regions carved at boot, in the order of their ids: [base, num]
    NumFrames,
    COUNT_MOD,  \* 2^32: num_frames is a u32
    MAX_CAPS    \* bound: capabilities that exist at once

Frame == 0 .. NumFrames - 1
Ids == DOMAIN Regions
Span(c) == c.base .. c.base + c.num - 1

ASSUME UntypedConstants ==
    /\ NumFrames \in Nat /\ MAX_CAPS \in Nat /\ COUNT_MOD \in Nat /\ COUNT_MOD > NumFrames
    /\ Regions \in Seq([base : Nat, num : Nat \ {0}]) /\ Len(Regions) <= MAX_CAPS
    /\ \A r \in Ids : Span(Regions[r]) \subseteq Frame
    /\ \A r, s \in Ids : r # s => Span(Regions[r]) \cap Span(Regions[s]) = {}

VARIABLES
    owner,      \* per frame: the region id while it is Untyped(id), 0 otherwise
    caps,       \* every UntypedCap: its region, range and cursor
    pc, cap, idx, tried,    \* per thread: retype_frame's locals
    got         \* per thread: the frames it retyped

locals == <<cap, idx, tried>>
vars == <<owner, caps, pc, locals, got>>

NewCap(r, b, n) == [id |-> r, base |-> b, num |-> n, cursor |-> b]

\* carve_untyped_region stamped the frames; one capability per region exists.
Init ==
    /\ owner = [f \in Frame |-> IF \E r \in Ids : f \in Span(Regions[r])
                                THEN CHOOSE r \in Ids : f \in Span(Regions[r]) ELSE 0]
    /\ caps = [r \in Ids |-> NewCap(r, Regions[r].base, Regions[r].num)]
    /\ pc = [t \in Thread |-> "idle"]
    /\ cap = [t \in Thread |-> 0]
    /\ idx = [t \in Thread |-> 0]
    /\ tried = [t \in Thread |-> 0]
    /\ got = [t \in Thread |-> {}]

Goto(t, label) == pc' = [pc EXCEPT ![t] = label]
Return(t) ==
    /\ Goto(t, "idle")
    /\ cap' = [cap EXCEPT ![t] = 0] /\ idx' = [idx EXCEPT ![t] = 0] /\ tried' = [tried EXCEPT ![t] = 0]

----------------------------------------------------------------------------
\* UntypedCap::split after `n' frames, cut to 32 bits before the comparison; the
\* capability itself stays usable.
Split(c, n) ==
    LET k == caps[c]
        split_frames == n % COUNT_MOD
    IN  /\ Len(caps) + 2 <= MAX_CAPS
        /\ n > 0 /\ split_frames < k.num
        /\ caps' = caps \o <<NewCap(k.id, k.base, split_frames),
                             NewCap(k.id, k.base + split_frames, k.num - split_frames)>>
        /\ UNCHANGED <<owner, pc, locals, got>>

\* retype_frame: load the cursor.
RetypeBegin(t, c) ==
    /\ pc[t] = "idle"
    /\ cap' = [cap EXCEPT ![t] = c]
    /\ idx' = [idx EXCEPT ![t] = caps[c].cursor]
    /\ tried' = [tried EXCEPT ![t] = 0]
    /\ Goto(t, "look")
    /\ UNCHANGED <<owner, caps, got>>

\* The scan goes on at the base when it has reached the end.
Wrap(c, i) == IF i >= c.base + c.num THEN c.base ELSE i

\* Mutant: the last frame is not tried.
UntriedShort(t) == tried[t] < caps[cap[t]].num - 1
Untried(t) == tried[t] < caps[cap[t]].num

\* The frame is not to be had: on to the next one.
Skip(t, i) ==
    /\ Goto(t, "look")
    /\ idx' = [idx EXCEPT ![t] = i + 1]
    /\ tried' = [tried EXCEPT ![t] = @ + 1]
    /\ UNCHANGED cap

\* One round of the loop up to the compare-exchange.  The tag and the id are two
\* loads of one word; if it changes between them the compare-exchange fails.
RetypeLook(t) ==
    LET c == caps[cap[t]]
        i == Wrap(c, idx[t])
    IN  /\ pc[t] = "look"
        /\ Untried(t)
        /\ IF owner[i] = c.id
           THEN /\ Goto(t, "cas")
                /\ idx' = [idx EXCEPT ![t] = i]
                /\ UNCHANGED <<cap, tried>>
           ELSE Skip(t, i)
        /\ UNCHANGED <<owner, caps, got>>

\* Mutant: a plain store.
CasBlind(t) == TRUE

\* try_set_owner(Untyped(id) -> Domain) succeeds.
Cas(t) == owner[idx[t]] = caps[cap[t]].id

RetypeCas(t) ==
    /\ pc[t] = "cas"
    /\ IF Cas(t)
       THEN /\ owner' = [owner EXCEPT ![idx[t]] = 0]
            /\ got' = [got EXCEPT ![t] = @ \cup {idx[t]}]
            /\ Goto(t, "store")
            /\ UNCHANGED locals
       ELSE Skip(t, idx[t]) /\ UNCHANGED <<owner, got>>
    /\ UNCHANGED caps

RetypeStore(t) ==
    /\ pc[t] = "store"
    /\ caps' = [caps EXCEPT ![cap[t]].cursor = idx[t] + 1]
    /\ Return(t)
    /\ UNCHANGED <<owner, got>>

\* Mutant: the search starts over when it has failed.
RetypeForever(t) ==
    /\ pc[t] = "look" /\ ~Untried(t)
    /\ tried' = [tried EXCEPT ![t] = 0]
    /\ UNCHANGED <<owner, caps, pc, cap, idx, got>>

\* Err(Exhausted)
RetypeExhausted(t) ==
    /\ pc[t] = "look"
    /\ ~Untried(t)
    /\ Return(t)
    /\ UNCHANGED <<owner, caps, got>>

Step(t) == RetypeLook(t) \/ RetypeCas(t) \/ RetypeStore(t) \/ RetypeExhausted(t)

Next ==
    \/ \E t \in Thread : Step(t) \/ \E c \in 1 .. Len(caps) : RetypeBegin(t, c)
    \/ \E c \in 1 .. Len(caps) : \E n \in 1 .. COUNT_MOD : Split(c, n)

Spec == Init /\ [][Next]_vars

\* A thread inside retype_frame keeps running.
FairSpec == Spec /\ \A t \in Thread : WF_vars(Step(t))

----------------------------------------------------------------------------
(* Properties *)

TypeOK ==
    /\ owner \in [Frame -> Ids \cup {0}]
    /\ Len(caps) <= MAX_CAPS
    /\ \A c \in 1 .. Len(caps) : /\ caps[c].id \in Ids /\ caps[c].num \in 0 .. COUNT_MOD - 1
                                 /\ Span(caps[c]) \subseteq Span(Regions[caps[c].id])
                                 /\ caps[c].cursor \in caps[c].base .. caps[c].base + caps[c].num
    /\ pc \in [Thread -> {"idle", "look", "cas", "store"}]
    /\ cap \in [Thread -> 0 .. Len(caps)]
    /\ idx \in [Thread -> 0 .. NumFrames] /\ tried \in [Thread -> 0 .. NumFrames]
    /\ got \in [Thread -> SUBSET Frame]

\* Each frame is retyped at most once, through whichever of the overlapping
\* capabilities, and stops being raw with it: "only one CAS per frame succeeds"
\* (untyped.rs:81-84).
RetypedOnce ==
    /\ \A t, u \in Thread : t # u => got[t] \cap got[u] = {}
    /\ \A t \in Thread : \A f \in got[t] : owner[f] = 0

\* Exhausted is the truth: whatever other threads did to the cursor and to the
\* frames during the search, none of the capability's frames is left
\* (untyped.rs:75-76, "The region has no remaining untaken frames").
ExhaustedIsTrue ==
    [][\A t \in Thread : pc[t] = "look" /\ pc'[t] = "idle" =>
         \A f \in Span(caps[cap[t]]) : owner[f] # caps[cap[t]].id]_vars

\* Every retype_frame returns (the loop is bounded, whatever others do).
RetypeReturns == \A t \in Thread : pc[t] # "idle" ~> pc[t] = "idle"

\* The capabilities stay inside their regions, also when split truncates a count, and
\* no frame is retyped twice (untyped.rs:61-70, untyped.rs:81-84).
CapsSound == TypeOK /\ RetypedOnce
=============================================================================
