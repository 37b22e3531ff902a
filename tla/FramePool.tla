----------------------------- MODULE FramePool -----------------------------
(***************************************************************************)
(* What the physical memory manager promises (kernel/src/lib.rs:16-30): a  *)
(* frame is free, or has one holder, or has been given back and waits for  *)
(* its references to go; it becomes free again only without references.    *)
(***************************************************************************)
EXTENDS Naturals

CONSTANTS Client, Frame

VARIABLES
    free,       \* frames that may be handed out
    raw,        \* frames of untyped regions, not yet retyped
    held,       \* per client: the frames it owns
    limbo,      \* frames given back, not yet free
    refs        \* per frame: the pins and mappings on it

vars == <<free, raw, held, limbo, refs>>

Init ==
    /\ free \in SUBSET Frame
    /\ raw \in SUBSET (Frame \ free)
    /\ held = [c \in Client |-> {}]
    /\ limbo = {}
    /\ refs = [f \in Frame |-> 0]

Take(c, f) ==
    /\ f \in free
    /\ free' = free \ {f}
    /\ held' = [held EXCEPT ![c] = @ \cup {f}]
    /\ UNCHANGED <<raw, limbo, refs>>

Retype(c, f) ==
    /\ f \in raw
    /\ raw' = raw \ {f}
    /\ held' = [held EXCEPT ![c] = @ \cup {f}]
    /\ UNCHANGED <<free, limbo, refs>>

GiveBack(c, f) ==
    /\ f \in held[c]
    /\ held' = [held EXCEPT ![c] = @ \ {f}]
    /\ limbo' = limbo \cup {f}
    /\ UNCHANGED <<free, raw, refs>>

Reclaim(f) ==
    /\ f \in limbo
    /\ refs[f] = 0
    /\ limbo' = limbo \ {f}
    /\ free' = free \cup {f}
    /\ UNCHANGED <<raw, held, refs>>

\* A reference is taken on a frame that has a holder or a reference already.
Ref(f) ==
    /\ refs[f] > 0 \/ \E c \in Client : f \in held[c]
    /\ refs' = [refs EXCEPT ![f] = @ + 1]
    /\ UNCHANGED <<free, raw, held, limbo>>

Unref(f) ==
    /\ refs[f] > 0
    /\ refs' = [refs EXCEPT ![f] = @ - 1]
    /\ UNCHANGED <<free, raw, held, limbo>>

Next ==
    \E f \in Frame :
        \/ \E c \in Client : Take(c, f) \/ Retype(c, f) \/ GiveBack(c, f)
        \/ Reclaim(f) \/ Ref(f) \/ Unref(f)

Spec == Init /\ [][Next]_vars
=============================================================================
