------------------------------- MODULE Chains -------------------------------
(***************************************************************************)
(* Linked lists threaded through their own elements, as the free lists are *)
(* threaded through the free frames (allocator.rs list_next, list_set).    *)
(* A rank `pos' witnesses that the links form a chain.                     *)
(***************************************************************************)
EXTENDS Integers

\* The elements of `at' are a chain of n: the head has position n, a link leads
\* to the next lower position, every position from n down to 1 is taken once.
\* Where the last element points is left open.
IsChain(at, pos, next, head, n) ==
    /\ \A f \in at : pos[f] \in 1 .. n
    /\ \A k \in 1 .. n : \E f \in at : pos[f] = k
    /\ \A f, g \in at : pos[f] = pos[g] => f = g
    /\ n # 0 => head \in at /\ pos[head] = n
    /\ \A f \in at : pos[f] > 1 => next[f] \in at /\ pos[next[f]] = pos[f] - 1

\* A chain whose last link, or whose head when it is empty, is `end'.
IsList(at, pos, next, head, n, end) ==
    /\ IsChain(at, pos, next, head, n)
    /\ n = 0 => head = end
    /\ \A f \in at : pos[f] = 1 => next[f] = end
=============================================================================
