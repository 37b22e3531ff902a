---------------------------- MODULE AddressSpace ----------------------------
(***************************************************************************)
(* What the kernel's page tables promise: a partial function from pages to *)
(* frames, and for each page whether ring 3 may use it.  An operation that *)
(* answers an error has changed nothing.                                   *)
(***************************************************************************)
EXTENDS Naturals, Functions

CONSTANTS
    Page,       \* the virtual pages
    Frame,      \* the physical frames
    Windows     \* the pages mapped from the start, and where to

VARIABLE space  \* page -> [frame, user]

Init == space = << >>

\* The windows appear all at once, or the kernel does not come up.
Build == space = << >> /\ space' = Windows

\* One new page, with a frame and rights; the others keep theirs.
Map(p) ==
    /\ p \notin DOMAIN space
    /\ DOMAIN space' = DOMAIN space \cup {p}
    /\ space'[p] \in [frame : Frame, user : BOOLEAN]
    /\ Restrict(space', DOMAIN space) = space

\* A page of a window cannot be removed.
Unmap(p) ==
    /\ p \in DOMAIN space \ DOMAIN Windows
    /\ space' = Restrict(space, DOMAIN space \ {p})

Next == Build \/ \E p \in Page : Map(p) \/ Unmap(p)

Spec == Init /\ [][Next]_space
=============================================================================
