----------------------------- MODULE CharQueue -----------------------------
(***************************************************************************)
(* What the keyboard driver promises its consumer: characters come out in  *)
(* the order they were typed, none twice; one that finds the queue full is *)
(* dropped.                                                                *)
(***************************************************************************)
EXTENDS Sequences, Naturals

CONSTANTS Char, CAPACITY

VARIABLES
    queue,      \* typed and not yet read
    last        \* the character read last

Init == queue = <<>> /\ last \notin Char

Put(c) == Len(queue) < CAPACITY /\ queue' = Append(queue, c) /\ UNCHANGED last

Get == queue # <<>> /\ last' = Head(queue) /\ queue' = Tail(queue)

Next == Get \/ \E c \in Char : Put(c)

Spec == Init /\ [][Next]_<<queue, last>>
=============================================================================
