------------------------------- MODULE MCBoot -------------------------------
(* Every order of up to three entries of an e820-like map over 52 bytes in   *)
(* frames of 4, and maps the loader cuts short.                             *)
EXTENDS Boot

Entry(start, len, usable) == [start |-> start, len |-> len, usable |-> usable, malformed |-> FALSE]
Broken == [Entry(8, 40, TRUE) EXCEPT !.malformed = TRUE]

Entries == {
    Entry(0, 7, TRUE), Entry(0, 20, TRUE),          \* low memory, and past its end
    Entry(8, 24, TRUE), Entry(8, 40, TRUE),         \* main memory up to a hole, or all
    Entry(10, 27, TRUE),                            \* ends within frames
    Entry(16, 12, TRUE), Entry(28, 20, TRUE),       \* overlap the others
    Entry(32, 16, TRUE), Entry(21, 5, TRUE),        \* high memory; no whole frame
    Entry(40, 12, TRUE),                            \* up to the last frame index
    Entry(44, 60, TRUE),                            \* past the address space
    Entry(0, 8, FALSE), Entry(36, 4, FALSE) }       \* reserved, on its own or inside

Maps == {m \in UNION {[1 .. n -> Entries] : n \in 1 .. 3} : \A i, j \in DOMAIN m : i # j => m[i] # m[j]}
Cut == {<<Broken>>, <<Entry(32, 16, TRUE), Broken>>, <<Entry(0, 8, FALSE), Broken>>,
        <<Entry(0, 8, FALSE), Entry(0, 7, TRUE), Entry(36, 4, FALSE), Entry(8, 40, TRUE)>>}

Reports == [mmap : Maps \cup Cut, mem_upper : {0, 36}]
\* Low in RAM, in its middle, and at its top.
Links == {Span(8, 12), Span(17, 22), Span(34, 46)}
=============================================================================
