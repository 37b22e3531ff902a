------------------------------- MODULE MCPmm -------------------------------
(* Instances of Pmm for TLC: every thread on CPU 0, as current_cpu() says. *)
EXTENDS Pmm, TLC

CPU0 == [t \in Thread |-> 0]
Symmetry == Permutations(Thread)
=============================================================================
