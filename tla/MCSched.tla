------------------------------ MODULE MCSched ------------------------------
(* The scheduler on a small process table. *)
EXTENDS Sched
=============================================================================
