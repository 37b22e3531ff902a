----------------------------- MODULE MCUntyped -----------------------------
(* Instances of Untyped for TLC: two regions side by side. *)
EXTENDS Untyped

TwoRegions == <<[base |-> 1, num |-> 3], [base |-> 4, num |-> 1]>>
=============================================================================
