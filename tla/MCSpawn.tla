------------------------------ MODULE MCSpawn ------------------------------
(* Instances of Spawn for TLC. *)
EXTENDS Spawn
=============================================================================
