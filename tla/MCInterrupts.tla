---------------------------- MODULE MCInterrupts ----------------------------
(* A keyboard with up to three bytes to send, and a timer demo of two ticks. *)
EXTENDS Interrupts
=============================================================================
