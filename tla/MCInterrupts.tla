---------------------------- MODULE MCInterrupts ----------------------------
(* The instance of Interrupts for TLC: every constant is given in the cfg. *)
EXTENDS Interrupts, TLC
=============================================================================
