---------------------------- MODULE MCInterrupts ----------------------------
(* Instance of Interrupts for TLC: the four lines set_idt has a gate for.   *)
EXTENDS Interrupts
=============================================================================
