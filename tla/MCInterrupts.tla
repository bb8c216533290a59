---------------------------- MODULE MCInterrupts ----------------------------
(***************************************************************************)
(* Interrupts for TLC: the timer, the first and the last line of the       *)
(* second controller, exceptions with and without an error code.           *)
(***************************************************************************)
EXTENDS Interrupts

MCDevices == {8, 15}
MCExceptions == {2, 14, 17}
=============================================================================
