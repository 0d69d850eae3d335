----------------------------- MODULE MCIrRelay -----------------------------
(***************************************************************************)
(* Instances of IrRelay: the boot call and up to three presses of the IR   *)
(* button, pulses of two ticks so that tasks can start half way through    *)
(* each other's pulses and rests.                                          *)
(***************************************************************************)
EXTENDS IrRelay
=============================================================================
