--------------------------- MODULE MCLocalInputs ---------------------------
(***************************************************************************)
(* Instances of LocalInputs: one panel, or the two panels of which the     *)
(* second lies across both registers, and the IR button; a counter of five *)
(* values, so that a held button wraps it.                                 *)
(***************************************************************************)
EXTENDS LocalInputs
=============================================================================
