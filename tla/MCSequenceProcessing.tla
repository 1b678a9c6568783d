------------------------- MODULE MCSequenceProcessing -------------------------
(***************************************************************************)
(* SequenceProcessing for TLC: the codes are model values.                 *)
(***************************************************************************)
EXTENDS SequenceProcessing

CONSTANTS a, b
=============================================================================
