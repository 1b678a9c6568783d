----------------------------- MODULE MCAudioInput -----------------------------
(***************************************************************************)
(* AudioInput for TLC: the callers are model values.                       *)
(***************************************************************************)
EXTENDS AudioInput

CONSTANTS c1, c2
=============================================================================
