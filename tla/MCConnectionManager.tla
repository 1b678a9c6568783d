-------------------------- MODULE MCConnectionManager --------------------------
(* ConnectionManager for TLC: the sets are given in the configurations. *)
EXTENDS ConnectionManager
=============================================================================
