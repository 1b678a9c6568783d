-------------------------- MODULE MCSequenceTransfer --------------------------
(* Instances of SequenceTransfer for TLC. *)
EXTENDS SequenceTransfer
=============================================================================
