-------------------------- MODULE MCCheckpointGate --------------------------
(***************************************************************************)
(* Three claimers, so that a claim can be joined, fail, and be taken over; *)
(* the writer task's open and another.                                     *)
(***************************************************************************)
EXTENDS CheckpointGate
=============================================================================
