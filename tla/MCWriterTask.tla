---------------------------- MODULE MCWriterTask ----------------------------
(* Small instances of WriterTask for TLC. *)
EXTENDS WriterTask

\* A request's identity is never compared except for equality.
ReqSymmetry == Permutations(Req)
=============================================================================
