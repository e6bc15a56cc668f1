--------------------------- MODULE MCVolumeLease ---------------------------
(* Small instances of VolumeLease for TLC: thread names carry the process.  *)
EXTENDS VolumeLease

CONSTANTS a1, a2, a3, b1, P, Q

\* Three threads of one process and one of another.
TwoProcesses == [t \in Thread |-> IF t = b1 THEN Q ELSE P]
=============================================================================
