---------------------------- MODULE MCAuditBatch ----------------------------
(***************************************************************************)
(* Three rows, numbered by arrival: one in an append that hangs, one in    *)
(* the next generation or shed by it, one that meets a full queue, a       *)
(* closing batch or a supervisor on its way out.  Fixing the order of      *)
(* arrival loses nothing, since rows differ in nothing else, except that   *)
(* the conflicting row is always the second.                               *)
(***************************************************************************)
EXTENDS AuditBatch

CONSTANTS r1, r2, r3

InOrder(first, second) == caller'[second] # "idle" => caller'[first] # "idle"

NextInOrder == Next /\ InOrder(r1, r2) /\ InOrder(r2, r3)

OrderedSpec == Init /\ [][NextInOrder]_vars /\ Fairness
=============================================================================
