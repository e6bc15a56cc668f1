------------------------------ MODULE MCOutbox ------------------------------
(***************************************************************************)
(* One message and two daemons, the newer of which sends from another      *)
(* domain and verifies the older one's too, as when a mailbox moves.       *)
(***************************************************************************)
EXTENDS Outbox

CONSTANTS old, new, before, after

CurrentDef == [w \in Worker |-> IF w = old THEN before ELSE after]
KnownDef == [w \in Worker |-> IF w = old THEN {before} ELSE {before, after}]
=============================================================================
