---------------------------- MODULE MCProposals -----------------------------
(***************************************************************************)
(* One proposal of each kind and proposer in turn, since proposals share   *)
(* no state, and requests that differ only in what they choose to do.      *)
(***************************************************************************)
EXTENDS Proposals

\* Requests begin in the order of their numbers.
Started(r) == req'[r].at # "idle"
NextInOrder == Next /\ \A r \in Request : Started(r) => \A q \in 1 .. r - 1 : Started(q)

OrderedSpec == Init /\ [][NextInOrder]_vars /\ Fairness
=============================================================================
