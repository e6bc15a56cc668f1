--------------------------- MODULE MCDirectWriter ---------------------------
(***************************************************************************)
(* Three units of every combination of kinds: a holder, one that waits for *)
(* the lease or the mutex behind it, and one that arrives at any time.     *)
(***************************************************************************)
EXTENDS DirectWriter

CONSTANTS u1, u2, u3

Order == <<"pooledTxn", "pooledScript", "ownTxn", "ownScript", "guest">>
Rank(u) == CHOOSE i \in DOMAIN Order : Order[i] = kind[u]

\* Units differ in nothing but their kind, so it is enough to look at sorted
\* assignments of kinds.  Unlike a symmetry set this is sound for liveness.
SortedInit == Init /\ Rank(u1) <= Rank(u2) /\ Rank(u2) <= Rank(u3)
SortedSpec == SortedInit /\ [][Next]_vars /\ Fairness
=============================================================================
