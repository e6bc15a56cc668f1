---------------------------- MODULE MCReaderPool ----------------------------
(***************************************************************************)
(* Two permits; three ordinary reads and two explicit transactions; two    *)
(* replacement connections, so that a refill can also fail for good.       *)
(***************************************************************************)
EXTENDS ReaderPool, TLC

CONSTANTS c1, c2

TwoReaders == <<c1, c2>>

Symmetry == Permutations(Thread) \cup Permutations(Span)
=============================================================================
