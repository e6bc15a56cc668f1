--------------------------- MODULE MCBlobUploads ----------------------------
(***************************************************************************)
(* One process takes two uploads, of different actors, one at a time       *)
(* because only one may be active; another process sweeps the same root.   *)
(* The second upload is there for the slots, which the two share: it       *)
(* begins when no file of the first is there, which may be before it was   *)
(* created, and sends no part. The ceiling per actor cannot bind here; the *)
(* theorem on the slots is about every number of uploads per actor.        *)
(***************************************************************************)
EXTENDS BlobUploads

CONSTANTS u1, u2, p1, p2, a1, a2

HostDef == [u \in Upload |-> p1]
OwnerDef == [u \in Upload |-> IF u = u1 THEN a1 ELSE a2]

SecondBegins == phase[u2] = "new" /\ phase'[u2] # "new"

NextWithSecond ==
    /\ Next
    /\ SecondBegins => phase[u1] # "new" /\ staged[u1] = None /\ lease[u1] = None
    /\ op'[u2].job # "append"

ReducedSpec == Init /\ [][NextWithSecond]_vars /\ Fairness
=============================================================================
