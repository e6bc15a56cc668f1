----------------------- MODULE MCBackgroundAdmission ------------------------
(***************************************************************************)
(* One permit and two jobs.  The first does all a job can do; the second   *)
(* is there to wait for its permit, to be admitted after or instead of it, *)
(* and to be caught by a close at any moment, so it has a body that starts *)
(* and ends and nothing else, and comes second.                            *)
(***************************************************************************)
EXTENDS BackgroundAdmission

CONSTANTS first, second

OneClass == [j \in Job |-> "warm"]
OnePermit == [c \in Class |-> 1]

SecondIsPlain ==
    /\ child'[second] = "none" /\ final'[second] = 0 /\ ~requested'[second]
    /\ sup'[second] # "select"
    /\ sup'[second] # "none" => caller'[second] # "holding"
    /\ caller'[second] # "new" => caller'[first] # "new"

PlainSpec == Init /\ [][Next /\ SecondIsPlain]_vars /\ Fairness
=============================================================================
