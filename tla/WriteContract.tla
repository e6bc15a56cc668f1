--------------------------- MODULE WriteContract ---------------------------
(***************************************************************************)
(* What the single-writer queue promises its callers, with no channel, no  *)
(* transactions and no failure handling: requests are served one at a      *)
(* time; only the request in service changes the database, and only until  *)
(* it is answered; every answer is given once and is true of the database. *)
(***************************************************************************)
CONSTANTS Req, NoReq, Untouched, RolledBack, Vague

VARIABLES
    serving,    \* the request in service
    told,       \* the answer each request was given
    db          \* how much of each request's writes the database holds

vars == <<serving, told, db>>

Init ==
    /\ serving = NoReq
    /\ told = [r \in Req |-> "none"]
    /\ db = [r \in Req |-> "none"]

\* Take a request that has not been answered into service.
Serve(r) ==
    /\ serving = NoReq
    /\ told[r] = "none"
    /\ serving' = r
    /\ UNCHANGED <<told, db>>

\* The request in service changes what the database holds of it.
Write(r) ==
    /\ serving = r
    /\ told[r] = "none"
    /\ \E part \in {"none", "some", "all"} : db' = [db EXCEPT ![r] = part]
    /\ UNCHANGED <<serving, told>>

\* Tell a caller that nothing happened.
Refuse(r) ==
    /\ told[r] = "none"
    /\ db[r] = "none"
    /\ \E answer \in Untouched \cup RolledBack : told' = [told EXCEPT ![r] = answer]
    /\ UNCHANGED <<serving, db>>

\* Tell the caller in service that all of its writes are there.
Confirm(r) ==
    /\ serving = r
    /\ told[r] = "none"
    /\ db[r] = "all"
    /\ told' = [told EXCEPT ![r] = "Ok"]
    /\ UNCHANGED <<serving, db>>

\* Tell the caller in service something that promises nothing.
Shrug(r) ==
    /\ serving = r
    /\ told[r] = "none"
    /\ \E answer \in Vague : told' = [told EXCEPT ![r] = answer]
    /\ UNCHANGED <<serving, db>>

\* Service ends only after the answer.
Finish(r) ==
    /\ serving = r
    /\ told[r] # "none"
    /\ serving' = NoReq
    /\ UNCHANGED <<told, db>>

Next == \E r \in Req :
    Serve(r) \/ Write(r) \/ Refuse(r) \/ Confirm(r) \/ Shrug(r) \/ Finish(r)

Spec == Init /\ [][Next]_vars
=============================================================================
