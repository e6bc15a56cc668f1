----------------------------- MODULE AuditBatch -----------------------------
(***************************************************************************)
(* The audit batch of khive-runtime (audit_batch.rs).  Callers hand rows   *)
(* to a queue; a supervisor task, spawned when a row arrives and none is   *)
(* running, takes them in generations and appends each generation to the   *)
(* event store in a child task that retries.  The supervisor bounds its    *)
(* wait: a child that takes too long is abandoned to a reaper and goes on  *)
(* by itself, and with too many of those the next generations are shed.    *)
(* A child that panics or is cancelled, or a supervisor that is, fails the *)
(* whole batch for good.                                                   *)
(*                                                                         *)
(* The store may keep an append forever.  One that answers with an error   *)
(* may have landed, or may still land later (the events daemon goes on     *)
(* with a request its client gave up on).                                  *)
(*                                                                         *)
(* A caller whose own deadline expires goes away and changes nothing: its  *)
(* row stays where the driver has it, so there is no action for it.  The   *)
(* health counters, which nothing reads back, are left out.                *)
(***************************************************************************)
EXTENDS Naturals, Sequences, FiniteSets

CONSTANTS
    Row,           \* the rows, each submitted at most once
    Foreign,       \* those whose id the store holds with other content
    Closer,        \* the callers of close_and_drain and of the physical close
    MaxPending,    \* max_pending_rows
    MaxRows,       \* max_rows_per_generation
    MaxAttempts,   \* max_commit_attempts
    MaxAbandoned   \* max_abandoned_appends

ASSUME RowAssumption == IsFiniteSet(Row) /\ Foreign \subseteq Row
ASSUME ConfigAssumption == {MaxPending, MaxRows, MaxAttempts, MaxAbandoned} \subseteq Nat \ {0}

VARIABLES
    lifecycle,     \* Open, Closing, Closed or Failed
    pending,       \* the queue
    active,        \* driver_active
    inFlight,      \* in_flight_generation is set
    outstanding,   \* outstanding_abandoned_appends
    physical,      \* physical_reservations, with the witnesses of the tasks
    caller,        \* where the submission of each row is
    answer,        \* what the responder of a row was sent
    sup,           \* what the supervisor is doing
    hand,          \* the rows it took
    verdict,       \* what it is about to answer them
    exiting,       \* how many supervisors left their loop and not yet their task
    handle,        \* the supervisor's JoinHandle is there to be taken
    appends,       \* the children whose result nobody took yet
    closer, style, closed,  \* each closer's place, its kind and its result
    stored,        \* the rows in the store
    adrift         \* the generations of failed appends that may yet land

queueVars == <<lifecycle, pending, active, inFlight, outstanding, physical>>
rowVars == <<caller, answer>>
supVars == <<sup, hand, verdict, exiting, handle>>
closeVars == <<closer, style, closed>>
storeVars == <<stored, adrift>>
vars == <<queueVars, rowVars, supVars, appends, closeVars, storeVars>>

\* StoreFailure stands for RetryExhausted and IdempotencyUnsupported too, and
\* DriverFailed for a driver that panicked, was cancelled or was inconsistent.
Outcomes == {"Committed", "StoreFailure", "DriverFailed"}
Verdicts == Outcomes \cup {"DriverAppendAbandoned", "StoreWedged"}
Answers == (Verdicts \ {"Committed"}) \cup {"Ok", "IdentityConflict"}

\* owner: who waits for the child, the supervisor, a reaper or nobody.
Appending == [rows : SUBSET Row, st : {"calling", "landed"} \cup Outcomes, tries : Nat,
              owner : {"driver", "reaper", "nobody"}]

TypeOK ==
    /\ lifecycle \in {"Open", "Closing", "Closed", "Failed"}
    /\ pending \in Seq(Row)
    /\ active \in BOOLEAN /\ inFlight \in BOOLEAN /\ handle \in BOOLEAN
    /\ outstanding \in Nat /\ physical \in Nat /\ exiting \in Nat
    /\ caller \in [Row -> {"idle", "refused", "spawning", "accepted"}]
    /\ answer \in [Row -> Answers \cup {"none"}]
    /\ sup \in {"none", "loop", "await", "answer", "unwind"}
    /\ hand \in SUBSET Row
    /\ verdict \in Verdicts \cup {"none"}
    /\ appends \in SUBSET Appending
    /\ closer \in [Closer -> {"idle", "quiescing", "settling", "marking", "joining", "returned"}]
    /\ style \in [Closer -> {"drain", "physical"}]
    /\ closed \in [Closer -> {"none", "Ok", "Err"}]
    /\ stored \in SUBSET Row
    /\ adrift \in SUBSET SUBSET Row

Init ==
    /\ lifecycle = "Open"
    /\ pending = <<>>
    /\ active = FALSE
    /\ inFlight = FALSE
    /\ outstanding = 0
    /\ physical = 0
    /\ caller = [r \in Row |-> "idle"]
    /\ answer = [r \in Row |-> "none"]
    /\ sup = "none"
    /\ hand = {}
    /\ verdict = "none"
    /\ exiting = 0
    /\ handle = FALSE
    /\ appends = {}
    /\ closer = [c \in Closer |-> "idle"]
    /\ style \in [Closer -> {"drain", "physical"}]
    /\ closed = [c \in Closer |-> "none"]
    /\ stored = {}
    /\ adrift = {}

Idle == pending = <<>> /\ ~inFlight /\ ~active
Queued == {pending[i] : i \in DOMAIN pending}
Running(a) == a.st \in {"calling", "landed"}

-----------------------------------------------------------------------------
(* submit and submit_until_resolved.                                       *)

\* PreflightRejected, AdmissionClosed, the reason of Failed, or
\* QueueAdmissionExhausted.  A store may reject any row in its preflight.
Refuse(r) ==
    /\ caller[r] = "idle"
    /\ caller' = [caller EXCEPT ![r] = "refused"]
    /\ UNCHANGED <<queueVars, answer, supVars, appends, closeVars, storeVars>>

\* The row is pushed and, if nobody drives the queue, this caller commits
\* itself to spawn the supervisor, all under the state's mutex.
Submit(r) ==
    /\ caller[r] = "idle"
    /\ lifecycle = "Open"
    /\ Len(pending) < MaxPending
    /\ pending' = Append(pending, r)
    /\ active' = TRUE
    /\ physical' = IF active THEN physical ELSE physical + 1
    /\ caller' = [caller EXCEPT ![r] = IF active THEN "accepted" ELSE "spawning"]
    /\ UNCHANGED <<lifecycle, inFlight, outstanding, answer, supVars, appends, closeVars,
                   storeVars>>

\* spawn_supervisor_if_idle: the reservation passes to the task.
SpawnSupervisor(r) ==
    /\ caller[r] = "spawning"
    /\ sup = "none"
    /\ sup' = "loop"
    /\ handle' = TRUE
    /\ caller' = [caller EXCEPT ![r] = "accepted"]
    /\ UNCHANGED <<queueVars, answer, hand, verdict, exiting, appends, closeVars, storeVars>>

-----------------------------------------------------------------------------
(* supervisor_loop.  It gives up control only where it waits for a child.  *)

\* Fault: the exit is decided by an earlier look at the queue.
SupBreaksStale ==
    /\ sup = "loop"
    /\ active' = FALSE
    /\ sup' = "none"
    /\ exiting' = exiting + 1
    /\ UNCHANGED <<lifecycle, pending, inFlight, outstanding, physical, rowVars, hand, verdict,
                   handle, appends, closeVars, storeVars>>

\* Nothing to do, or nothing may be done any more.
SupBreaks ==
    /\ sup = "loop"
    /\ lifecycle = "Failed" \/ pending = <<>>
    /\ active' = FALSE
    /\ sup' = "none"
    /\ exiting' = exiting + 1
    /\ UNCHANGED <<lifecycle, pending, inFlight, outstanding, physical, rowVars, hand, verdict,
                   handle, appends, closeVars, storeVars>>

\* Fault: the cap is looked at once the child has been spawned.
SupTakesThenSheds ==
    LET n == IF Len(pending) < MaxRows THEN Len(pending) ELSE MaxRows
        rows == {pending[i] : i \in 1..n}
        wedged == outstanding >= MaxAbandoned
    IN  /\ sup = "loop"
        /\ lifecycle # "Failed"
        /\ pending # <<>>
        /\ pending' = SubSeq(pending, n + 1, Len(pending))
        /\ hand' = rows
        /\ sup' = IF wedged THEN "answer" ELSE "await"
        /\ verdict' = IF wedged THEN "StoreWedged" ELSE verdict
        /\ inFlight' = ~wedged
        /\ physical' = physical + 1
        /\ appends' = appends \cup {[rows |-> rows, st |-> "calling", tries |-> 1,
                                    owner |-> IF wedged THEN "nobody" ELSE "driver"]}
        /\ UNCHANGED <<lifecycle, active, outstanding, rowVars, exiting, handle, closeVars,
                       storeVars>>

\* The front of the queue becomes a generation: it is appended by a child, or
\* shed when too many abandoned appends are outstanding.
SupTakes ==
    LET n == IF Len(pending) < MaxRows THEN Len(pending) ELSE MaxRows
        rows == {pending[i] : i \in 1..n}
    IN  /\ sup = "loop"
        /\ lifecycle # "Failed"
        /\ pending # <<>>
        /\ pending' = SubSeq(pending, n + 1, Len(pending))
        /\ hand' = rows
        /\ \/ /\ outstanding >= MaxAbandoned
              /\ sup' = "answer"
              /\ verdict' = "StoreWedged"
              /\ UNCHANGED <<inFlight, physical, appends>>
           \/ /\ outstanding < MaxAbandoned
              /\ sup' = "await"
              /\ inFlight' = TRUE
              /\ physical' = physical + 1
              /\ appends' = appends \cup
                   {[rows |-> rows, st |-> "calling", tries |-> 1, owner |-> "driver"]}
              /\ UNCHANGED verdict
        /\ UNCHANGED <<lifecycle, active, outstanding, rowVars, exiting, handle, closeVars,
                       storeVars>>

\* fail_driver: the queue is taken over to be answered with the generation.
FailDriver ==
    /\ lifecycle' = "Failed"
    /\ active' = FALSE
    /\ inFlight' = FALSE
    /\ pending' = <<>>
    /\ hand' = hand \cup Queued
    /\ verdict' = "DriverFailed"

\* The child the supervisor awaits has ended and its result is taken.
Joins(a) ==
    /\ sup = "await"
    /\ a.owner = "driver"
    /\ ~Running(a)
    /\ appends' = appends \ {a}
    /\ sup' = "answer"

SupJoins(a) ==
    /\ Joins(a)
    /\ a.st # "DriverFailed"
    /\ inFlight' = FALSE
    /\ verdict' = a.st
    /\ UNCHANGED <<lifecycle, pending, active, outstanding, physical, rowVars, hand, exiting,
                   handle, closeVars, storeVars>>

SupJoinsFatal(a) ==
    /\ Joins(a)
    /\ a.st = "DriverFailed"
    /\ FailDriver
    /\ UNCHANGED <<outstanding, physical, rowVars, exiting, handle, closeVars, storeVars>>

Reown(a, owner) == appends' = (appends \ {a}) \cup {[a EXCEPT !.owner = owner]}

\* The shutdown of the runtime drops the supervisor at its await; the guard
\* fails the generation on the way out.
SupCancelled(a) ==
    /\ sup = "await"
    /\ a.owner = "driver"
    /\ Reown(a, "nobody")
    /\ FailDriver
    /\ sup' = "unwind"
    /\ UNCHANGED <<outstanding, physical, rowVars, exiting, handle, closeVars, storeVars>>

\* Fault: the supervisor waits for its child without a deadline.
SupAbandonsNever(a) == FALSE

\* driver_append_deadline: the child goes on without its supervisor.
SupAbandons(a) ==
    /\ sup = "await"
    /\ a.owner = "driver"
    /\ Running(a)
    /\ inFlight' = FALSE
    /\ outstanding' = outstanding + 1
    /\ verdict' = "DriverAppendAbandoned"
    /\ sup' = "answer"
    /\ UNCHANGED <<lifecycle, pending, active, physical, rowVars, hand, exiting, handle,
                   appends, closeVars, storeVars>>

AnswerOf(r) ==
    CASE verdict # "Committed" -> verdict
      [] r \in Foreign -> "IdentityConflict"
      [] OTHER -> "Ok"

\* The responders are used after the mutex is released.  An abandoned child
\* is then given to a reaper, a task of its own.
SupAnswers ==
    LET orphan == {a \in appends : a.owner = "driver"}
    IN  /\ sup \in {"answer", "unwind"}
        /\ answer' = [r \in Row |-> IF r \in hand THEN AnswerOf(r) ELSE answer[r]]
        /\ hand' = {}
        /\ verdict' = "none"
        /\ appends' = (appends \ orphan) \cup {[a EXCEPT !.owner = "reaper"] : a \in orphan}
        /\ physical' = physical + Cardinality(orphan)
        /\ sup' = IF sup = "unwind" THEN "none" ELSE "loop"
        /\ exiting' = IF sup = "unwind" THEN exiting + 1 ELSE exiting
        /\ UNCHANGED <<lifecycle, pending, active, inFlight, outstanding, caller, handle,
                       closeVars, storeVars>>

\* The supervisor's task ends and drops its reservation.
SupExits ==
    /\ exiting > 0
    /\ exiting' = exiting - 1
    /\ physical' = physical - 1
    /\ UNCHANGED <<lifecycle, pending, active, inFlight, outstanding, rowVars, sup, hand,
                   verdict, handle, appends, closeVars, storeVars>>

\* The reaper saw its append return.
Reap(a) ==
    /\ a.owner = "reaper"
    /\ ~Running(a)
    /\ appends' = appends \ {a}
    /\ outstanding' = outstanding - 1
    /\ physical' = physical - 1
    /\ UNCHANGED <<lifecycle, pending, active, inFlight, rowVars, supVars, closeVars, storeVars>>

-----------------------------------------------------------------------------
(* run_generation and the store.                                           *)

Becomes(a, st) == appends' = (appends \ {a}) \cup {[a EXCEPT !.st = st]}

\* append_events_idempotent takes effect: all of the generation or nothing,
\* and a replay finds its own rows.
AppendLands(a) ==
    /\ a.st = "calling"
    /\ Becomes(a, "landed")
    /\ stored' = stored \cup (a.rows \ Foreign)
    /\ UNCHANGED <<queueVars, rowVars, supVars, closeVars, adrift>>

\* An append that had not landed when its error was returned may land later.
MayDrift(a) == UNCHANGED adrift \/ (a.st = "calling" /\ adrift' = adrift \cup {a.rows})

\* The child's task ends with its result.
Returns(a, outcome) ==
    /\ Becomes(a, outcome)
    /\ physical' = physical - 1
    /\ UNCHANGED <<lifecycle, pending, active, inFlight, outstanding, rowVars, supVars,
                   closeVars, stored>>

AppendReturns(a) == a.st = "landed" /\ Returns(a, "Committed") /\ UNCHANGED adrift

\* classify_store_error says Retry, unknown side effects included.
AppendRetries(a) ==
    /\ Running(a)
    /\ a.tries < MaxAttempts
    /\ appends' = (appends \ {a}) \cup {[a EXCEPT !.st = "calling", !.tries = @ + 1]}
    /\ MayDrift(a)
    /\ UNCHANGED <<queueVars, rowVars, supVars, closeVars, stored>>

\* The last attempt failed, or the error is not worth another one.
AppendFails(a) == Running(a) /\ Returns(a, "StoreFailure") /\ MayDrift(a)

\* The child panics, is cancelled, or returns something that does not fit.
AppendDies(a) == Running(a) /\ Returns(a, "DriverFailed") /\ MayDrift(a)

DriftLands(rows) ==
    /\ adrift' = adrift \ {rows}
    /\ stored' = stored \cup (rows \ Foreign)
    /\ UNCHANGED <<queueVars, rowVars, supVars, appends, closeVars>>

-----------------------------------------------------------------------------
(* close_and_drain and close_and_wait_for_physical_completion.             *)

CloseStarts(c) ==
    /\ closer[c] = "idle"
    /\ lifecycle' = IF lifecycle = "Open" THEN "Closing" ELSE lifecycle
    /\ closer' = [closer EXCEPT ![c] = "quiescing"]
    /\ UNCHANGED <<pending, active, inFlight, outstanding, physical, rowVars, supVars, appends,
                   style, closed, storeVars>>

\* The look of quiesce's polling that ends it.
Quiesced(c) ==
    /\ closer[c] = "quiescing"
    /\ lifecycle \in {"Failed", "Closed"} \/ Idle
    /\ closed' = [closed EXCEPT ![c] = IF lifecycle = "Failed" THEN "Err" ELSE "Ok"]
    /\ closer' = [closer EXCEPT ![c] = IF style[c] = "drain" THEN "marking" ELSE "settling"]
    /\ UNCHANGED <<queueVars, rowVars, supVars, appends, style, storeVars>>

\* Fault: the physical close waits for the driver and not for what it left.
PhysicallyFinishedDriver(c) ==
    /\ closer[c] = "settling"
    /\ sup = "none" /\ exiting = 0
    /\ closer' = [closer EXCEPT ![c] = "marking"]
    /\ UNCHANGED <<queueVars, rowVars, supVars, appends, style, closed, storeVars>>

\* physically_finished.
PhysicallyFinished(c) ==
    /\ closer[c] = "settling"
    /\ physical = 0
    /\ closer' = [closer EXCEPT ![c] = "marking"]
    /\ UNCHANGED <<queueVars, rowVars, supVars, appends, style, closed, storeVars>>

\* The drain takes the supervisor's handle and, if there was one, awaits it.
MarkClosed(c) ==
    /\ closer[c] = "marking"
    /\ lifecycle' = IF closed[c] = "Ok" /\ lifecycle = "Closing" THEN "Closed" ELSE lifecycle
    /\ closer' = [closer EXCEPT ![c] =
                    IF style[c] = "drain" /\ handle THEN "joining" ELSE "returned"]
    /\ handle' = (handle /\ style[c] # "drain")
    /\ UNCHANGED <<pending, active, inFlight, outstanding, physical, rowVars, sup, hand,
                   verdict, exiting, appends, style, closed, storeVars>>

SupervisorJoined(c) ==
    /\ closer[c] = "joining"
    /\ sup = "none" /\ exiting = 0
    /\ closer' = [closer EXCEPT ![c] = "returned"]
    /\ UNCHANGED <<queueVars, rowVars, supVars, appends, style, closed, storeVars>>

-----------------------------------------------------------------------------
Supervise ==
    \/ SupBreaks \/ SupTakes \/ SupAnswers
    \/ \E a \in appends : SupJoins(a) \/ SupJoinsFatal(a) \/ SupAbandons(a)

Store ==
    \/ \E a \in appends :
         \/ AppendLands(a) \/ AppendReturns(a) \/ AppendRetries(a) \/ AppendFails(a)
         \/ AppendDies(a)
    \/ \E rows \in adrift : DriftLands(rows)

Closing(c) == Quiesced(c) \/ PhysicallyFinished(c) \/ MarkClosed(c) \/ SupervisorJoined(c)

\* All rows are dealt with and all closers are back, or wait for an append
\* that never returns.
Finished ==
    /\ \A r \in Row : caller[r] = "refused" \/ answer[r] # "none"
    /\ sup = "none"
    /\ UNCHANGED vars

Next ==
    \/ \E r \in Row : Refuse(r) \/ Submit(r) \/ SpawnSupervisor(r)
    \/ Supervise \/ SupExits
    \/ \E a \in appends : SupCancelled(a) \/ Reap(a)
    \/ Store
    \/ \E c \in Closer : CloseStarts(c) \/ Closing(c)
    \/ Finished

Spec == Init /\ [][Next]_vars

(***************************************************************************)
(* Fairness: the tokio runtime polls every task that can go on, and the    *)
(* supervisor's append deadline is one of its ways to go on.  Nothing is   *)
(* assumed of the store, whose appends may hang forever, nor of the        *)
(* arrival of rows and closes.                                             *)
(***************************************************************************)
Fairness ==
    /\ WF_vars(Supervise)
    /\ WF_vars(SupExits)
    /\ \A r \in Row : WF_vars(SpawnSupervisor(r))
    /\ \A c \in Closer : WF_vars(Closing(c))

FairSpec == Spec /\ Fairness

-----------------------------------------------------------------------------
(* Properties.                                                             *)

Spawners == {r \in Row : caller[r] = "spawning"}
Supervisors == IF sup = "none" THEN 0 ELSE 1
Detached == {a \in appends : a.owner = "reaper"}

\* The queue is driven by exactly one supervisor, or by one caller that is
\* about to spawn it, for as long as driver_active says so; no row is left in
\* a queue nobody drives.
OneDriver ==
    /\ Cardinality(Spawners) + Supervisors <= 1
    /\ active => Spawners # {} \/ sup \in {"loop", "await", "answer"}
    /\ ~active => Spawners = {} /\ pending = <<>> /\ (sup = "none" \/ lifecycle = "Failed")

\* The reservations of the physical close count the tasks there are.
PhysicalExact ==
    physical = Cardinality(Spawners) + Supervisors + exiting
                 + Cardinality({a \in appends : Running(a)}) + Cardinality(Detached)

\* Appends nobody waits for never exceed max_abandoned_appends, and the
\* counter that sheds generations is neither lost nor stuck.
AbandonedBounded ==
    /\ outstanding = Cardinality(Detached)
                       + (IF verdict = "DriverAppendAbandoned" THEN 1 ELSE 0)
    /\ outstanding <= MaxAbandoned

\* The driver's bookkeeping is exact, through spawns, exits, abandonments and
\* the failure of the batch.
DriverExact == TypeOK /\ OneDriver /\ PhysicalExact /\ AbandonedBounded

\* What a caller is told is true and stays true: Ok means the row is in the
\* store, and a row that was refused, shed by a wedged store, or in conflict
\* is not there and cannot arrive later.
TruthfulAnswers ==
    \A r \in Row :
      /\ answer[r] = "Ok" => r \in stored
      /\ caller[r] = "refused" \/ answer[r] \in {"StoreWedged", "IdentityConflict"} =>
           r \notin stored /\ r \notin (UNION adrift) \ Foreign

\* A close is a barrier.  When the drain returns Ok every row that was ever
\* accepted has its answer, and when the physical close returns, even with an
\* error, nothing of the batch is running and nothing will run.
CloseIsBarrier ==
    \A c \in Closer : closer[c] = "returned" =>
      /\ closed[c] = "Ok" =>
           \A r \in Row : caller[r] \in {"spawning", "accepted"} => answer[r] # "none"
      /\ style[c] = "physical" =>
           Spawners = {} /\ sup = "none" /\ \A a \in appends : ~Running(a)

\* No accepted row waits for a store that does not answer: it is committed,
\* failed, abandoned or shed in the end.
RowsResolve == \A r \in Row : r \in Queued \cup hand ~> answer[r] # "none"

\* Nor does close_and_drain.
DrainReturns ==
    \A c \in Closer : closer[c] = "quiescing" /\ style[c] = "drain" ~> closer[c] = "returned"

\* A store that never answers holds up neither rows nor the drain.
NobodyWaitsForStore == RowsResolve /\ DrainReturns

=============================================================================
