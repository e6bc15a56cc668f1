------------------------ MODULE BackgroundAdmission -------------------------
(***************************************************************************)
(* Admission of background jobs to one domain: the class semaphores, the   *)
(* lease a job holds through its supervisor and its blocking child, and    *)
(* the shutdown of the runtime that executes them.                         *)
(*                                                                         *)
(* A lease is an Arc: whoever holds a clone of the AdmittedJob keeps the   *)
(* class permit and the job count.  What a job's body does is its own      *)
(* choice: finalize or not, spawn a blocking child, return, panic, or run  *)
(* forever.  Whatever the code does under the start gate is one action.    *)
(*                                                                         *)
(* `news` holds the subscribers of the watch channel `changed` that have   *)
(* not looked since the last notify.  Deadlines are events: the cleanup    *)
(* deadline of the domain passes some time after it was closed.            *)
(***************************************************************************)
EXTENDS Naturals, FiniteSets

CONSTANTS
    Job,               \* calls of admit
    Class, ClassOf,    \* the work classes, and the class of each job
    Limit,             \* WorkClassLimits
    Observer           \* callers of shutdown

ASSUME JobAssumption == IsFiniteSet(Job) /\ ClassOf \in [Job -> Class]
ASSUME LimitAssumption == Limit \in [Class -> Nat \ {0}]

VARIABLES
    closed,        \* StartGate, and the semaphores with it
    expired,       \* the domain's cleanup deadline has passed
    posture,       \* posture_failure: none, failed, and closed by it
    free,          \* available permits of each semaphore
    jobs, supervisors, incomplete,   \* the counters of Domain
    caller,        \* where the caller of admit is; "holding" is a clone it owns
    sup,           \* the supervisor task
    child,         \* the blocking child
    requested,     \* cancellation of the job was requested
    final,         \* finalization, 0 to 3
    coord,         \* the coordinator thread
    join,          \* JoinState
    observer, told,    \* a shutdown call, and what its report says
    news           \* who was notified and has not looked

gateVars == <<closed, expired, posture>>
countVars == <<free, jobs, supervisors, incomplete>>
jobVars == <<caller, sup, child, requested, final>>
exitVars == <<coord, join, observer, told>>
vars == <<gateVars, countVars, jobVars, exitVars, news>>

\* The coordinator drives the runtime (it checks the gate, and waits for news
\* while it is open or drains with a deadline), drops it, and exits.  "select"
\* is a body inside run_body; "ending" has returned and still owns its guard;
\* "cut" was dropped or panicked.
TypeOK ==
    /\ closed \in BOOLEAN /\ expired \in BOOLEAN
    /\ posture \in {"none", "failed", "closed"}
    /\ free \in [Class -> Nat]
    /\ {jobs, supervisors, incomplete} \subseteq Nat
    /\ caller \in [Job -> {"new", "waiting", "permit", "holding", "gone"}]
    /\ sup \in [Job -> {"none", "queued", "running", "select", "ending", "done", "cut"}]
    /\ child \in [Job -> {"none", "queued", "running", "gone"}]
    /\ requested \in [Job -> BOOLEAN]
    /\ final \in [Job -> 0 .. 3]
    /\ coord \in {"check", "wait", "drain", "drop", "exited"}
    /\ join \in {"handle", "joining", "joined"}
    /\ observer \in [Observer -> {"idle", "closing", "check", "wait", "returned"}]
    /\ told \in [Observer -> {"none", "error", "unfinished", "quiet"}]
    /\ news \subseteq {"coord"} \cup Job \cup Observer

Init ==
    /\ closed = FALSE /\ expired = FALSE /\ posture = "none"
    /\ free = Limit
    /\ jobs = 0 /\ supervisors = 0 /\ incomplete = 0
    /\ caller = [j \in Job |-> "new"]
    /\ sup = [j \in Job |-> "none"]
    /\ child = [j \in Job |-> "none"]
    /\ requested = [j \in Job |-> FALSE]
    /\ final = [j \in Job |-> 0]
    /\ coord = "check" /\ join = "handle"
    /\ observer = [o \in Observer |-> "idle"]
    /\ told = [o \in Observer |-> "none"]
    /\ news = {}

InBody(j) == sup[j] \in {"running", "select"}
IsCancelled(j) == closed \/ requested[j]
Driving == coord \in {"check", "wait", "drain"}

\* Everybody who has subscribed and not yet gone.
Subscribers ==
    (IF Driving THEN {"coord"} ELSE {})
      \cup {j \in Job : sup[j] = "select"}
      \cup {o \in Observer : observer[o] \in {"check", "wait"}}

Notify == news' = Subscribers

-----------------------------------------------------------------------------
(* The lease.                                                              *)

Holders(j) ==
    (IF caller[j] = "holding" THEN {"caller"} ELSE {})
      \cup (IF sup[j] \in {"queued", "running", "select"} THEN {"supervisor"} ELSE {})
      \cup (IF child[j] \in {"queued", "running"} THEN {"child"} ELSE {})

\* Fault: a blocking child runs without a lease of its own.
LastHoldOfChild(j, who) == Holders(j) \ {"child"} = {who}

LastHold(j, who) == Holders(j) = {who}

\* Lease::drop, if this is the last clone.
LetGo(j, who) ==
    IF LastHold(j, who)
    THEN /\ jobs' = jobs - 1
         /\ free' = [free EXCEPT ![ClassOf[j]] = @ + 1]
         /\ Notify
    ELSE UNCHANGED <<jobs, free, news>>

-----------------------------------------------------------------------------
(* admit.                                                                  *)

AdmitStarts(j) ==
    /\ caller[j] = "new"
    /\ caller' = [caller EXCEPT ![j] = "waiting"]
    /\ UNCHANGED <<gateVars, countVars, sup, child, requested, final, exitVars, news>>

AdmitAcquires(j) ==
    /\ caller[j] = "waiting"
    /\ ~closed
    /\ free[ClassOf[j]] > 0
    /\ free' = [free EXCEPT ![ClassOf[j]] = @ - 1]
    /\ caller' = [caller EXCEPT ![j] = "permit"]
    /\ UNCHANGED <<gateVars, jobs, supervisors, incomplete, sup, child, requested, final,
                   exitVars, news>>

\* The semaphore was closed, or the future is dropped.
AdmitFails(j) ==
    /\ caller[j] = "waiting"
    /\ caller' = [caller EXCEPT ![j] = "gone"]
    /\ UNCHANGED <<gateVars, countVars, sup, child, requested, final, exitVars, news>>

\* Under the gate: closed meanwhile, the permit goes back.
AdmitDecides(j) ==
    /\ caller[j] = "permit"
    /\ IF closed
       THEN /\ free' = [free EXCEPT ![ClassOf[j]] = @ + 1]
            /\ caller' = [caller EXCEPT ![j] = "gone"]
            /\ UNCHANGED jobs
       ELSE /\ jobs' = jobs + 1
            /\ caller' = [caller EXCEPT ![j] = "holding"]
            /\ UNCHANGED free
    /\ UNCHANGED <<gateVars, supervisors, incomplete, sup, child, requested, final, exitVars,
                   news>>

\* The caller drops its clone.
CallerDrops(j) ==
    /\ caller[j] = "holding"
    /\ caller' = [caller EXCEPT ![j] = "gone"]
    /\ LetGo(j, "caller")
    /\ UNCHANGED <<gateVars, supervisors, incomplete, sup, child, requested, final, exitVars>>

-----------------------------------------------------------------------------
(* spawn_supervised and the task it spawns.                                *)

\* The job moves into the task; kept is a clone the caller keeps.
SpawnSupervised(j) ==
    /\ caller[j] = "holding"
    /\ sup[j] = "none"
    /\ ~closed
    /\ supervisors' = supervisors + 1
    /\ sup' = [sup EXCEPT ![j] = "queued"]
    /\ \E kept \in BOOLEAN : caller' = [caller EXCEPT ![j] = IF kept THEN "holding" ELSE "gone"]
    /\ UNCHANGED <<gateVars, free, jobs, incomplete, child, requested, final, exitVars, news>>

\* start_decision on the task's first poll.
BodyStarts(j) ==
    /\ sup[j] = "queued"
    /\ Driving
    /\ ~IsCancelled(j) /\ posture = "none"
    /\ sup' = [sup EXCEPT ![j] = "running"]
    /\ UNCHANGED <<gateVars, countVars, caller, child, requested, final, exitVars, news>>

\* Cancelled before its start, or refused because the thread's priority is not
\* lowered: finished all the same.  (The task's own AdmittedJob goes after the
\* guard here, on the coordinator's thread, which looks at neither in between.)
BodyRefused(j) ==
    /\ sup[j] = "queued"
    /\ Driving
    /\ sup' = [sup EXCEPT ![j] = "ending"]
    /\ LetGo(j, "supervisor")
    /\ UNCHANGED <<gateVars, supervisors, incomplete, caller, child, requested, final, exitVars>>

\* run_body: subscribes, and looks once before it waits.
RunBody(j) ==
    /\ sup[j] = "running"
    /\ ~IsCancelled(j)
    /\ sup' = [sup EXCEPT ![j] = "select"]
    /\ news' = news \ {j}
    /\ UNCHANGED <<gateVars, countVars, caller, child, requested, final, exitVars>>

\* The body inside run_body finishes.
RunBodyFinishes(j) ==
    /\ sup[j] = "select" /\ Driving
    /\ sup' = [sup EXCEPT ![j] = "running"]
    /\ news' = news \ {j}
    /\ UNCHANGED <<gateVars, countVars, caller, child, requested, final, exitVars>>

\* Woken by a notification: on to finalization if the job is cancelled.
RunBodyWakes(j) ==
    /\ sup[j] = "select" /\ Driving
    /\ j \in news
    /\ sup' = IF IsCancelled(j) THEN [sup EXCEPT ![j] = "running"] ELSE sup
    /\ news' = news \ {j}
    /\ UNCHANGED <<gateVars, countVars, caller, child, requested, final, exitVars>>

\* finalize claims the attempt; no_telemetry closes it.
Finalize(j) ==
    /\ sup[j] = "running" /\ Driving
    /\ final[j] = 0
    /\ \E phase \in {1, 2} : final' = [final EXCEPT ![j] = phase]
    /\ UNCHANGED <<gateVars, countVars, caller, sup, child, requested, exitVars, news>>

FinalizeReturns(j) ==
    /\ sup[j] = "running" /\ Driving
    /\ final[j] = 1
    /\ final' = [final EXCEPT ![j] = 2]
    /\ UNCHANGED <<gateVars, countVars, caller, sup, child, requested, exitVars, news>>

\* The effective deadline passes, before or after the first poll.
FinalizeTimesOut(j) ==
    /\ sup[j] = "running" /\ Driving
    /\ final[j] = 1
    /\ final' = [final EXCEPT ![j] = 3]
    /\ incomplete' = incomplete + 1
    /\ UNCHANGED <<gateVars, free, jobs, supervisors, caller, sup, child, requested, exitVars,
                   news>>

\* The body returns; the execution hold is dropped before the guard.
BodyEnds(j) ==
    /\ sup[j] = "running" /\ Driving
    /\ sup' = [sup EXCEPT ![j] = "ending"]
    /\ LetGo(j, "supervisor")
    /\ UNCHANGED <<gateVars, supervisors, incomplete, caller, child, requested, final, exitVars>>

\* SupervisorGuard::drop of a task that finished.
GuardDrops(j) ==
    /\ sup[j] = "ending"
    /\ sup' = [sup EXCEPT ![j] = "done"]
    /\ incomplete' = IF final[j] = 1 THEN incomplete + 1 ELSE incomplete
    /\ supervisors' = supervisors - 1
    /\ Notify
    /\ UNCHANGED <<gateVars, free, jobs, caller, child, requested, final, exitVars>>

\* The task panics, or the runtime is dropped under it; its hold and its guard go.
TaskCut(j) ==
    /\ \/ InBody(j) /\ Driving
       \/ sup[j] \in {"queued", "running", "select"} /\ coord = "drop"
    /\ sup' = [sup EXCEPT ![j] = "cut"]
    /\ incomplete' = IF final[j] < 2 THEN incomplete + 1 ELSE incomplete
    /\ supervisors' = supervisors - 1
    /\ IF LastHold(j, "supervisor")
       THEN jobs' = jobs - 1 /\ free' = [free EXCEPT ![ClassOf[j]] = @ + 1]
       ELSE UNCHANGED <<jobs, free>>
    /\ news' = Subscribers \ {j}
    /\ UNCHANGED <<gateVars, caller, child, requested, final, exitVars>>

-----------------------------------------------------------------------------
(* spawn_blocking, by the body or by a caller that holds the job.          *)

\* Under the gate the work is put in escrow, queued and published; a
\* submission that panics takes it back and leaves nothing.
SpawnBlocking(j) ==
    /\ caller[j] = "holding" \/ (InBody(j) /\ Driving)
    /\ child[j] = "none"
    /\ ~closed
    /\ child' = [child EXCEPT ![j] = "queued"]
    /\ UNCHANGED <<gateVars, countVars, caller, sup, requested, final, exitVars, news>>

\* A blocking thread takes the work and decides under the gate.
ChildStarts(j) ==
    /\ child[j] = "queued"
    /\ coord # "exited"
    /\ ~IsCancelled(j) /\ posture = "none"
    /\ child' = [child EXCEPT ![j] = "running"]
    /\ UNCHANGED <<gateVars, countVars, caller, sup, requested, final, exitVars, news>>

\* Cancelled or refused; or dropped with the queue by the runtime's shutdown.
ChildRefused(j) ==
    /\ child[j] = "queued"
    /\ child' = [child EXCEPT ![j] = "gone"]
    /\ LetGo(j, "child")
    /\ UNCHANGED <<gateVars, supervisors, incomplete, caller, sup, requested, final, exitVars>>

ChildEnds(j) ==
    /\ child[j] = "running"
    /\ child' = [child EXCEPT ![j] = "gone"]
    /\ LetGo(j, "child")
    /\ UNCHANGED <<gateVars, supervisors, incomplete, caller, sup, requested, final, exitVars>>

\* JobCancellation::request, by a job or by a BackgroundJob that is dropped;
\* a later one only notifies again.
RequestCancel(j) ==
    /\ Holders(j) # {} \/ sup[j] = "ending"
    /\ ~requested[j]
    /\ requested' = [requested EXCEPT ![j] = TRUE]
    /\ Notify
    /\ UNCHANGED <<gateVars, countVars, caller, sup, child, final, exitVars>>

-----------------------------------------------------------------------------
(* Closing, the coordinator and the observers of its exit.                 *)

\* Fault: nobody is woken.
CloseSilently == closed' = TRUE /\ UNCHANGED news

\* Domain::close; closing again only shortens the deadline.
Close == closed' = TRUE /\ Notify

\* The last root is dropped, or a control closes the domain.
DomainCloses ==
    /\ ~closed
    /\ Close
    /\ UNCHANGED <<expired, posture, countVars, jobVars, exitVars>>

\* A thread of the runtime cannot lower its priority: posture_failed.
PostureFails ==
    /\ posture = "none" /\ coord # "exited"
    /\ posture' = "failed"
    /\ UNCHANGED <<closed, expired, countVars, jobVars, exitVars, news>>

PostureCloses ==
    /\ posture = "failed"
    /\ posture' = "closed"
    /\ Close
    /\ UNCHANGED <<expired, countVars, jobVars, exitVars>>

DeadlinePasses ==
    /\ closed /\ ~expired
    /\ expired' = TRUE
    /\ UNCHANGED <<closed, posture, countVars, jobVars, exitVars, news>>

\* drive_until_closed.
CoordChecks ==
    /\ coord = "check"
    /\ coord' = CASE ~closed -> "wait"
                  [] closed /\ (supervisors = 0 \/ expired) -> "drop"
                  [] OTHER -> "drain"
    /\ UNCHANGED <<gateVars, countVars, jobVars, join, observer, told, news>>

CoordWakes ==
    /\ \/ coord \in {"wait", "drain"} /\ "coord" \in news /\ news' = news \ {"coord"}
       \/ coord = "drain" /\ expired /\ UNCHANGED news
    /\ coord' = "check"
    /\ UNCHANGED <<gateVars, countVars, jobVars, join, observer, told>>

\* Dropping the runtime ends with the last blocking child that has started.
CoordExits ==
    /\ coord = "drop"
    /\ \A j \in Job : sup[j] \in {"none", "done", "cut"} /\ child[j] \in {"none", "gone"}
    /\ coord' = "exited"
    /\ Notify
    /\ UNCHANGED <<gateVars, countVars, jobVars, join, observer, told>>

\* shutdown: close, then start the reaper unless somebody did.
ShutdownCloses(o) ==
    /\ observer[o] = "idle"
    /\ Close
    /\ observer' = [observer EXCEPT ![o] = "closing"]
    /\ UNCHANGED <<expired, posture, countVars, jobVars, coord, join, told>>

EnsureJoinStarted(o) ==
    /\ observer[o] = "closing"
    /\ join' = IF join = "handle" THEN "joining" ELSE join
    /\ observer' = [observer EXCEPT ![o] = "check"]
    /\ news' = news \ {o}
    /\ UNCHANGED <<gateVars, countVars, jobVars, coord, told>>

\* The reaper's thread cannot be created; the handle stays for the next call.
EnsureJoinFails(o) ==
    /\ observer[o] = "closing"
    /\ join = "handle"
    /\ observer' = [observer EXCEPT ![o] = "returned"]
    /\ told' = [told EXCEPT ![o] = "error"]
    /\ UNCHANGED <<gateVars, countVars, jobVars, coord, join, news>>

Joins ==
    /\ join = "joining" /\ coord = "exited"
    /\ join' = "joined"
    /\ Notify
    /\ UNCHANGED <<gateVars, countVars, jobVars, coord, observer, told>>

\* A report of workers that exited and of no job outstanding is a quiet one.
Report == IF coord = "exited" /\ jobs = 0 THEN "quiet" ELSE "unfinished"

ObserverChecks(o) ==
    /\ observer[o] = "check"
    /\ IF join = "joined" \/ expired
       THEN /\ observer' = [observer EXCEPT ![o] = "returned"]
            /\ told' = [told EXCEPT ![o] = Report]
       ELSE observer' = [observer EXCEPT ![o] = "wait"] /\ UNCHANGED told
    /\ UNCHANGED <<gateVars, countVars, jobVars, coord, join, news>>

ObserverWakes(o) ==
    /\ observer[o] = "wait"
    /\ o \in news \/ expired
    /\ observer' = [observer EXCEPT ![o] = "check"]
    /\ news' = news \ {o}
    /\ UNCHANGED <<gateVars, countVars, jobVars, coord, join, told>>

-----------------------------------------------------------------------------

\* What the program does of itself.
Proceeds(j) ==
    \/ AdmitDecides(j) \/ (closed /\ AdmitFails(j))
    \/ BodyStarts(j) \/ BodyRefused(j) \/ RunBodyWakes(j)
    \/ FinalizeReturns(j) \/ FinalizeTimesOut(j) \/ GuardDrops(j)
    \/ (coord = "drop" /\ TaskCut(j)) \/ ChildStarts(j) \/ ChildRefused(j)

Observes(o) ==
    EnsureJoinStarted(o) \/ EnsureJoinFails(o) \/ ObserverChecks(o) \/ ObserverWakes(o)

\* What callers and bodies choose to do.
Chooses(j) ==
    \/ AdmitStarts(j) \/ AdmitAcquires(j) \/ AdmitFails(j) \/ CallerDrops(j)
    \/ SpawnSupervised(j) \/ RunBody(j) \/ RunBodyFinishes(j) \/ Finalize(j) \/ BodyEnds(j)
    \/ TaskCut(j) \/ SpawnBlocking(j) \/ ChildEnds(j) \/ RequestCancel(j)

Next ==
    \/ \E j \in Job : Proceeds(j) \/ Chooses(j)
    \/ \E o \in Observer : ShutdownCloses(o) \/ Observes(o)
    \/ DomainCloses \/ PostureFails \/ PostureCloses \/ DeadlinePasses
    \/ CoordChecks \/ CoordWakes \/ CoordExits \/ Joins

Spec == Init /\ [][Next]_vars

\* The threads run, the runtime polls what was woken and timers fire.  Bodies and
\* blocking children may run forever, and nobody has to close the domain.
Fairness ==
    /\ \A j \in Job : /\ WF_vars(AdmitDecides(j) \/ (closed /\ AdmitFails(j)))
                      /\ WF_vars(RunBodyWakes(j))
                      /\ WF_vars(GuardDrops(j) \/ (coord = "drop" /\ TaskCut(j)))
                      /\ WF_vars(ChildStarts(j) \/ ChildRefused(j))
    /\ \A o \in Observer : WF_vars(Observes(o))
    /\ WF_vars(PostureCloses) /\ WF_vars(DeadlinePasses) /\ WF_vars(Joins)
    /\ WF_vars(CoordChecks \/ CoordWakes \/ CoordExits)

FairSpec == Spec /\ Fairness

-----------------------------------------------------------------------------
(* Properties.                                                             *)

Alive(j) == Holders(j) # {}
Incomplete(j) ==
    \/ final[j] = 3
    \/ sup[j] = "cut" /\ final[j] < 2
    \/ sup[j] = "done" /\ final[j] = 1

\* However supervisors, blocking children, panics, refusals and shutdown end a
\* job, its permit, its count and its missing terminal event are accounted for
\* exactly once, and not before its last user code has gone.  When the
\* coordinator has exited nothing runs, and a caller of shutdown told of no
\* outstanding job stays right.  (Lease::drop, SupervisorGuard::drop, report)
AdmissionExact ==
    /\ \A c \in Class :
         free[c] + Cardinality({j \in Job : ClassOf[j] = c /\ (caller[j] = "permit" \/ Alive(j))})
           = Limit[c]
    /\ jobs = Cardinality({j \in Job : Alive(j)})
    /\ supervisors = Cardinality({j \in Job : sup[j] \in {"queued", "running", "select", "ending"}})
    /\ incomplete = Cardinality({j \in Job : Incomplete(j)})
    /\ coord = "exited" => \A j \in Job : Holders(j) \subseteq {"caller"}
    /\ \A o \in Observer : told[o] = "quiet" => coord = "exited" /\ \A j \in Job : ~Alive(j)

Settled ==
    /\ \A j \in Job : ~(sup[j] = "select" /\ IsCancelled(j))
    /\ \A o \in Observer : observer[o] \in {"idle", "returned"}
    /\ closed => /\ \A j \in Job : caller[j] # "waiting"
                 /\ coord = "exited" \/ \E j \in Job : child[j] = "running"

\* A cancelled body is left although it need not end, and a closed domain comes
\* to rest: nobody misses a notification or keeps waiting for a permit, the
\* coordinator exits unless a blocking child that had started still runs, and
\* every shutdown call returns.  (drive_until_closed, shutdown, notify)
ShutdownSettles == []<>Settled
=============================================================================
