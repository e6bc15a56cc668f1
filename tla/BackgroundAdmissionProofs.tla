--------------------- MODULE BackgroundAdmissionProofs ----------------------
(***************************************************************************)
(* Proofs about BackgroundAdmission, for any number of jobs, classes,      *)
(* permits and callers of shutdown.  The inductive invariant adds to the   *)
(* property of the model that nothing of a job exists before its admission *)
(* and that the coordinator stops driving only under a closed gate.        *)
(***************************************************************************)
EXTENDS BackgroundAdmission, FiniteSetTheorems, TLAPS

\* A job that is not admitted has neither a supervisor nor a child.
NothingEarly ==
    \A j \in Job : caller[j] \in {"new", "waiting", "permit"} =>
                     sup[j] = "none" /\ child[j] = "none"

\* The coordinator drains, drops and exits only when the gate is closed, and
\* nothing the runtime executes outlives it.
ExitInv ==
    /\ coord \in {"drain", "drop", "exited"} => closed
    /\ coord = "exited" =>
         \A j \in Job : sup[j] \in {"none", "done", "cut"} /\ child[j] \in {"none", "gone"}

\* A caller of shutdown that was told of no outstanding job stays right.
QuietInv ==
    \A o \in Observer : told[o] = "quiet" => coord = "exited" /\ \A j \in Job : ~Alive(j)

\* The sets of jobs the counters count.
Permitted(c) == {j \in Job : ClassOf[j] = c /\ (caller[j] = "permit" \/ Alive(j))}
Outstanding == {j \in Job : Alive(j)}
Guarded == {j \in Job : sup[j] \in {"queued", "running", "select", "ending"}}
Unfinished == {j \in Job : Incomplete(j)}

CountInv ==
    /\ \A c \in Class : free[c] + Cardinality(Permitted(c)) = Limit[c]
    /\ jobs = Cardinality(Outstanding)
    /\ supervisors = Cardinality(Guarded)
    /\ incomplete = Cardinality(Unfinished)

IInv == TypeOK /\ CountInv /\ NothingEarly /\ ExitInv /\ QuietInv

-----------------------------------------------------------------------------
(* Counting.                                                               *)

\* One member of a finite set comes or goes, or none does.
LEMMA CountStep ==
    ASSUME NEW S \in SUBSET Job, NEW T \in SUBSET Job, NEW j \in Job,
           \A i \in Job \ {j} : i \in S <=> i \in T
    PROVE  /\ Cardinality(S) \in Nat
           /\ Cardinality(T) \in Nat
           /\ (j \in S <=> j \in T) => Cardinality(T) = Cardinality(S)
           /\ j \in S /\ j \notin T => Cardinality(T) = Cardinality(S) - 1
           /\ j \notin S /\ j \in T => Cardinality(T) = Cardinality(S) + 1
<1>1. IsFiniteSet(S) /\ IsFiniteSet(T)
  BY JobAssumption, FS_Subset
<1>2. Cardinality(S) \in Nat /\ Cardinality(T) \in Nat
  BY <1>1, FS_CardinalityType
<1>3. ASSUME j \in S <=> j \in T PROVE Cardinality(T) = Cardinality(S)
  <2>1. S = T
    BY <1>3
  <2> QED
    BY <2>1
<1>4. ASSUME j \in S, j \notin T PROVE Cardinality(T) = Cardinality(S) - 1
  <2>1. T = S \ {j}
    BY <1>4
  <2> QED
    BY <1>1, <1>4, <2>1, FS_RemoveElement
<1>5. ASSUME j \notin S, j \in T PROVE Cardinality(T) = Cardinality(S) + 1
  <2>1. T = S \cup {j}
    BY <1>5
  <2> QED
    BY <1>1, <1>5, <2>1, FS_AddElement
<1> QED
  BY <1>2, <1>3, <1>4, <1>5

\* Who holds a clone of the lease, one holder at a time.
LEMMA HoldersAre ==
    ASSUME NEW j
    PROVE  /\ Alive(j) <=> \/ caller[j] = "holding"
                           \/ sup[j] \in {"queued", "running", "select"}
                           \/ child[j] \in {"queued", "running"}
           /\ LastHold(j, "caller") <=>
                /\ caller[j] = "holding"
                /\ sup[j] \notin {"queued", "running", "select"}
                /\ child[j] \notin {"queued", "running"}
           /\ LastHold(j, "supervisor") <=>
                /\ caller[j] # "holding"
                /\ sup[j] \in {"queued", "running", "select"}
                /\ child[j] \notin {"queued", "running"}
           /\ LastHold(j, "child") <=>
                /\ caller[j] # "holding"
                /\ sup[j] \notin {"queued", "running", "select"}
                /\ child[j] \in {"queued", "running"}
  BY DEF Alive, LastHold, Holders


\* The same of the state after a step.
LEMMA HoldersWill ==
    ASSUME NEW j
    PROVE  Alive(j)' <=> \/ caller'[j] = "holding"
                         \/ sup'[j] \in {"queued", "running", "select"}
                         \/ child'[j] \in {"queued", "running"}
  BY DEF Alive, Holders

\* A job that holds its class permit, alive or about to be.
Held(j) == caller[j] = "permit" \/ Alive(j)

\* A step of one job leaves the others alone.
OthersKept(j) ==
    \A i \in Job \ {j} : /\ caller'[i] = caller[i] /\ sup'[i] = sup[i]
                         /\ child'[i] = child[i] /\ final'[i] = final[i]

\* What a step of one job may do to each counter.
PermitMoves(j) ==
    \/ (Held(j)' <=> Held(j)) /\ free' = free
    \/ Held(j) /\ ~Held(j)' /\ free' = [free EXCEPT ![ClassOf[j]] = @ + 1]
    \/ /\ ~Held(j) /\ Held(j)' /\ free[ClassOf[j]] > 0
       /\ free' = [free EXCEPT ![ClassOf[j]] = @ - 1]

JobMoves(j) ==
    \/ (Alive(j)' <=> Alive(j)) /\ jobs' = jobs
    \/ Alive(j) /\ ~Alive(j)' /\ jobs' = jobs - 1
    \/ ~Alive(j) /\ Alive(j)' /\ jobs' = jobs + 1

GuardMoves(j) ==
    \/ (j \in Guarded' <=> j \in Guarded) /\ supervisors' = supervisors
    \/ j \in Guarded /\ j \notin Guarded' /\ supervisors' = supervisors - 1
    \/ j \notin Guarded /\ j \in Guarded' /\ supervisors' = supervisors + 1

MissingMoves(j) ==
    \/ (Incomplete(j)' <=> Incomplete(j)) /\ incomplete' = incomplete
    \/ ~Incomplete(j) /\ Incomplete(j)' /\ incomplete' = incomplete + 1

Moves(j) == OthersKept(j) /\ PermitMoves(j) /\ JobMoves(j) /\ GuardMoves(j) /\ MissingMoves(j)

\* Counters that move with the job they count stay exact, and natural numbers.
LEMMA MovesCount ==
    ASSUME TypeOK, CountInv, NEW j \in Job, Moves(j)
    PROVE  /\ CountInv'
           /\ free' \in [Class -> Nat]
           /\ {jobs, supervisors, incomplete}' \subseteq Nat
<1>1. \A i \in Job \ {j} : /\ Held(i)' <=> Held(i)
                           /\ Alive(i)' <=> Alive(i)
                           /\ i \in Guarded' <=> i \in Guarded
                           /\ Incomplete(i)' <=> Incomplete(i)
  BY DEF Moves, OthersKept, Held, Alive, Holders, Guarded, Incomplete
<1>2. jobs' = Cardinality(Outstanding') /\ jobs' \in Nat
  <2>1. /\ Outstanding \in SUBSET Job /\ Outstanding' \in SUBSET Job
        /\ \A i \in Job \ {j} : i \in Outstanding <=> i \in Outstanding'
        /\ j \in Outstanding <=> Alive(j)
        /\ j \in Outstanding' <=> Alive(j)'
    BY <1>1 DEF Outstanding
  <2> HIDE DEF Outstanding, Alive
  <2> QED
    BY <2>1, CountStep DEF Moves, JobMoves, CountInv
<1>3. supervisors' = Cardinality(Guarded') /\ supervisors' \in Nat
  <2>1. Guarded \in SUBSET Job /\ Guarded' \in SUBSET Job
    BY DEF Guarded
  <2> QED
    BY <1>1, <2>1, CountStep DEF Moves, GuardMoves, CountInv
<1>4. incomplete' = Cardinality(Unfinished') /\ incomplete' \in Nat
  <2>1. /\ Unfinished \in SUBSET Job /\ Unfinished' \in SUBSET Job
        /\ \A i \in Job \ {j} : i \in Unfinished <=> i \in Unfinished'
        /\ j \in Unfinished <=> Incomplete(j)
        /\ j \in Unfinished' <=> Incomplete(j)'
    BY <1>1 DEF Unfinished
  <2> QED
    BY <2>1, CountStep DEF Moves, MissingMoves, CountInv
<1>5. free' \in [Class -> Nat]
  BY JobAssumption DEF Moves, PermitMoves, TypeOK
<1>6. ASSUME NEW c \in Class PROVE free'[c] + Cardinality(Permitted(c)') = Limit[c]
  <2>1. /\ Permitted(c) \in SUBSET Job /\ Permitted(c)' \in SUBSET Job
        /\ \A i \in Job : i \in Permitted(c) <=> ClassOf[i] = c /\ Held(i)
        /\ \A i \in Job : i \in Permitted(c)' <=> ClassOf[i] = c /\ Held(i)'
    BY DEF Permitted, Held
  <2>2. \A i \in Job \ {j} : i \in Permitted(c) <=> i \in Permitted(c)'
    BY <1>1, <2>1
  <2>3. free[c] \in Nat /\ free[c] + Cardinality(Permitted(c)) = Limit[c]
    BY DEF TypeOK, CountInv
  <2>4. Limit[c] \in Nat
    BY LimitAssumption
  <2>5. \/ free'[c] = free[c] /\ (j \in Permitted(c)' <=> j \in Permitted(c))
        \/ free'[c] = free[c] + 1 /\ j \in Permitted(c) /\ j \notin Permitted(c)'
        \/ free'[c] = free[c] - 1 /\ j \notin Permitted(c) /\ j \in Permitted(c)'
    BY <2>1, JobAssumption DEF Moves, PermitMoves, TypeOK
  <2> QED
    BY <2>1, <2>2, <2>3, <2>4, <2>5, CountStep
<1> QED
  BY <1>2, <1>3, <1>4, <1>5, <1>6 DEF CountInv

-----------------------------------------------------------------------------
(* The steps of a job.                                                     *)

\* The job's own variables keep their types and the domain's are left alone.
Typed ==
    /\ caller' \in [Job -> {"new", "waiting", "permit", "holding", "gone"}]
    /\ sup' \in [Job -> {"none", "queued", "running", "select", "ending", "done", "cut"}]
    /\ child' \in [Job -> {"none", "queued", "running", "gone"}]
    /\ requested' \in [Job -> BOOLEAN]
    /\ final' \in [Job -> 0 .. 3]
    /\ news' \subseteq {"coord"} \cup Job \cup Observer
    /\ UNCHANGED <<gateVars, exitVars>>

\* A step of a job respects its admission, the exit and the closed gate.
Respects(j) ==
    /\ caller'[j] \in {"new", "waiting", "permit"} => sup'[j] = "none" /\ child'[j] = "none"
    /\ coord = "exited" => sup'[j] \in {"none", "done", "cut"} /\ child'[j] \in {"none", "gone"}
    /\ closed /\ Alive(j)' => Alive(j)

LEMMA MovesIInv ==
    ASSUME IInv, NEW j \in Job, Moves(j), Typed, Respects(j)
    PROVE  IInv'
<1>1. CountInv' /\ free' \in [Class -> Nat] /\ {jobs, supervisors, incomplete}' \subseteq Nat
  BY MovesCount DEF IInv
<1>2. TypeOK'
  BY <1>1 DEF Typed, IInv, TypeOK, gateVars, exitVars
<1>3. NothingEarly'
  BY DEF IInv, NothingEarly, Moves, OthersKept, Respects
<1>4. ExitInv'
  BY DEF IInv, ExitInv, Moves, OthersKept, Respects, Typed, gateVars, exitVars
<1>5. QuietInv'
  <2>1. \A i \in Job : closed /\ Alive(i)' => Alive(i)
    BY DEF Moves, OthersKept, Respects, Alive, Holders
  <2> QED
    BY <2>1 DEF IInv, QuietInv, ExitInv, Typed, gateVars, exitVars
<1> QED
  BY <1>1, <1>2, <1>3, <1>4, <1>5 DEF IInv

\* Everybody notified is a subscriber.
LEMMA NewsTyped == Subscribers \subseteq {"coord"} \cup Job \cup Observer
  BY DEF Subscribers

\* Every step of a job moves the counters with it.
LEMMA JobActionMoves ==
    ASSUME IInv, NEW j \in Job, Proceeds(j) \/ Chooses(j)
    PROVE  Moves(j) /\ Typed /\ Respects(j)
<1> USE JobAssumption, HoldersAre, HoldersWill, NewsTyped
    DEF IInv, TypeOK, NothingEarly, ExitInv, Moves, OthersKept, PermitMoves, JobMoves,
        GuardMoves, MissingMoves, Held, Guarded, Incomplete, Typed, Respects, gateVars,
        countVars, exitVars
<1>1. CASE AdmitStarts(j)
  BY <1>1 DEF AdmitStarts
<1>2. CASE AdmitAcquires(j)
  BY <1>2 DEF AdmitAcquires
<1>3. CASE AdmitFails(j)
  BY <1>3 DEF AdmitFails
<1>4. CASE AdmitDecides(j)
  BY <1>4 DEF AdmitDecides
<1>5. CASE CallerDrops(j)
  BY <1>5 DEF CallerDrops, LetGo, Notify
<1>6. CASE SpawnSupervised(j)
  BY <1>6 DEF SpawnSupervised, Driving
<1>7. CASE BodyStarts(j)
  BY <1>7 DEF BodyStarts, IsCancelled, Driving
<1>8. CASE BodyRefused(j)
  BY <1>8 DEF BodyRefused, LetGo, Notify, Driving
<1>9. CASE RunBody(j)
  BY <1>9 DEF RunBody, IsCancelled, Driving
<1>10. CASE RunBodyFinishes(j)
  BY <1>10 DEF RunBodyFinishes, Driving
<1>11. CASE RunBodyWakes(j)
  BY <1>11 DEF RunBodyWakes, IsCancelled, Driving
<1>12. CASE Finalize(j)
  BY <1>12 DEF Finalize, Driving
<1>13. CASE FinalizeReturns(j)
  BY <1>13 DEF FinalizeReturns, Driving
<1>14. CASE FinalizeTimesOut(j)
  BY <1>14 DEF FinalizeTimesOut, Driving
<1>15. CASE BodyEnds(j)
  BY <1>15 DEF BodyEnds, LetGo, Notify, Driving
<1>16. CASE GuardDrops(j)
  BY <1>16 DEF GuardDrops, Notify, Driving
<1>17. CASE TaskCut(j)
  <2>1. /\ sup[j] \in {"queued", "running", "select"}
        /\ sup' = [sup EXCEPT ![j] = "cut"]
        /\ UNCHANGED <<gateVars, caller, child, requested, final, exitVars>>
        /\ supervisors' = supervisors - 1
        /\ incomplete' = IF final[j] < 2 THEN incomplete + 1 ELSE incomplete
    BY <1>17 DEF TaskCut, InBody
  <2>2. OthersKept(j) /\ GuardMoves(j)
    BY <2>1
  <2>3. MissingMoves(j)
    <3>1. final[j] \in 0 .. 3 /\ sup'[j] = "cut" /\ final'[j] = final[j]
      BY <2>1
    <3> QED
      BY <2>1, <3>1
  <2>4. caller[j] # "permit" /\ caller'[j] # "permit"
    BY <2>1
  <2>5. PermitMoves(j) /\ JobMoves(j)
    BY <1>17, <2>1, <2>4 DEF TaskCut
  <2>6. Typed /\ Respects(j)
    <3>1. news' \subseteq {"coord"} \cup Job \cup Observer
      BY <1>17 DEF TaskCut
    <3> QED
      BY <2>1, <2>4, <3>1
  <2> QED
    BY <2>2, <2>3, <2>5, <2>6
<1>18. CASE SpawnBlocking(j)
  BY <1>18 DEF SpawnBlocking, InBody, Driving
<1>19. CASE ChildStarts(j)
  BY <1>19 DEF ChildStarts, IsCancelled, Driving
<1>20. CASE ChildRefused(j)
  BY <1>20 DEF ChildRefused, LetGo, Notify, Driving
<1>21. CASE ChildEnds(j)
  BY <1>21 DEF ChildEnds, LetGo, Notify, Driving
<1>22. CASE RequestCancel(j)
  BY <1>22 DEF RequestCancel, Notify, Driving
<1> QED
  BY <1>1, <1>2, <1>3, <1>4, <1>5, <1>6, <1>7, <1>8, <1>9, <1>10, <1>11, <1>12, <1>13,
     <1>14, <1>15, <1>16, <1>17, <1>18, <1>19, <1>20, <1>21, <1>22 DEF Proceeds, Chooses

-----------------------------------------------------------------------------
(* The steps of the domain, its coordinator and its observers.             *)

\* What leaves the jobs and the counters alone leaves the counts exact.
LEMMA SameCounts ==
    ASSUME CountInv, UNCHANGED <<countVars, jobVars>>
    PROVE  CountInv'
<1>1. /\ \A c \in Class : Permitted(c)' = Permitted(c)
      /\ Outstanding' = Outstanding /\ Guarded' = Guarded /\ Unfinished' = Unfinished
  BY DEF jobVars, Permitted, Outstanding, Guarded, Unfinished, Alive, Holders, Incomplete
<1> QED
  BY <1>1 DEF CountInv, countVars

\* When the count of jobs is zero none is alive.
LEMMA NoneOutstanding ==
    ASSUME CountInv, jobs = 0
    PROVE  \A j \in Job : ~Alive(j)
<1>1. IsFiniteSet(Outstanding)
  BY JobAssumption, FS_Subset DEF Outstanding
<1>2. Outstanding = {}
  BY <1>1, FS_EmptySet DEF CountInv
<1> QED
  BY <1>2 DEF Outstanding

\* A step that leaves the jobs alone.
DomainStep ==
    \/ \E o \in Observer : ShutdownCloses(o) \/ Observes(o)
    \/ DomainCloses \/ PostureFails \/ PostureCloses \/ DeadlinePasses
    \/ CoordChecks \/ CoordWakes \/ CoordExits \/ Joins
    \/ UNCHANGED vars

LEMMA DomainStepIInv ==
    ASSUME IInv, DomainStep
    PROVE  IInv'
<1>1. UNCHANGED <<countVars, jobVars>>
  BY DEF DomainStep, ShutdownCloses, Observes, EnsureJoinStarted, EnsureJoinFails,
         ObserverChecks, ObserverWakes, DomainCloses, PostureFails, PostureCloses,
         DeadlinePasses, CoordChecks, CoordWakes, CoordExits, Joins, vars
<1>2. CountInv'
  BY <1>1, SameCounts DEF IInv
<1>3. NothingEarly'
  BY <1>1 DEF IInv, NothingEarly, jobVars
<1>4. \A j \in Job : Alive(j)' <=> Alive(j)
  BY <1>1 DEF Alive, Holders, jobVars
<1> USE NewsTyped
<1>5. ASSUME NEW o \in Observer, ShutdownCloses(o) \/ Observes(o) PROVE IInv'
  <2> USE <1>1, <1>2, <1>3, <1>4 DEF IInv, TypeOK, ExitInv, QuietInv, gateVars, countVars,
         jobVars, exitVars
  <2>1. CASE ShutdownCloses(o)
    BY <2>1 DEF ShutdownCloses, Close, Notify
  <2>2. CASE EnsureJoinStarted(o)
    <3>1. /\ news' \subseteq {"coord"} \cup Job \cup Observer
          /\ observer' \in [Observer -> {"idle", "closing", "check", "wait", "returned"}]
          /\ join' \in {"handle", "joining", "joined"}
      BY <2>2 DEF EnsureJoinStarted
    <3> QED
      BY <2>2, <3>1 DEF EnsureJoinStarted
  <2>3. CASE EnsureJoinFails(o)
    BY <2>3 DEF EnsureJoinFails
  <2>4. CASE ObserverChecks(o)
    BY <2>4, NoneOutstanding DEF ObserverChecks, Report
  <2>5. CASE ObserverWakes(o)
    <3>1. /\ news' \subseteq {"coord"} \cup Job \cup Observer
          /\ observer' \in [Observer -> {"idle", "closing", "check", "wait", "returned"}]
      BY <2>5 DEF ObserverWakes
    <3> QED
      BY <2>5, <3>1 DEF ObserverWakes
  <2> QED
    BY <1>5, <2>1, <2>2, <2>3, <2>4, <2>5 DEF Observes
<1>6. CASE DomainCloses \/ PostureFails \/ PostureCloses \/ DeadlinePasses
  <2>1. /\ closed' \in BOOLEAN /\ (closed => closed')
        /\ expired' \in BOOLEAN
        /\ posture' \in {"none", "failed", "closed"}
        /\ news' \subseteq {"coord"} \cup Job \cup Observer
        /\ UNCHANGED exitVars
    BY <1>6
    DEF IInv, TypeOK, DomainCloses, PostureFails, PostureCloses, DeadlinePasses, Close, Notify
  <2> QED
    BY <1>1, <1>2, <1>3, <1>4, <2>1
    DEF IInv, TypeOK, ExitInv, QuietInv, countVars, jobVars, exitVars
<1>7. CASE CoordChecks \/ CoordWakes \/ Joins
  BY <1>1, <1>2, <1>3, <1>4, <1>7
  DEF IInv, TypeOK, ExitInv, QuietInv, gateVars, countVars, jobVars, exitVars,
      CoordChecks, CoordWakes, Joins, Notify
<1>8. CASE CoordExits
  BY <1>1, <1>2, <1>3, <1>4, <1>8
  DEF IInv, TypeOK, ExitInv, QuietInv, gateVars, countVars, jobVars, exitVars,
      CoordExits, Notify
<1>9. CASE UNCHANGED vars
  BY <1>1, <1>2, <1>3, <1>4, <1>9
  DEF IInv, TypeOK, ExitInv, QuietInv, gateVars, countVars, jobVars, exitVars, vars
<1> QED
  BY <1>5, <1>6, <1>7, <1>8, <1>9 DEF DomainStep

-----------------------------------------------------------------------------
\* The initial states satisfy the invariant.
LEMMA InitIInv == Init => IInv
<1> SUFFICES ASSUME Init PROVE IInv
  OBVIOUS
<1>1. /\ \A c \in Class : Permitted(c) = {}
      /\ Outstanding = {} /\ Guarded = {} /\ Unfinished = {}
  BY DEF Init, Permitted, Outstanding, Guarded, Unfinished, Alive, Holders, Incomplete
<1>2. CountInv
  BY <1>1, FS_EmptySet, LimitAssumption DEF CountInv, Init
<1>3. TypeOK
  <2>1. free \in [Class -> Nat]
    BY LimitAssumption DEF Init
  <2>2. {jobs, supervisors, incomplete} \subseteq Nat
    BY DEF Init
  <2>3. final \in [Job -> 0 .. 3]
    BY DEF Init
  <2> QED
    BY <2>1, <2>2, <2>3 DEF Init, TypeOK
<1>4. NothingEarly /\ ExitInv /\ QuietInv
  BY DEF Init, NothingEarly, ExitInv, QuietInv
<1> QED
  BY <1>2, <1>3, <1>4 DEF IInv

\* IInv is inductive.
LEMMA NextIInv == IInv /\ [Next]_vars => IInv'
<1> SUFFICES ASSUME IInv, [Next]_vars PROVE IInv'
  OBVIOUS
<1>1. ASSUME NEW j \in Job, Proceeds(j) \/ Chooses(j) PROVE IInv'
  BY <1>1, JobActionMoves, MovesIInv
<1> QED
  BY <1>1, DomainStepIInv DEF Next, DomainStep

\* Whatever ends a job, Lease::drop and SupervisorGuard::drop account for its
\* permit, its count and its missing terminal event exactly once, and a
\* shutdown that reported no outstanding job stays right.
THEOREM AdmissionIsExact == Spec => []AdmissionExact
<1>1. IInv => AdmissionExact
  BY DEF IInv, CountInv, Permitted, Outstanding, Guarded, Unfinished, ExitInv, QuietInv,
         AdmissionExact, Holders
<1> QED
  BY <1>1, InitIInv, NextIInv, PTL DEF Spec
=============================================================================
