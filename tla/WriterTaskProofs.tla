-------------------------- MODULE WriterTaskProofs --------------------------
(***************************************************************************)
(* For any set of requests and any channel capacity: the writer task's     *)
(* answers are true and implement WriteContract, closures start on a clean *)
(* connection, requests are settled in order and the metrics are exact.    *)
(***************************************************************************)
EXTENDS WriterTask, TLAPS, SequenceTheorems, FiniteSetTheorems

LEMMA RemoveAtType ==
    ASSUME NEW S, NEW q \in Seq(S), NEW i \in 1 .. Len(q)
    PROVE  RemoveAt(q, i) \in Seq(S)
<1>1. SubSeq(q, 1, i - 1) \in Seq(S)
  BY SubSeqProperties
<1>2. SubSeq(q, i + 1, Len(q)) \in Seq(S)
  BY SubSeqProperties
<1> QED
  BY <1>1, <1>2, ConcatProperties DEF RemoveAt

-----------------------------------------------------------------------------
(* Type correctness.                                                       *)

\* pc at which the drain loop has a request in its hands.
InService == PCs \ {"recv", "terminal", "drain", "exited"}

\* TypeOK is not inductive by itself: the histories record cur, which must be
\* a request whenever the closure runs.
TypeInv == TypeOK /\ (pc \in InService => cur \in Req)

LEMMA InitType == Init => TypeInv
<1> SUFFICES ASSUME Init PROVE TypeInv
  OBVIOUS
<1>1. kind \in [Req -> AllKinds]
  BY KindsAssumption DEF Init
<1>2. waiters \in Seq(Req) /\ queue \in Seq(Req)
  BY EmptySeq DEF Init
<1>3. /\ closed \in BOOLEAN /\ metricsBad \in BOOLEAN /\ span \in BOOLEAN
      /\ poisoned \in BOOLEAN
  BY Zenon DEF Init
<1> QED
  BY <1>1, <1>2, <1>3
     DEF Init, TypeInv, TypeOK, Phases, PCs, InService, TermStates, BeginRetries

\* record_writer_task_* keep the counters natural numbers.
LEMMA CountType ==
    ASSUME NEW names, counters \in [Counters -> Nat], Count(names)
    PROVE  counters' \in [Counters -> Nat]
<1>1. \A c \in Counters : counters[c] + (IF c \in names THEN 1 ELSE 0) \in Nat
  OBVIOUS
<1> QED
  BY <1>1 DEF Count

\* The callers' actions preserve the types.
LEMMA CallerType ==
    ASSUME TypeInv, NEW r \in Req, Caller(r)
    PROVE  TypeInv'
<1> USE DEF TypeInv, TypeOK, Phases, Replies, UntouchedReplies, Answer, OfferPending,
            ReleasePending, callerVars, metricVars, taskVars, sharedVars, history
<1>1. CASE Offer(r)
  <2>1. Append(waiters, r) \in Seq(Req)
    BY AppendProperties
  <2> QED
    BY <1>1, <2>1 DEF Offer
<1>2. CASE Reserve(r)
  <2>1. waiters' \in Seq(Req)
    BY <1>2, RemoveAtType DEF Reserve, Leave
  <2> QED
    BY <1>2, <2>1 DEF Reserve
<1>3. CASE SendPermit(r)
  <2>1. Append(queue, r) \in Seq(Req)
    BY AppendProperties
  <2> QED
    BY <1>3, <2>1 DEF SendPermit
<1>4. CASE ReserveClosed(r)
  <2>1. waiters' \in Seq(Req)
    BY <1>4, RemoveAtType DEF ReserveClosed, Leave
  <2> QED
    BY <1>4, <2>1 DEF ReserveClosed
<1>5. CASE EnqueueTimeout(r)
  <2>1. waiters' \in Seq(Req)
    BY <1>5, RemoveAtType DEF EnqueueTimeout, Leave
  <2> QED
    BY <1>5, <2>1 DEF EnqueueTimeout
<1>6. CASE CallerCancels(r)
  <2>1. waiters' \in Seq(Req)
    BY <1>6, RemoveAtType DEF CallerCancels, Leave
  <2> QED
    BY <1>6, <2>1 DEF CallerCancels
<1> QED
  BY <1>1, <1>2, <1>3, <1>4, <1>5, <1>6 DEF Caller
\* So do the task's ...
LEMMA TaskType ==
    ASSUME TypeInv, Task
    PROVE  TypeInv'
<1> USE DEF TypeInv, TypeOK, Phases, PCs, InService, TermStates, Replies,
            UntouchedReplies, RolledBackReplies, Answer, Goto, Settle, ReleasePending,
            callerVars, metricVars, taskVars, sharedVars, history
<1>1. CASE Recv
  <2>1. Head(queue) \in Req /\ Tail(queue) \in Seq(Req)
    BY <1>1, HeadTailProperties DEF Recv
  <2> QED
    BY <1>1, <2>1 DEF Recv
<1>2. CASE HandlesDropped
  BY <1>2 DEF HandlesDropped
<1>3. CASE DispatchDirtyConnection
  BY <1>3 DEF DispatchDirtyConnection
<1>4. CASE DispatchCheckpoint
  BY <1>4 DEF DispatchCheckpoint
<1>5. CASE DispatchAcquire
  BY <1>5 DEF DispatchAcquire
<1>6. CASE LeaseGranted
  BY <1>6 DEF LeaseGranted
<1>7. CASE LeaseRefused
  BY <1>7 DEF LeaseRefused
<1>8. CASE TopLevelRefused
  BY <1>8 DEF TopLevelRefused
<1>9. CASE TopLevelRun
  <2>1. counters' \in [Counters -> Nat]
    BY <1>9, CountType DEF TopLevelRun
  <2> QED
    BY <1>9, <2>1 DEF TopLevelRun
<1>10. CASE RegisterSpan
  <2>1. span' \in BOOLEAN
    BY <1>10, Zenon DEF RegisterSpan, TypeInv, TypeOK
  <2> QED
    BY <1>10, <2>1 DEF RegisterSpan, BeginRetries
<1>11. CASE BeginOk
  BY <1>11 DEF BeginOk
<1>12. CASE BeginBusyRetry
  <2>1. counters' \in [Counters -> Nat]
    BY <1>12, CountType DEF BeginBusyRetry
  <2> QED
    BY <1>12, <2>1 DEF BeginBusyRetry, BeginRetries
<1>13. CASE BeginBusyFinal
  <2>1. counters' \in [Counters -> Nat]
    BY <1>13, CountType DEF BeginBusyFinal
  <2> QED
    BY <1>13, <2>1 DEF BeginBusyFinal
<1>14. CASE BeginFails
  <2>1. counters' \in [Counters -> Nat]
    BY <1>14, CountType DEF BeginFails
  <2> QED
    BY <1>14, <2>1 DEF BeginFails
<1>15. CASE CheckPasses
  <2>1. counters' \in [Counters -> Nat]
    BY <1>15, CountType DEF CheckPasses
  <2> QED
    BY <1>15, <2>1 DEF CheckPasses
<1>16. CASE CheckRefuses
  BY <1>16 DEF CheckRefuses
<1>17. CASE WrappedBody
  BY <1>17 DEF WrappedBody
<1>18. CASE CommitOk
  BY <1>18 DEF CommitOk
<1>19. CASE CommitLeavesOpen
  BY <1>19 DEF CommitLeavesOpen
<1>20. CASE CommitFails
  BY <1>20 DEF CommitFails
<1>21. CASE RollbackProved
  BY <1>21 DEF RollbackProved, RolledBackOutcome
<1>22. CASE RollbackUnproved
  BY <1>22 DEF RollbackUnproved
<1>23. CASE DropSpan
  <2>1. span' \in BOOLEAN
    BY <1>23, Zenon DEF DropSpan, TypeInv, TypeOK
  <2> QED
    BY <1>23, <2>1 DEF DropSpan
<1>24. CASE SendReply
  BY <1>24 DEF SendReply
<1>25. CASE ClosureLost
  BY <1>25 DEF ClosureLost
<1>26. CASE FinishReusable
  BY <1>26 DEF FinishReusable
<1>27. CASE RetireConnection
  <2>1. poisoned' \in BOOLEAN
    BY <1>27, Zenon DEF RetireConnection, TypeInv, TypeOK
  <2> QED
    BY <1>27, <2>1 DEF RetireConnection
<1>28. CASE ReleaseLease
  BY <1>28 DEF ReleaseLease, BeginRetries
<1>29. CASE CloseQueue
  <2>1. counters' \in [Counters -> Nat]
    BY <1>29, CountType DEF CloseQueue
  <2>2. closed' \in BOOLEAN
    BY <1>29, Zenon DEF CloseQueue, TypeInv, TypeOK
  <2> QED
    BY <1>29, <2>1, <2>2 DEF CloseQueue
<1>30. CASE DrainOne
  <2>1. Head(queue) \in Req /\ Tail(queue) \in Seq(Req)
    BY <1>30, HeadTailProperties DEF DrainOne
  <2> QED
    BY <1>30, <2>1 DEF DrainOne
<1>31. CASE DrainEnds
  BY <1>31 DEF DrainEnds
<1> QED
  BY <1>1, <1>2, <1>3, <1>4, <1>5, <1>6, <1>7, <1>8, <1>9, <1>10, <1>11, <1>12, <1>13,
     <1>14, <1>15,
     <1>16, <1>17, <1>18, <1>19, <1>20, <1>21, <1>22, <1>23, <1>24,
     <1>25, <1>26, <1>27, <1>28, <1>29, <1>30, <1>31 DEF Task

\* ... and the direct writers'.
LEMMA DirectType ==
    ASSUME TypeInv, Direct
    PROVE  TypeInv'
<1>1. poisoned' \in BOOLEAN
  BY Zenon DEF TypeInv, TypeOK, Direct, DirectAsks, DirectGranted, DirectTimesOut,
               DirectSettles, DirectPoisons
<1> QED
  BY <1>1 DEF TypeInv, TypeOK, Direct, DirectAsks, DirectGranted, DirectTimesOut,
         DirectSettles, DirectPoisons, callerVars, metricVars, taskVars, history

LEMMA TypePreserved == TypeInv /\ [Next]_vars => TypeInv'
<1> SUFFICES ASSUME TypeInv, [Next]_vars PROVE TypeInv'
  OBVIOUS
<1>1. CASE UNCHANGED vars
  BY <1>1 DEF TypeInv, TypeOK, vars, callerVars, metricVars, taskVars, sharedVars, history
<1>2. CASE Next
  BY <1>1, <1>2, CallerType, TaskType, DirectType DEF Next, Terminated
<1> QED
  BY <1>1, <1>2

\* Type correctness, for every set of requests and every channel capacity.
THEOREM TypeCorrect == Spec => []TypeOK
<1>1. TypeInv => TypeOK
  BY DEF TypeInv
<1> QED
  BY <1>1, InitType, TypePreserved, PTL DEF Spec

-----------------------------------------------------------------------------
(* True answers.  TruthfulReplies needs, besides the types, that a request  *)
(* is in one place at a time and untouched until its closure runs, and     *)
(* that the outcome the closure has computed is true before it is sent.    *)

Untouched(r) == r \notin ran /\ landed[r] = "none"

\* The channel holds each queued request once.
QueueInv ==
    /\ \A i \in 1 .. Len(queue) : phase[queue[i]] = "queued"
    /\ \A i, j \in 1 .. Len(queue) : queue[i] = queue[j] => i = j

\* The request in service is active until it is answered.
ServiceInv ==
    /\ pc \in InService \ {"finish", "release"} => phase[cur] = "active"
    /\ pc \in {"finish", "release"} => phase[cur] = "done"
    /\ pc \notin InService => cur = NoReq

\* Answers go with phases, and a request that was not dequeued is untouched.
ReplyInv ==
    \A r \in Req :
      /\ reply[r] # "none" <=> phase[r] = "done"
      /\ phase[r] \in {"idle", "waiting", "permit", "queued"} => Untouched(r)

\* What is known of the database while the closure runs.
OutcomeInv ==
    /\ pc \in {"dispatch", "leaseWait", "admitted", "begin", "check", "body"} =>
         Untouched(cur)
    /\ pc \in {"check", "body"} => conn = "txn"
    /\ pc \in {"commit", "rollback"} /\ conn = "txn" => landed[cur] = "none"
    /\ pc = "rollback" /\ why = "capacity" => cur \notin ran
    /\ pc \in {"settled", "reply"} =>
         result # "none" /\ Claims(result, cur \in ran, landed[cur])

TruthInv == TypeInv /\ QueueInv /\ ServiceInv /\ ReplyInv /\ OutcomeInv /\ TruthfulReplies

LEMMA InitTruth == Init => TruthInv
<1> SUFFICES ASSUME Init PROVE TruthInv
  OBVIOUS
<1>1. Len(queue) = 0
  BY EmptySeq DEF Init
<1>2. QueueInv
  BY <1>1 DEF QueueInv
<1>3. ServiceInv /\ ReplyInv /\ OutcomeInv /\ TruthfulReplies
  BY DEF Init, ServiceInv, ReplyInv, OutcomeInv, TruthfulReplies, Claims, Untouched,
         UntouchedReplies, RolledBackReplies, PCs, InService
<1> QED
  BY <1>2, <1>3, InitType DEF TruthInv

\* The three ways a caller's step changes what the others can see: it moves
\* towards a slot, it delivers, or it gives up with an answer that claims
\* nothing happened.
Approach(r) ==
    /\ phase[r] \in {"idle", "waiting"}
    /\ \E to \in {"waiting", "permit"} : phase' = [phase EXCEPT ![r] = to]
    /\ UNCHANGED <<reply, queue>>

GiveUp(r) ==
    /\ phase[r] = "waiting"
    /\ \E what \in UntouchedReplies : Answer(r, what)
    /\ UNCHANGED queue

LEMMA CallerEffect ==
    ASSUME NEW r \in Req, Caller(r)
    PROVE  /\ Approach(r) \/ SendPermit(r) \/ GiveUp(r)
           /\ UNCHANGED <<taskVars, sharedVars, history>>
<1> USE DEF taskVars, sharedVars, history
<1>1. CASE Offer(r)
  BY <1>1 DEF Offer, Approach
<1>2. CASE Reserve(r)
  BY <1>2 DEF Reserve, Approach
<1>3. CASE SendPermit(r)
  BY <1>3 DEF SendPermit
<1>4. CASE ReserveClosed(r)
  BY <1>4 DEF ReserveClosed, GiveUp, UntouchedReplies
<1>5. CASE EnqueueTimeout(r)
  BY <1>5 DEF EnqueueTimeout, GiveUp, UntouchedReplies
<1>6. CASE CallerCancels(r)
  BY <1>6 DEF CallerCancels, GiveUp, UntouchedReplies
<1> QED
  BY <1>1, <1>2, <1>3, <1>4, <1>5, <1>6 DEF Caller

\* Most of the task's steps leave the callers alone.
LEMMA TaskEffect ==
    ASSUME Task
    PROVE  \/ Recv \/ SendReply \/ ClosureLost \/ DrainOne
           \/ UNCHANGED <<phase, reply, queue>>
  BY DEF Task, HandlesDropped, DispatchDirtyConnection, DispatchCheckpoint,
         DispatchAcquire, LeaseGranted, LeaseRefused, TopLevelRefused, TopLevelRun,
         RegisterSpan, BeginOk, BeginBusyRetry, BeginBusyFinal, BeginFails,
         CheckPasses, CheckRefuses, WrappedBody, CommitOk, CommitLeavesOpen,
         CommitFails, RollbackProved, RollbackUnproved, DropSpan, FinishReusable,
         RetireConnection, ReleaseLease, CloseQueue, DrainEnds, callerVars

\* Every step is a caller's, one of the four that answer or move a request,
\* another step of the task, or none of theirs.
LEMMA NextCases ==
    ASSUME [Next]_vars
    PROVE  \/ \E r \in Req : Caller(r)
           \/ Task
           \/ UNCHANGED <<callerVars, taskVars, history>>
  BY DEF Next, Direct, DirectAsks, DirectGranted, DirectTimesOut, DirectSettles,
         DirectPoisons, Terminated, vars

\* The channel keeps each queued request once.
LEMMA QueuePreserved == TruthInv /\ [Next]_vars => QueueInv'
<1> SUFFICES ASSUME TruthInv, [Next]_vars PROVE QueueInv'
  OBVIOUS
<1>t. /\ queue \in Seq(Req) /\ phase \in [Req -> Phases]
      /\ \A i \in 1 .. Len(queue) : queue[i] \in Req
  BY DEF TruthInv, TypeInv, TypeOK
<1>q. QueueInv
  BY DEF TruthInv
<1>0. CASE UNCHANGED <<phase, queue>>
  BY <1>0, <1>q DEF QueueInv
<1>1. ASSUME NEW r \in Req, NEW to, phase[r] # "queued", queue' = queue,
             phase' = [phase EXCEPT ![r] = to]
      PROVE  QueueInv'
  BY <1>1, <1>t, <1>q DEF QueueInv
<1>2. ASSUME queue # <<>>, queue' = Tail(queue), NEW to,
             phase' = [phase EXCEPT ![Head(queue)] = to]
      PROVE  QueueInv'
  <2>1. /\ Len(queue) \in Nat \ {0} /\ Head(queue) = queue[1]
        /\ Len(queue') = Len(queue) - 1
        /\ \A i \in 1 .. Len(queue') : queue'[i] = queue[i + 1]
    BY <1>2, <1>t, HeadTailProperties
  <2> QED
    BY <1>2, <1>t, <1>q, <2>1 DEF QueueInv
<1>3. ASSUME NEW r \in Req, SendPermit(r) PROVE QueueInv'
  <2>1. /\ Len(queue') = Len(queue) + 1
        /\ \A i \in 1 .. Len(queue) : queue'[i] = queue[i]
        /\ queue'[Len(queue) + 1] = r
    BY <1>3, <1>t, AppendProperties DEF SendPermit
  <2>2. /\ phase[r] = "permit" /\ phase' = [phase EXCEPT ![r] = "queued"]
        /\ Len(queue) \in Nat
    BY <1>3, <1>t, LenProperties DEF SendPermit
  <2>3. \A i \in 1 .. Len(queue) : queue[i] # r
    BY <1>q, <2>2 DEF QueueInv
  <2> QED
    BY ONLY <1>t, <1>q, <2>1, <2>2, <2>3, r \in Req DEF QueueInv
<1>4. ASSUME NEW r \in Req, Caller(r) PROVE QueueInv'
  BY <1>1, <1>3, <1>4, CallerEffect DEF Approach, GiveUp, Answer
<1>5. CASE Task
  <2>1. CASE Recv
    BY <1>2, <2>1 DEF Recv
  <2>2. CASE DrainOne
    BY <1>2, <2>2 DEF DrainOne, Answer
  <2>3. CASE SendReply \/ ClosureLost
    <3>1. cur \in Req /\ phase[cur] = "active"
      BY <2>3 DEF TruthInv, TypeInv, ServiceInv, SendReply, ClosureLost, InService, PCs
    <3>2. queue' = queue /\ phase' = [phase EXCEPT ![cur] = "done"]
      BY <2>3 DEF SendReply, ClosureLost, Answer
    <3> QED
      BY <1>1, <3>1, <3>2
  <2> QED
    BY <1>0, <1>5, <2>1, <2>2, <2>3, TaskEffect
<1> QED
  BY <1>0, <1>4, <1>5, NextCases DEF callerVars

\* The rest of the invariant, without the channel.
Settlement == ServiceInv /\ ReplyInv /\ OutcomeInv /\ TruthfulReplies

\* A caller's step concerns a request that is not in service.
LEMMA CallerSettlement ==
    ASSUME TruthInv, NEW r \in Req, Caller(r)
    PROVE  Settlement'
<1> USE ReqAssumption
    DEF TruthInv, TypeInv, TypeOK, Settlement, ServiceInv, ReplyInv, OutcomeInv,
        TruthfulReplies, Untouched, Claims, UntouchedReplies, RolledBackReplies,
        InService, PCs, taskVars, history
<1>0. UNCHANGED <<taskVars, history>>
  BY CallerEffect
<1>1. pc \in InService => cur \in Req /\ phase[cur] \in {"active", "done"}
  OBVIOUS
<1>2. CASE Approach(r)
  BY <1>0, <1>1, <1>2 DEF Approach
<1>3. CASE SendPermit(r)
  BY <1>0, <1>1, <1>3 DEF SendPermit
<1>4. CASE GiveUp(r)
  BY <1>0, <1>1, <1>4 DEF GiveUp, Answer
<1> QED
  BY <1>2, <1>3, <1>4, CallerEffect

\* The task's steps, one by one.
LEMMA TaskSettlement ==
    ASSUME TruthInv, Task
    PROVE  Settlement'
<1> USE ReqAssumption
    DEF TruthInv, TypeInv, TypeOK, Settlement, ServiceInv, ReplyInv, OutcomeInv,
        TruthfulReplies, Untouched, Claims, UntouchedReplies, RolledBackReplies,
        Phases, InService, PCs, Goto, Settle, Answer, callerVars, taskVars, history
<1>1. CASE Recv
  <2>1. Head(queue) \in Req /\ phase[Head(queue)] = "queued"
    BY <1>1, HeadTailProperties, LenProperties DEF Recv, QueueInv
  <2> QED
    BY <1>1, <2>1 DEF Recv
<1>2. CASE HandlesDropped
  BY <1>2 DEF HandlesDropped
<1>3. CASE DispatchDirtyConnection
  BY <1>3 DEF DispatchDirtyConnection
<1>4. CASE DispatchCheckpoint
  BY <1>4 DEF DispatchCheckpoint
<1>5. CASE DispatchAcquire
  BY <1>5 DEF DispatchAcquire
<1>6. CASE LeaseGranted
  BY <1>6 DEF LeaseGranted
<1>7. CASE LeaseRefused
  BY <1>7 DEF LeaseRefused
<1>8. CASE TopLevelRefused
  BY <1>8 DEF TopLevelRefused
<1>9. CASE TopLevelRun
  BY <1>9 DEF TopLevelRun
<1>10. CASE RegisterSpan
  BY <1>10 DEF RegisterSpan
<1>11. CASE BeginOk
  BY <1>11 DEF BeginOk
<1>12. CASE BeginBusyRetry
  BY <1>12 DEF BeginBusyRetry
<1>13. CASE BeginBusyFinal
  BY <1>13 DEF BeginBusyFinal
<1>14. CASE BeginFails
  BY <1>14 DEF BeginFails
<1>15. CASE CheckPasses
  BY <1>15 DEF CheckPasses
<1>16. CASE CheckRefuses
  BY <1>16 DEF CheckRefuses
<1>17. CASE WrappedBody
  BY <1>17 DEF WrappedBody
<1>18. CASE CommitOk
  BY <1>18 DEF CommitOk
<1>19. CASE CommitLeavesOpen
  BY <1>19 DEF CommitLeavesOpen
<1>20. CASE CommitFails
  BY <1>20 DEF CommitFails
<1>21. CASE RollbackProved
  BY <1>21 DEF RollbackProved, RolledBackOutcome
<1>22. CASE RollbackUnproved
  BY <1>22 DEF RollbackUnproved
<1>23. CASE DropSpan
  BY <1>23 DEF DropSpan
<1>24. CASE SendReply
  BY <1>24 DEF SendReply
<1>25. CASE ClosureLost
  BY <1>25 DEF ClosureLost
<1>26. CASE FinishReusable
  BY <1>26 DEF FinishReusable
<1>27. CASE RetireConnection
  BY <1>27 DEF RetireConnection
<1>28. CASE ReleaseLease
  BY <1>28 DEF ReleaseLease
<1>29. CASE CloseQueue
  BY <1>29 DEF CloseQueue
<1>30. CASE DrainOne
  <2>1. Head(queue) \in Req /\ phase[Head(queue)] = "queued"
    BY <1>30, HeadTailProperties, LenProperties DEF DrainOne, QueueInv
  <2> QED
    BY <1>30, <2>1 DEF DrainOne
<1>31. CASE DrainEnds
  BY <1>31 DEF DrainEnds
<1> QED
  BY <1>1, <1>2, <1>3, <1>4, <1>5, <1>6, <1>7, <1>8, <1>9, <1>10, <1>11, <1>12, <1>13,
     <1>14, <1>15,
     <1>16, <1>17, <1>18, <1>19, <1>20, <1>21, <1>22, <1>23, <1>24,
     <1>25, <1>26, <1>27, <1>28, <1>29, <1>30, <1>31 DEF Task

LEMMA TruthPreserved == TruthInv /\ [Next]_vars => TruthInv'
<1> SUFFICES ASSUME TruthInv, [Next]_vars PROVE TruthInv'
  OBVIOUS
<1>1. TypeInv'
  BY TypePreserved DEF TruthInv
<1>2. QueueInv'
  BY QueuePreserved
<1>3. ASSUME UNCHANGED <<callerVars, taskVars, history>> PROVE Settlement'
  BY <1>3 DEF TruthInv, Settlement, ServiceInv, ReplyInv, OutcomeInv,
              TruthfulReplies, Untouched, callerVars, taskVars, history
<1>4. Settlement'
  BY <1>3, NextCases, CallerSettlement, TaskSettlement
<1> QED
  BY <1>1, <1>2, <1>4 DEF TruthInv, Settlement

\* Every answer the writer task gives is true, for any number of requests, any
\* channel capacity, and whether or not a failed BEGIN can leave a transaction.
THEOREM RepliesAreTruthful == Spec => []TruthfulReplies
<1>1. TruthInv => TruthfulReplies
  BY DEF TruthInv
<1> QED
  BY <1>1, InitTruth, TruthPreserved, PTL DEF Spec

-----------------------------------------------------------------------------
(* Refinement: every step is a step of WriteContract or changes nothing it *)
(* can see.  The invariant supplies what the contract asks of a step: a    *)
(* request taken from the channel is unanswered, one refused is untouched, *)
(* one told Ok is there in full, service ends after the answer.            *)

LEMMA InitContract == Init => Contract!Init
  BY DEF Init, Contract!Init

LEMMA CallerContract ==
    ASSUME TruthInv, NEW r \in Req, Caller(r)
    PROVE  [Contract!Next]_Contract!vars
<1>0. cur' = cur /\ landed' = landed
  BY CallerEffect DEF taskVars, history
<1>1. CASE Approach(r) \/ SendPermit(r)
  BY <1>0, <1>1 DEF Approach, SendPermit, Contract!vars
<1>2. CASE GiveUp(r)
  <2>1. Contract!Refuse(r)
    BY <1>0, <1>2 DEF GiveUp, Answer, Contract!Refuse, TruthInv, ReplyInv, Untouched
  <2> QED
    BY <2>1 DEF Contract!Next
<1> QED
  BY <1>1, <1>2, CallerEffect

LEMMA TaskContract ==
    ASSUME TruthInv, Task
    PROVE  [Contract!Next]_Contract!vars
<1> USE DEF TruthInv, TypeInv, TypeOK, ServiceInv, ReplyInv, InService, PCs,
            callerVars, taskVars, history
<1>1. CASE Recv
  <2>1. Head(queue) \in Req /\ phase[Head(queue)] = "queued"
    BY <1>1, HeadTailProperties, LenProperties DEF Recv, QueueInv
  <2>2. Contract!Serve(Head(queue))
    BY <1>1, <2>1 DEF Recv, Contract!Serve
  <2> QED
    BY <2>1, <2>2 DEF Contract!Next
<1>2. CASE DrainOne
  <2>1. Head(queue) \in Req /\ phase[Head(queue)] = "queued"
    BY <1>2, HeadTailProperties, LenProperties DEF DrainOne, QueueInv
  <2>2. Contract!Refuse(Head(queue))
    BY <1>2, <2>1 DEF DrainOne, Answer, Contract!Refuse, Untouched, UntouchedReplies
  <2> QED
    BY <2>1, <2>2 DEF Contract!Next
<1>3. CASE SendReply
  <2>1. cur \in Req /\ reply[cur] = "none" /\ phase[cur] = "active"
    BY <1>3 DEF SendReply
  <2>2. /\ reply' = [reply EXCEPT ![cur] = result]
        /\ cur' = cur /\ landed' = landed
    BY <1>3 DEF SendReply, Answer
  <2>3. /\ result \in Replies
        /\ Claims(result, cur \in ran, landed[cur])
    BY <1>3 DEF SendReply, OutcomeInv
  <2>4. CASE result \in UntouchedReplies \cup RolledBackReplies
    <3>1. landed[cur] = "none"
      BY <2>3, <2>4 DEF Claims
    <3>2. Contract!Refuse(cur)
      BY <2>1, <2>2, <2>4, <3>1 DEF Contract!Refuse
    <3> QED
      BY <2>1, <3>2 DEF Contract!Next
  <2>5. CASE result = "Ok"
    <3>1. Contract!Confirm(cur)
      BY <2>1, <2>2, <2>3, <2>5 DEF Contract!Confirm, Claims
    <3> QED
      BY <2>1, <3>1 DEF Contract!Next
  <2>6. CASE result \in {"OpError", "SideEffectsUnknown"}
    <3>1. Contract!Shrug(cur)
      BY <2>1, <2>2, <2>6 DEF Contract!Shrug
    <3> QED
      BY <2>1, <3>1 DEF Contract!Next
  <2> QED
    BY <2>3, <2>4, <2>5, <2>6 DEF Replies
<1>4. CASE ClosureLost
  <2>1. cur \in Req /\ reply[cur] = "none"
    BY <1>4 DEF ClosureLost
  <2>2. Contract!Shrug(cur)
    BY <1>4, <2>1 DEF ClosureLost, Answer, Contract!Shrug
  <2> QED
    BY <2>1, <2>2 DEF Contract!Next
<1>5. CASE TopLevelRun \/ WrappedBody \/ CommitOk \/ CommitFails
  <2>1. cur \in Req /\ reply[cur] = "none"
    BY <1>5 DEF TopLevelRun, WrappedBody, CommitOk, CommitFails
  <2>2. /\ cur' = cur /\ reply' = reply
        /\ \/ landed' = landed
           \/ \E part \in {"none", "some", "all"} :
                landed' = [landed EXCEPT ![cur] = part]
    BY <1>5 DEF TopLevelRun, WrappedBody, CommitOk, CommitFails
  <2>3. Contract!Write(cur) \/ UNCHANGED Contract!vars
    BY <2>1, <2>2 DEF Contract!Write, Contract!vars
  <2> QED
    BY <2>1, <2>3 DEF Contract!Next
<1>6. CASE ReleaseLease
  <2>1. cur \in Req /\ reply[cur] # "none"
    BY <1>6 DEF ReleaseLease
  <2>2. Contract!Finish(cur)
    BY <1>6, <2>1 DEF ReleaseLease, Contract!Finish
  <2> QED
    BY <2>1, <2>2 DEF Contract!Next
<1>7. CASE \/ HandlesDropped \/ DispatchDirtyConnection \/ DispatchCheckpoint
           \/ DispatchAcquire \/ LeaseGranted \/ LeaseRefused \/ TopLevelRefused
           \/ RegisterSpan \/ BeginOk \/ BeginBusyRetry \/ BeginBusyFinal
           \/ BeginFails \/ CheckPasses \/ CheckRefuses \/ CommitLeavesOpen
           \/ RollbackProved \/ RollbackUnproved \/ DropSpan \/ FinishReusable
           \/ RetireConnection \/ CloseQueue \/ DrainEnds
  <2>1. UNCHANGED <<cur, reply, landed>>
    BY <1>7 DEF HandlesDropped, DispatchDirtyConnection, DispatchCheckpoint,
         DispatchAcquire, LeaseGranted, LeaseRefused, TopLevelRefused, RegisterSpan,
         BeginOk, BeginBusyRetry, BeginBusyFinal, BeginFails, CheckPasses,
         CheckRefuses, CommitLeavesOpen, RollbackProved, RollbackUnproved, DropSpan,
         FinishReusable, RetireConnection, CloseQueue, DrainEnds
  <2> QED
    BY <2>1 DEF Contract!vars
<1> QED
  BY <1>1, <1>2, <1>3, <1>4, <1>5, <1>6, <1>7 DEF Task

LEMMA StepContract == TruthInv /\ [Next]_vars => [Contract!Next]_Contract!vars
<1> SUFFICES ASSUME TruthInv, [Next]_vars PROVE [Contract!Next]_Contract!vars
  OBVIOUS
<1>1. CASE UNCHANGED <<callerVars, taskVars, history>>
  BY <1>1 DEF Contract!vars, callerVars, taskVars, history
<1> QED
  BY <1>1, NextCases, CallerContract, TaskContract

\* The writer task implements its contract: requests are served one at a time,
\* only the one in service changes the database and only until it is answered,
\* and each is answered once, truthfully.
THEOREM ContractImplemented == Spec => ImplementsContract
  BY InitTruth, TruthPreserved, InitContract, StepContract, PTL
     DEF Spec, ImplementsContract, Contract!Spec

-----------------------------------------------------------------------------
(* Where a closure starts.                                                 *)

\* The connection was looked at before the lease was asked for, and a wrapped
\* request passes its own BEGIN before its body.
StartInv ==
    /\ pc \in {"leaseWait", "admitted", "begin"} => conn = "auto"
    /\ pc \in {"check", "body"} => conn = "txn" /\ cur \in began /\ kind[cur] = "wrapped"
    /\ pc = "begin" => kind[cur] = "wrapped"

LEMMA TaskStart ==
    ASSUME TypeInv, StartInv, Task
    PROVE  StartInv'
<1> USE DEF TypeInv, TypeOK, StartInv, InService, PCs, Goto, Settle, callerVars,
            history
<1>1. CASE Recv
  BY <1>1 DEF Recv
<1>2. CASE HandlesDropped
  BY <1>2 DEF HandlesDropped
<1>3. CASE DispatchDirtyConnection
  BY <1>3 DEF DispatchDirtyConnection
<1>4. CASE DispatchCheckpoint
  BY <1>4 DEF DispatchCheckpoint
<1>5. CASE DispatchAcquire
  BY <1>5 DEF DispatchAcquire
<1>6. CASE LeaseGranted
  BY <1>6 DEF LeaseGranted
<1>7. CASE LeaseRefused
  BY <1>7 DEF LeaseRefused
<1>8. CASE TopLevelRefused
  BY <1>8 DEF TopLevelRefused
<1>9. CASE TopLevelRun
  BY <1>9 DEF TopLevelRun
<1>10. CASE RegisterSpan
  BY <1>10 DEF RegisterSpan
<1>11. CASE BeginOk
  BY <1>11 DEF BeginOk
<1>12. CASE BeginBusyRetry
  BY <1>12 DEF BeginBusyRetry
<1>13. CASE BeginBusyFinal
  BY <1>13 DEF BeginBusyFinal
<1>14. CASE BeginFails
  BY <1>14 DEF BeginFails
<1>15. CASE CheckPasses
  BY <1>15 DEF CheckPasses
<1>16. CASE CheckRefuses
  BY <1>16 DEF CheckRefuses
<1>17. CASE WrappedBody
  BY <1>17 DEF WrappedBody
<1>18. CASE CommitOk
  BY <1>18 DEF CommitOk
<1>19. CASE CommitLeavesOpen
  BY <1>19 DEF CommitLeavesOpen
<1>20. CASE CommitFails
  BY <1>20 DEF CommitFails
<1>21. CASE RollbackProved
  BY <1>21 DEF RollbackProved, RolledBackOutcome
<1>22. CASE RollbackUnproved
  BY <1>22 DEF RollbackUnproved
<1>23. CASE DropSpan
  BY <1>23 DEF DropSpan
<1>24. CASE SendReply
  BY <1>24 DEF SendReply
<1>25. CASE ClosureLost
  BY <1>25 DEF ClosureLost
<1>26. CASE FinishReusable
  BY <1>26 DEF FinishReusable
<1>27. CASE RetireConnection
  BY <1>27 DEF RetireConnection
<1>28. CASE ReleaseLease
  BY <1>28 DEF ReleaseLease
<1>29. CASE CloseQueue
  BY <1>29 DEF CloseQueue
<1>30. CASE DrainOne
  BY <1>30 DEF DrainOne, taskVars
<1>31. CASE DrainEnds
  BY <1>31 DEF DrainEnds
<1> QED
  BY <1>1, <1>2, <1>3, <1>4, <1>5, <1>6, <1>7, <1>8, <1>9, <1>10, <1>11, <1>12,
     <1>13, <1>14, <1>15, <1>16, <1>17, <1>18, <1>19, <1>20, <1>21, <1>22, <1>23,
     <1>24, <1>25, <1>26, <1>27, <1>28, <1>29, <1>30, <1>31 DEF Task

LEMMA StartPreserved == TypeInv /\ StartInv /\ [Next]_vars => StartInv'
<1> SUFFICES ASSUME TypeInv, StartInv, [Next]_vars PROVE StartInv'
  OBVIOUS
<1>1. ASSUME NEW r \in Req, Caller(r) PROVE UNCHANGED <<kind, taskVars, history>>
  BY <1>1 DEF Caller, Offer, Reserve, SendPermit, ReserveClosed, EnqueueTimeout,
              CallerCancels, taskVars, sharedVars, history
<1>2. CASE UNCHANGED <<kind, taskVars, history>>
  BY <1>2 DEF StartInv, taskVars, history
<1> QED
  BY <1>1, <1>2, TaskStart, NextCases DEF callerVars

\* A closure starts only on a connection in the state it was promised: a
\* wrapped request's inside the transaction that its own BEGIN opened, any other
\* request's in autocommit mode, also after a failed BEGIN of an earlier request
\* left a transaction open.
THEOREM ClosuresStartClean == Spec => CleanStart
<1> DEFINE Start == \A r \in ran' \ ran : IF kind[r] = "wrapped"
                                            THEN conn = "txn" /\ r \in began
                                            ELSE conn = "auto"
           Inv == TypeInv /\ StartInv
<1>1. Init => Inv
  BY InitType DEF Init, StartInv
<1>2. Inv /\ [Next]_vars => Inv'
  BY TypePreserved, StartPreserved
<1>3. Inv /\ [Next]_vars => [Start]_vars
  <2> SUFFICES ASSUME TypeInv, StartInv, [Next]_vars, NEW r \in ran' \ ran
               PROVE  IF kind[r] = "wrapped" THEN conn = "txn" /\ r \in began
                                             ELSE conn = "auto"
    OBVIOUS
  <2>1. Task
    BY NextCases, CallerEffect DEF history
  <2>2. TopLevelRun \/ WrappedBody
    BY <2>1 DEF Task, Recv, HandlesDropped, DispatchDirtyConnection,
         DispatchCheckpoint, DispatchAcquire, LeaseGranted, LeaseRefused,
         TopLevelRefused, RegisterSpan, BeginOk, BeginBusyRetry, BeginBusyFinal,
         BeginFails, CheckPasses, CheckRefuses, CommitOk, CommitLeavesOpen,
         CommitFails, RollbackProved, RollbackUnproved, DropSpan, SendReply,
         ClosureLost, FinishReusable, RetireConnection, ReleaseLease, CloseQueue,
         DrainOne, DrainEnds, history
  <2>3. CASE TopLevelRun
    BY <2>3 DEF TopLevelRun, StartInv
  <2>4. CASE WrappedBody
    BY <2>4 DEF WrappedBody, StartInv
  <2> QED
    BY <2>2, <2>3, <2>4
<1> HIDE DEF Inv
<1> QED
  BY <1>1, <1>2, <1>3, PTL DEF Spec, CleanStart

-----------------------------------------------------------------------------
(* Orderly settlement.  A BEGIN that fails and leaves a transaction open is  *)
(* a defect of SQLite; without it the connection is in autocommit mode       *)
(* whenever the task hands it back or serves nobody.                         *)

\* The connection at each point of a request's service.
ConnInv ==
    /\ pc \in PCs \ {"check", "body", "commit", "rollback", "settled", "reply", "finish"} =>
         conn # "txn"
    /\ pc \in {"settled", "reply", "finish"} /\ term = "none" => conn # "txn"
    /\ conn = "leaked" => poisoned

\* The lease is the task's from the grant to the release, and a direct writer's
\* while that one has a transaction or could not settle it.
LeaseInv ==
    /\ pc = "admitted" => kind[cur] = "checkpoint" \/ lease = "task"
    /\ pc \in {"begin", "check", "body", "commit", "rollback", "settled"} => lease = "task"
    /\ conn = "txn" => kind[cur] = "checkpoint" \/ lease = "task"
    /\ direct \in {"holding", "unsettled"} => lease = "direct"

\* The span lives from its registration to the settlement.
SpanInv == span => pc \in {"begin", "check", "body", "commit", "rollback", "settled"}

OrderInv == ConnInv /\ LeaseInv /\ SpanInv

LEMMA TaskOrder ==
    ASSUME ~BeginMayLeak, TypeInv, StartInv, OrderInv, Task
    PROVE  OrderInv'
<1> USE DEF TypeInv, TypeOK, StartInv, OrderInv, ConnInv, LeaseInv, SpanInv,
            InService, PCs, TermStates, Goto, Settle, callerVars, sharedVars, history
<1>1. CASE Recv
  BY <1>1 DEF Recv
<1>2. CASE HandlesDropped
  BY <1>2 DEF HandlesDropped
<1>3. CASE DispatchDirtyConnection
  BY <1>3 DEF DispatchDirtyConnection
<1>4. CASE DispatchCheckpoint
  BY <1>4 DEF DispatchCheckpoint
<1>5. CASE DispatchAcquire
  BY <1>5 DEF DispatchAcquire
<1>6. CASE LeaseGranted
  BY <1>6 DEF LeaseGranted
<1>7. CASE LeaseRefused
  BY <1>7 DEF LeaseRefused
<1>8. CASE TopLevelRefused
  BY <1>8 DEF TopLevelRefused
<1>9. CASE TopLevelRun
  BY <1>9 DEF TopLevelRun
<1>10. CASE RegisterSpan
  BY <1>10 DEF RegisterSpan
<1>11. CASE BeginOk
  BY <1>11 DEF BeginOk
<1>12. CASE BeginBusyRetry
  BY <1>12 DEF BeginBusyRetry
<1>13. CASE BeginBusyFinal
  BY <1>13 DEF BeginBusyFinal
<1>14. CASE BeginFails
  BY <1>14 DEF BeginFails
<1>15. CASE CheckPasses
  BY <1>15 DEF CheckPasses
<1>16. CASE CheckRefuses
  BY <1>16 DEF CheckRefuses
<1>17. CASE WrappedBody
  BY <1>17 DEF WrappedBody
<1>18. CASE CommitOk
  BY <1>18 DEF CommitOk
<1>19. CASE CommitLeavesOpen
  BY <1>19 DEF CommitLeavesOpen
<1>20. CASE CommitFails
  BY <1>20 DEF CommitFails
<1>21. CASE RollbackProved
  BY <1>21 DEF RollbackProved, RolledBackOutcome
<1>22. CASE RollbackUnproved
  BY <1>22 DEF RollbackUnproved
<1>23. CASE DropSpan
  BY <1>23 DEF DropSpan
<1>24. CASE SendReply
  BY <1>24 DEF SendReply
<1>25. CASE ClosureLost
  BY <1>25 DEF ClosureLost
<1>26. CASE FinishReusable
  BY <1>26 DEF FinishReusable
<1>27. CASE RetireConnection
  BY <1>27 DEF RetireConnection
<1>28. CASE ReleaseLease
  BY <1>28 DEF ReleaseLease
<1>29. CASE CloseQueue
  BY <1>29 DEF CloseQueue
<1>30. CASE DrainOne
  BY <1>30 DEF DrainOne, taskVars
<1>31. CASE DrainEnds
  BY <1>31 DEF DrainEnds
<1> QED
  BY <1>1, <1>2, <1>3, <1>4, <1>5, <1>6, <1>7, <1>8, <1>9, <1>10, <1>11, <1>12,
     <1>13, <1>14, <1>15, <1>16, <1>17, <1>18, <1>19, <1>20, <1>21, <1>22, <1>23,
     <1>24, <1>25, <1>26, <1>27, <1>28, <1>29, <1>30, <1>31 DEF Task

LEMMA OrderPreserved ==
    ASSUME ~BeginMayLeak
    PROVE  TypeInv /\ StartInv /\ OrderInv /\ [Next]_vars => OrderInv'
<1> SUFFICES ASSUME TypeInv, StartInv, OrderInv, [Next]_vars PROVE OrderInv'
  OBVIOUS
<1> USE DEF OrderInv, ConnInv, LeaseInv, SpanInv, taskVars, sharedVars, callerVars
<1>1. ASSUME NEW r \in Req, Caller(r) PROVE OrderInv'
  <2>1. UNCHANGED <<kind, taskVars, sharedVars>>
    BY <1>1 DEF Caller, Offer, Reserve, SendPermit, ReserveClosed, EnqueueTimeout,
                CallerCancels
  <2> QED
    BY <2>1
<1>2. CASE Direct
  BY <1>2 DEF Direct, DirectAsks, DirectGranted, DirectTimesOut, DirectSettles,
              DirectPoisons
<1>3. CASE UNCHANGED vars
  BY <1>3 DEF vars
<1> QED
  BY <1>1, <1>2, <1>3, TaskOrder DEF Next, Terminated

\* A request is settled in order: the task's connection is in a transaction only
\* for a request in service, under the volume lease unless that is a checkpoint;
\* a connection that could not be settled has poisoned the admission; the span
\* is gone before the caller resumes.  (Where a failed BEGIN can leave a
\* transaction, the connection may be handed back inside one; ClosuresStartClean
\* is what remains.)
THEOREM SettlesInOrder == ASSUME ~BeginMayLeak PROVE Spec => []OrderlySettlement
<1> DEFINE Inv == TruthInv /\ StartInv /\ OrderInv
<1>1. Init => Inv
  BY InitTruth DEF Init, StartInv, OrderInv, ConnInv, LeaseInv, SpanInv
<1>2. Inv /\ [Next]_vars => Inv'
  BY TruthPreserved, StartPreserved, OrderPreserved DEF TruthInv
<1>3. Inv => OrderlySettlement
  BY ReqAssumption
     DEF OrderlySettlement, TruthInv, TypeInv, TypeOK, ServiceInv, ReplyInv, InService,
         PCs, OrderInv, ConnInv, LeaseInv, SpanInv
<1> HIDE DEF Inv
<1> QED
  BY <1>1, <1>2, <1>3, PTL DEF Spec

-----------------------------------------------------------------------------
(* Exact counters.  The number of requests may be infinite; what is counted  *)
(* is finite at every moment.                                                *)

Counts(S, n) == IsFiniteSet(S) /\ n = Cardinality(S)

LEMMA CountChanges ==
    ASSUME NEW S, NEW n \in Nat, Counts(S, n), NEW x
    PROVE  /\ x \notin S => Counts(S \cup {x}, n + 1)
           /\ x \in S => n > 0 /\ Counts(S \ {x}, n - 1)
<1>1. x \notin S => Counts(S \cup {x}, n + 1)
  BY FS_AddElement DEF Counts
<1>2. ASSUME x \in S PROVE n > 0 /\ Counts(S \ {x}, n - 1)
  <2>1. IsFiniteSet(S \ {x}) /\ Cardinality(S \ {x}) = n - 1
    BY <1>2, FS_RemoveElement DEF Counts
  <2>2. Cardinality(S \ {x}) \in Nat
    BY <2>1, FS_CardinalityType
  <2> QED
    BY <2>1, <2>2 DEF Counts
<1> QED
  BY <1>1, <1>2

\* The pending gauge.
Pending == {r \in Req : phase[r] \in {"waiting", "permit", "queued"}}

GaugeInv == ~metricsBad /\ Counts(Pending, depth)

LEMMA OfferCounts ==
    ASSUME GaugeInv, depth \in Nat, NEW r, r \notin Pending, OfferPending,
           Pending' = Pending \cup {r}
    PROVE  GaugeInv'
  BY CountChanges DEF GaugeInv, OfferPending

LEMMA ReleaseCounts ==
    ASSUME GaugeInv, depth \in Nat, NEW r \in Pending, ReleasePending,
           Pending' = Pending \ {r}
    PROVE  GaugeInv'
<1>1. depth > 0 /\ Counts(Pending \ {r}, depth - 1)
  BY CountChanges DEF GaugeInv
<1>2. depth # 0
  BY <1>1
<1>3. ~metricsBad' /\ depth' = depth - 1
  BY <1>2, Zenon DEF GaugeInv, ReleasePending
<1> QED
  BY <1>1, <1>3 DEF GaugeInv

LEMMA GaugePreserved == TruthInv /\ GaugeInv /\ [Next]_vars => GaugeInv'
<1> SUFFICES ASSUME TruthInv, GaugeInv, [Next]_vars PROVE GaugeInv'
  OBVIOUS
<1>t. phase \in [Req -> Phases] /\ depth \in Nat
  BY DEF TruthInv, TypeInv, TypeOK
<1>0. ASSUME Pending' = Pending, UNCHANGED metricVars PROVE GaugeInv'
  BY <1>0 DEF GaugeInv, metricVars
<1>1. ASSUME NEW r \in Req, Caller(r) PROVE GaugeInv'
  <2>1. CASE Offer(r)
    <3>1. Pending' = Pending \cup {r} /\ r \notin Pending
      BY <1>t, <2>1 DEF Offer, Pending
    <3> QED
      BY <1>t, <2>1, <3>1, OfferCounts DEF Offer
  <2>2. CASE Reserve(r) \/ SendPermit(r)
    <3>1. Pending' = Pending
      BY <1>t, <2>2 DEF Reserve, SendPermit, Pending
    <3> QED
      BY <1>0, <2>2, <3>1 DEF Reserve, SendPermit
  <2>3. CASE ReserveClosed(r) \/ EnqueueTimeout(r) \/ CallerCancels(r)
    <3>1. Pending' = Pending \ {r} /\ r \in Pending
      BY <1>t, <2>3 DEF ReserveClosed, EnqueueTimeout, CallerCancels, Answer, Pending
    <3> QED
      BY <1>t, <2>3, <3>1, ReleaseCounts DEF ReserveClosed, EnqueueTimeout, CallerCancels
  <2> QED
    BY <1>1, <2>1, <2>2, <2>3 DEF Caller
<1>2. CASE Recv \/ DrainOne
  <2>1. Head(queue) \in Req /\ phase[Head(queue)] = "queued"
    BY <1>2, HeadTailProperties, LenProperties
       DEF Recv, DrainOne, TruthInv, TypeInv, TypeOK, QueueInv
  <2>2. Pending' = Pending \ {Head(queue)} /\ Head(queue) \in Pending
    BY <1>t, <1>2, <2>1 DEF Recv, DrainOne, Answer, Pending
  <2> QED
    BY <1>t, <1>2, <2>2, ReleaseCounts DEF Recv, DrainOne
<1>3. CASE SendReply \/ ClosureLost
  <2>1. cur \in Req /\ phase[cur] = "active"
    BY <1>3 DEF TruthInv, TypeInv, ServiceInv, SendReply, ClosureLost, InService, PCs
  <2>2. Pending' = Pending
    BY <1>t, <1>3, <2>1 DEF SendReply, ClosureLost, Answer, Pending
  <2> QED
    BY <1>0, <1>3, <2>2 DEF SendReply, ClosureLost
<1>4. CASE UNCHANGED <<phase, metricVars>>
  BY <1>0, <1>4 DEF Pending
<1>5. CASE Task
  <2>1. \/ Recv \/ DrainOne \/ SendReply \/ ClosureLost
        \/ UNCHANGED <<phase, metricVars>>
    BY <1>5
       DEF Task, HandlesDropped, DispatchDirtyConnection, DispatchCheckpoint,
         DispatchAcquire, LeaseGranted, LeaseRefused, TopLevelRefused, TopLevelRun,
         RegisterSpan, BeginOk, BeginBusyRetry, BeginBusyFinal, BeginFails,
         CheckPasses, CheckRefuses, WrappedBody, CommitOk, CommitLeavesOpen,
         CommitFails, RollbackProved, RollbackUnproved, DropSpan, FinishReusable,
         RetireConnection, ReleaseLease, CloseQueue, DrainEnds, callerVars
  <2> QED
    BY <1>2, <1>3, <1>4, <2>1
<1>6. CASE Direct \/ Terminated \/ UNCHANGED vars
  BY <1>4, <1>6 DEF Direct, DirectAsks, DirectGranted, DirectTimesOut, DirectSettles,
                    DirectPoisons, Terminated, vars, callerVars
<1> QED
  BY <1>1, <1>5, <1>6 DEF Next

\* The outcome in hand: none until the closure settles, the one told afterwards,
\* unless the closure was lost; a lost closure ends the task.
HandInv ==
    /\ pc \notin {"settled", "reply", "finish", "release"} => result = "none"
    /\ pc \in {"finish", "release"} /\ term # "JoinError" => reply[cur] = result
    /\ term = "JoinError" => pc \in {"finish", "release", "terminal", "drain", "exited"}

LEMMA TaskHand ==
    ASSUME TruthInv, HandInv, Task
    PROVE  HandInv'
<1> USE ReqAssumption
    DEF TruthInv, TypeInv, TypeOK, ServiceInv, HandInv, InService, PCs,
        TermStates, Goto, Settle, Answer, callerVars, taskVars
<1>1. CASE Recv
  BY <1>1 DEF Recv
<1>2. CASE HandlesDropped
  BY <1>2 DEF HandlesDropped
<1>3. CASE DispatchDirtyConnection
  BY <1>3 DEF DispatchDirtyConnection
<1>4. CASE DispatchCheckpoint
  BY <1>4 DEF DispatchCheckpoint
<1>5. CASE DispatchAcquire
  BY <1>5 DEF DispatchAcquire
<1>6. CASE LeaseGranted
  BY <1>6 DEF LeaseGranted
<1>7. CASE LeaseRefused
  BY <1>7 DEF LeaseRefused
<1>8. CASE TopLevelRefused
  BY <1>8 DEF TopLevelRefused
<1>9. CASE TopLevelRun
  BY <1>9 DEF TopLevelRun
<1>10. CASE RegisterSpan
  BY <1>10 DEF RegisterSpan
<1>11. CASE BeginOk
  BY <1>11 DEF BeginOk
<1>12. CASE BeginBusyRetry
  BY <1>12 DEF BeginBusyRetry
<1>13. CASE BeginBusyFinal
  BY <1>13 DEF BeginBusyFinal
<1>14. CASE BeginFails
  BY <1>14 DEF BeginFails
<1>15. CASE CheckPasses
  BY <1>15 DEF CheckPasses
<1>16. CASE CheckRefuses
  BY <1>16 DEF CheckRefuses
<1>17. CASE WrappedBody
  BY <1>17 DEF WrappedBody
<1>18. CASE CommitOk
  BY <1>18 DEF CommitOk
<1>19. CASE CommitLeavesOpen
  BY <1>19 DEF CommitLeavesOpen
<1>20. CASE CommitFails
  BY <1>20 DEF CommitFails
<1>21. CASE RollbackProved
  BY <1>21 DEF RollbackProved, RolledBackOutcome
<1>22. CASE RollbackUnproved
  BY <1>22 DEF RollbackUnproved
<1>23. CASE DropSpan
  BY <1>23 DEF DropSpan
<1>24. CASE SendReply
  BY <1>24 DEF SendReply
<1>25. CASE ClosureLost
  BY <1>25 DEF ClosureLost
<1>26. CASE FinishReusable
  BY <1>26 DEF FinishReusable
<1>27. CASE RetireConnection
  BY <1>27 DEF RetireConnection
<1>28. CASE ReleaseLease
  BY <1>28 DEF ReleaseLease
<1>29. CASE CloseQueue
  BY <1>29 DEF CloseQueue
<1>30. CASE DrainOne
  BY <1>30 DEF DrainOne
<1>31. CASE DrainEnds
  BY <1>31 DEF DrainEnds
<1> QED
  BY <1>1, <1>2, <1>3, <1>4, <1>5, <1>6, <1>7, <1>8, <1>9, <1>10, <1>11, <1>12,
     <1>13, <1>14, <1>15, <1>16, <1>17, <1>18, <1>19, <1>20, <1>21, <1>22, <1>23,
     <1>24, <1>25, <1>26, <1>27, <1>28, <1>29, <1>30, <1>31 DEF Task

LEMMA HandPreserved == TruthInv /\ HandInv /\ [Next]_vars => HandInv'
<1> SUFFICES ASSUME TruthInv, HandInv, [Next]_vars PROVE HandInv'
  OBVIOUS
<1>1. ASSUME NEW r \in Req, Caller(r) PROVE HandInv'
  <2>1. UNCHANGED <<taskVars, sharedVars, history>>
        /\ (Approach(r) \/ SendPermit(r) \/ GiveUp(r))
    BY <1>1, CallerEffect
  <2>2. pc \in {"finish", "release"} => cur # r /\ cur \in Req
    BY <2>1 DEF Approach, SendPermit, GiveUp, TruthInv, TypeInv, ServiceInv, InService, PCs
  <2> QED
    BY <2>1, <2>2 DEF HandInv, Approach, SendPermit, GiveUp, Answer, taskVars, TruthInv,
                      TypeInv, TypeOK
<1>2. CASE UNCHANGED <<callerVars, taskVars, history>>
  BY <1>2 DEF HandInv, callerVars, taskVars
<1> QED
  BY <1>1, <1>2, TaskHand, NextCases

\* Busy refusals and failed BEGINs against the answers.
AccountInv ==
    term # "JoinError" =>
      /\ Counts(Outcomes("WriterTaskBusy"), counters["beginBusy"] - counters["absorbed"])
      /\ Counts(Outcomes("BeginError"), counters["beginErrors"])

RefusedBegin == {"WriterTaskBusy", "BeginError"}

\* A caller that gives up, or moves on, adds no refused BEGIN.
LEMMA CallerOutcomes ==
    ASSUME TruthInv, NEW r \in Req, Caller(r), NEW what \in RefusedBegin
    PROVE  Outcomes(what)' = Outcomes(what)
<1>1. UNCHANGED <<cur, result>>
  BY CallerEffect DEF taskVars
<1>2. \/ reply' = reply
      \/ /\ phase[r] = "waiting"
         /\ \E a \in {"NotStarted", "WriteQueueFull", "Cancelled"} :
              reply' = [reply EXCEPT ![r] = a]
  BY DEF Caller, Offer, Reserve, SendPermit, ReserveClosed, EnqueueTimeout,
         CallerCancels, Answer
<1> QED
  BY <1>1, <1>2 DEF Outcomes, RefusedBegin, TruthInv, TypeInv, TypeOK, ReplyInv

\* Neither does a step of the task that is not a last refusal of a BEGIN.
LEMMA TaskOutcomes ==
    ASSUME TruthInv, HandInv, Task, term' # "JoinError",
           ~BeginBusyFinal, ~BeginFails, NEW what \in RefusedBegin
    PROVE  Outcomes(what)' = Outcomes(what)
<1> USE ReqAssumption
    DEF Outcomes, RefusedBegin, TruthInv, TypeInv, TypeOK, ServiceInv, ReplyInv,
        HandInv, InService, PCs, callerVars, taskVars
<1>1. CASE Recv
  BY <1>1 DEF Recv, Goto
<1>2. CASE \/ DispatchDirtyConnection \/ DispatchAcquire \/ LeaseRefused
           \/ TopLevelRefused \/ TopLevelRun \/ CommitOk \/ CommitLeavesOpen
           \/ RollbackProved \/ RollbackUnproved
  <2>1. result = "none" /\ result' \notin RefusedBegin /\ reply' = reply /\ cur' = cur
    BY <1>2 DEF DispatchDirtyConnection, DispatchAcquire, LeaseRefused, TopLevelRefused,
       TopLevelRun, CommitOk, CommitLeavesOpen, RollbackProved, RollbackUnproved, Settle,
       Goto, RolledBackOutcome
  <2> QED
    BY <2>1
<1>3. CASE SendReply
  BY <1>3 DEF SendReply, Answer, Goto
<1>4. CASE ReleaseLease
  BY <1>4 DEF ReleaseLease, Goto
<1>5. CASE DrainOne
  <2>1. Head(queue) \in Req /\ phase[Head(queue)] = "queued"
    BY <1>5, HeadTailProperties, LenProperties DEF DrainOne, QueueInv
  <2> QED
    BY <1>5, <2>1 DEF DrainOne, Answer
<1>6. CASE ClosureLost
  BY <1>6 DEF ClosureLost
<1>7. CASE \/ HandlesDropped \/ DispatchCheckpoint \/ LeaseGranted
           \/ RegisterSpan \/ BeginOk \/ CheckPasses \/ CheckRefuses
           \/ WrappedBody \/ CommitFails \/ DropSpan \/ FinishReusable
           \/ RetireConnection \/ CloseQueue \/ DrainEnds \/ BeginBusyRetry
  <2>1. UNCHANGED <<reply, cur, result>>
    BY <1>7 DEF HandlesDropped, DispatchCheckpoint, LeaseGranted, RegisterSpan, BeginOk,
       CheckPasses, CheckRefuses, WrappedBody, CommitFails, DropSpan, FinishReusable,
       RetireConnection, CloseQueue, DrainEnds, BeginBusyRetry
  <2> QED
    BY <2>1
<1> QED
  BY <1>1, <1>2, <1>3, <1>4, <1>5, <1>6, <1>7 DEF Task

\* The two classes of refused BEGINs, as the other steps leave them.
LEMMA CountersKept ==
    ASSUME TypeInv, [Next]_vars, ~BeginBusyFinal, ~BeginFails
    PROVE  /\ counters["beginBusy"]' - counters["absorbed"]'
                = counters["beginBusy"] - counters["absorbed"]
           /\ counters["beginErrors"]' = counters["beginErrors"]
<1>t. /\ \A c \in Counters : counters[c] \in Nat
      /\ {"beginBusy", "absorbed", "beginErrors", "acquisitions", "failures", "unknown"}
           = Counters
  BY DEF TypeInv, TypeOK, Counters
<1>1. CASE BeginBusyRetry
  BY <1>t, <1>1 DEF BeginBusyRetry, Count
<1>2. CASE TopLevelRun \/ CheckPasses \/ CloseQueue
  BY <1>t, <1>2 DEF TopLevelRun, CheckPasses, CloseQueue, Count
<1>3. CASE ~(BeginBusyRetry \/ TopLevelRun \/ CheckPasses \/ CloseQueue)
  <2>1. counters' = counters
    <3>1. ASSUME NEW r \in Req, Caller(r) PROVE counters' = counters
      BY <3>1, CallerEffect DEF taskVars
    <3>2. CASE Task
      BY <1>3, <3>2 DEF Task, Recv, HandlesDropped, DispatchDirtyConnection,
         DispatchCheckpoint, DispatchAcquire, LeaseGranted, LeaseRefused, TopLevelRefused,
         RegisterSpan, BeginOk, CheckRefuses, WrappedBody, CommitOk, CommitLeavesOpen,
         CommitFails, RollbackProved, RollbackUnproved, DropSpan, SendReply,
         FinishReusable, RetireConnection, ReleaseLease, DrainOne, DrainEnds, ClosureLost,
         taskVars
    <3> QED
      BY <3>1, <3>2, NextCases DEF taskVars
  <2> QED
    BY <2>1
<1> QED
  BY <1>1, <1>2, <1>3

LEMMA AccountPreserved ==
    TruthInv /\ HandInv /\ AccountInv /\ [Next]_vars => AccountInv'
<1> SUFFICES ASSUME TruthInv, HandInv, AccountInv, [Next]_vars, term' # "JoinError"
             PROVE  /\ Counts(Outcomes("WriterTaskBusy")',
                              counters["beginBusy"]' - counters["absorbed"]')
                    /\ Counts(Outcomes("BeginError")', counters["beginErrors"]')
  BY DEF AccountInv, Counts
<1>t. \A c \in Counters : counters[c] \in Nat
  BY DEF TruthInv, TypeInv, TypeOK
<1>j. term # "JoinError"
  <2>1. CASE Task
    <3>1. CASE pc \in {"finish", "release", "terminal", "drain", "exited"}
      BY <2>1, <3>1 DEF Task, Recv, HandlesDropped, DispatchDirtyConnection,
         DispatchCheckpoint, DispatchAcquire, LeaseGranted, LeaseRefused, TopLevelRefused,
         TopLevelRun, RegisterSpan, BeginOk, BeginBusyRetry, CheckPasses, CheckRefuses,
         WrappedBody, CommitOk, CommitLeavesOpen, CommitFails, RollbackProved,
         RollbackUnproved, DropSpan, SendReply, FinishReusable, RetireConnection,
         ReleaseLease, CloseQueue, DrainOne, DrainEnds, BeginBusyFinal, BeginFails,
         ClosureLost, taskVars
    <3> QED
      BY <3>1 DEF HandInv
  <2> QED
    BY <2>1, NextCases, CallerEffect DEF taskVars
<1>a. /\ Counts(Outcomes("WriterTaskBusy"), counters["beginBusy"] - counters["absorbed"])
      /\ Counts(Outcomes("BeginError"), counters["beginErrors"])
  BY <1>j DEF AccountInv
<1>n. /\ counters["beginBusy"] - counters["absorbed"] \in Nat
      /\ counters["beginErrors"] \in Nat
  BY <1>a, FS_CardinalityType DEF Counts
<1>1. CASE BeginBusyFinal \/ BeginFails
  <2>1. /\ cur \in Req /\ reply[cur] = "none" /\ result = "none"
        /\ reply' = reply /\ cur' = cur
    BY <1>1 DEF BeginBusyFinal, BeginFails, TruthInv, TypeInv, ServiceInv, ReplyInv, HandInv,
                InService, PCs, callerVars
  <2>2. CASE BeginBusyFinal
    <3>1. /\ Outcomes("WriterTaskBusy")' = Outcomes("WriterTaskBusy") \cup {cur}
          /\ cur \notin Outcomes("WriterTaskBusy")
          /\ Outcomes("BeginError")' = Outcomes("BeginError")
      BY <2>1, <2>2 DEF BeginBusyFinal, Settle, Outcomes
    <3>2. /\ counters["beginBusy"]' = counters["beginBusy"] + 1
          /\ counters["absorbed"]' = counters["absorbed"]
          /\ counters["beginErrors"]' = counters["beginErrors"]
      BY <1>t, <2>2 DEF BeginBusyFinal, Count, Counters
    <3>3. Counts(Outcomes("WriterTaskBusy")',
                 (counters["beginBusy"] - counters["absorbed"]) + 1)
      <4>1. Counts(Outcomes("WriterTaskBusy") \cup {cur},
                   (counters["beginBusy"] - counters["absorbed"]) + 1)
        BY <1>a, <1>n, <3>1, CountChanges, Zenon
      <4> QED
        BY <3>1, <4>1, Zenon
    <3>4. counters["beginBusy"]' - counters["absorbed"]'
            = (counters["beginBusy"] - counters["absorbed"]) + 1
      BY <1>t, <3>2 DEF Counters
    <3> QED
      BY <1>a, <3>1, <3>2, <3>3, <3>4
  <2>3. CASE BeginFails
    <3>1. /\ Outcomes("BeginError")' = Outcomes("BeginError") \cup {cur}
          /\ cur \notin Outcomes("BeginError")
          /\ Outcomes("WriterTaskBusy")' = Outcomes("WriterTaskBusy")
      BY <2>1, <2>3 DEF BeginFails, Settle, Outcomes
    <3>2. /\ counters["beginBusy"]' = counters["beginBusy"]
          /\ counters["absorbed"]' = counters["absorbed"]
          /\ counters["beginErrors"]' = counters["beginErrors"] + 1
      BY <1>t, <2>3 DEF BeginFails, Count, Counters
    <3>3. Counts(Outcomes("BeginError")', counters["beginErrors"] + 1)
      <4>1. Counts(Outcomes("BeginError") \cup {cur}, counters["beginErrors"] + 1)
        BY <1>a, <1>n, <3>1, CountChanges, Zenon
      <4> QED
        BY <3>1, <4>1, Zenon
    <3> QED
      BY <1>a, <3>1, <3>2, <3>3
  <2> QED
    BY <1>1, <2>2, <2>3
<1>2. CASE ~(BeginBusyFinal \/ BeginFails)
  <2>1. ASSUME NEW what \in RefusedBegin PROVE Outcomes(what)' = Outcomes(what)
    <3>1. CASE UNCHANGED <<callerVars, taskVars, history>>
      BY <3>1 DEF Outcomes, callerVars, taskVars
    <3> QED
      BY <1>2, <3>1, NextCases, CallerOutcomes, TaskOutcomes
  <2>2. /\ Outcomes("WriterTaskBusy")' = Outcomes("WriterTaskBusy")
        /\ Outcomes("BeginError")' = Outcomes("BeginError")
    BY <2>1 DEF RefusedBegin
  <2>3. /\ counters["beginBusy"]' - counters["absorbed"]'
             = counters["beginBusy"] - counters["absorbed"]
        /\ counters["beginErrors"]' = counters["beginErrors"]
    BY <1>2, CountersKept DEF TruthInv
  <2> QED
    BY <1>a, <2>2, <2>3
<1> QED
  BY <1>1, <1>2

\* The admission metrics an operator reads are exact at every moment, for any
\* number of requests: the pending gauge counts the requests that were offered
\* and neither dequeued nor given up, and never underflows; the busy and error
\* counters of BEGIN count the callers that were told so.
THEOREM MetricsAreExact == Spec => []CountersExact
<1> DEFINE Inv == TruthInv /\ GaugeInv /\ HandInv /\ AccountInv
<1>1. Init => Inv
  <2> SUFFICES ASSUME Init PROVE GaugeInv /\ HandInv /\ AccountInv
    BY InitTruth
  <2>1. Pending = {} /\ Outcomes("WriterTaskBusy") = {} /\ Outcomes("BeginError") = {}
    BY DEF Init, Pending, Outcomes
  <2>2. /\ counters["beginBusy"] - counters["absorbed"] = 0
        /\ counters["beginErrors"] = 0
    BY DEF Init, Counters
  <2>3. Counts({}, 0)
    BY FS_EmptySet DEF Counts
  <2>4. ~metricsBad /\ depth = 0
    BY Zenon DEF Init
  <2>5. HandInv
    BY DEF Init, HandInv
  <2>6. GaugeInv /\ AccountInv
    BY <2>1, <2>2, <2>3, <2>4 DEF GaugeInv, AccountInv
  <2> QED
    BY <2>5, <2>6
<1>2. Inv /\ [Next]_vars => Inv'
  BY TruthPreserved, GaugePreserved, HandPreserved, AccountPreserved
<1>3. Inv => CountersExact
  BY DEF CountersExact, PendingGaugeExact, BusyAccounting, GaugeInv, AccountInv, Counts,
         Pending
<1> HIDE DEF Inv
<1> QED
  BY <1>1, <1>2, <1>3, PTL DEF Spec
=============================================================================
