----------------------------- MODULE WriterTask -----------------------------
(***************************************************************************)
(* The write-owner task of crates/khive-db/src/writer_task.rs (ADR-067     *)
(* Component A): callers offer write requests to a bounded channel, one    *)
(* task owns the writer connection and drains the channel one request at a *)
(* time, and every request is answered through its own oneshot.            *)
(*                                                                         *)
(* Three parties interleave: the callers (WriterTaskHandle), the task with *)
(* its blocking closure (run_writer_task), and the direct writers of the   *)
(* same pool, which compete for the physical-volume lease and share the    *)
(* settlement_unknown poison flag of WriteAdmission.  What SQLite answers  *)
(* to BEGIN, COMMIT, ROLLBACK and close, and what a request's closure      *)
(* does, is chosen nondeterministically.                                   *)
(*                                                                         *)
(* History variables: ran (requests whose closure was invoked), began      *)
(* (requests whose BEGIN IMMEDIATE succeeded), landed (what of a request's *)
(* writes is in the database).                                             *)
(***************************************************************************)
EXTENDS Naturals, Sequences, FiniteSets, SequencesExt

CONSTANTS
    Req,            \* the write requests offered in a behaviour
    NoReq,          \* the task serves no request
    Capacity,       \* slots of the bounded channel
    Kinds,          \* the kinds of request callers offer
    BeginMayLeak    \* may a BEGIN that returns an error leave a transaction open?

AllKinds == {"wrapped", "topLevel", "vacuum", "checkpoint"}

ASSUME ReqAssumption == NoReq \notin Req
ASSUME CapacityAssumption == Capacity \in Nat \ {0}
ASSUME KindsAssumption == Kinds \subseteq AllKinds
ASSUME LeakAssumption == BeginMayLeak \in BOOLEAN

VARIABLES
    (* the callers' side *)
    phase,      \* where each request is
    kind,       \* which entry point offered it
    reply,      \* what its caller is told
    waiters,    \* callers suspended in tx.reserve(), in arrival order
    queue,      \* the channel
    closed,     \* rx.close() was called
    depth,      \* WriterAdmissionMetrics: queue_depth
    metricsBad, \* WriterAdmissionMetrics: unavailable = InvariantViolation
    (* the task's side *)
    pc,         \* where the drain loop or its blocking closure is
    cur,        \* the dequeued request
    result,     \* the outcome computed for cur, not yet sent
    term,       \* the terminal state the closure returns ("none": keep serving)
    why,        \* what the pending ROLLBACK follows
    tries,      \* BEGIN attempts of cur that were absorbed
    conn,       \* the writer connection
    span,       \* the tx_registry span of cur is registered
    counters,   \* WriterAcquisitionCounters
    (* shared with the direct writers of the pool *)
    lease,      \* who holds the volume lease
    poisoned,   \* WriteAdmission::settlement_unknown
    direct,     \* a direct writer of the pool
    (* history *)
    ran, began, landed

callerVars == <<phase, kind, reply, waiters, queue, closed>>
metricVars == <<depth, metricsBad>>
taskVars   == <<pc, cur, result, term, why, tries, conn, span, counters>>
sharedVars == <<lease, poisoned, direct>>
history    == <<ran, began, landed>>
vars == <<callerVars, metricVars, taskVars, sharedVars, history>>

Phases == {"idle", "waiting", "permit", "queued", "active", "done"}

(***************************************************************************)
(* What a caller can be told.  NotStarted, TermRolledBack and              *)
(* SideEffectsUnknown are WriterTaskTerminated with that request state;    *)
(* RequestRolledBack is WriterTaskRequestFailed{TransactionRolledBack};    *)
(* Refused is any admission error (floor, lease, poison); Cancelled is a   *)
(* caller that dropped its future before the channel accepted the request. *)
(***************************************************************************)
UntouchedReplies == {"WriteQueueFull", "NotStarted", "Refused",
                     "WriterTaskBusy", "BeginError", "Cancelled"}
RolledBackReplies == {"RequestRolledBack", "TermRolledBack"}
Replies == UntouchedReplies \cup RolledBackReplies
             \cup {"Ok", "OpError", "SideEffectsUnknown"}

TermStates == {"none", "NotStarted", "TransactionRolledBack",
               "SideEffectsUnknown", "JoinError"}

PCs == {"recv", "dispatch", "leaseWait", "admitted", "begin", "check", "body",
        "commit", "rollback", "settled", "reply", "finish", "release",
        "terminal", "drain", "exited"}

\* WriterAcquisitionCounters, the writer task's classes.
Counters == {"acquisitions", "beginBusy", "absorbed", "beginErrors", "failures",
             "unknown"}

\* Retries after the first BEGIN: one per entry of WRITER_BEGIN_RETRY_DELAYS.
BeginRetries == 2

TypeOK ==
    /\ phase \in [Req -> Phases]
    /\ kind \in [Req -> AllKinds]
    /\ reply \in [Req -> Replies \cup {"none"}]
    /\ waiters \in Seq(Req)
    /\ queue \in Seq(Req)
    /\ closed \in BOOLEAN
    /\ depth \in Nat
    /\ metricsBad \in BOOLEAN
    /\ pc \in PCs
    /\ cur \in Req \cup {NoReq}
    /\ result \in Replies \cup {"none"}
    /\ term \in TermStates
    /\ why \in {"none", "capacity", "err", "commit", "panic"}
    /\ tries \in 0 .. BeginRetries
    /\ conn \in {"auto", "txn", "closed", "leaked"}
    /\ span \in BOOLEAN
    /\ counters \in [Counters -> Nat]
    /\ lease \in {"free", "task", "direct"}
    /\ poisoned \in BOOLEAN
    /\ direct \in {"idle", "waiting", "holding", "unsettled"}
    /\ ran \subseteq Req
    /\ began \subseteq Req
    /\ landed \in [Req -> {"none", "some", "all"}]

Init ==
    /\ phase = [r \in Req |-> "idle"]
    /\ kind \in [Req -> Kinds]
    /\ reply = [r \in Req |-> "none"]
    /\ waiters = <<>>
    /\ queue = <<>>
    /\ closed = FALSE
    /\ depth = 0
    /\ metricsBad = FALSE
    /\ pc = "recv"
    /\ cur = NoReq
    /\ result = "none"
    /\ term = "none"
    /\ why = "none"
    /\ tries = 0
    /\ conn = "auto"
    /\ span = FALSE
    /\ counters = [c \in Counters |-> 0]
    /\ lease = "free"
    /\ poisoned = FALSE
    /\ direct = "idle"
    /\ ran = {}
    /\ began = {}
    /\ landed = [r \in Req |-> "none"]

-----------------------------------------------------------------------------
(* WriterAdmissionMetrics: the pending gauge.                              *)

\* offer_at: count one more pending request unless the gauge has failed.
OfferPending ==
    /\ depth' = IF metricsBad THEN depth ELSE depth + 1
    /\ UNCHANGED metricsBad

\* State::release_pending: an underflow disables the gauge for good.
ReleasePending ==
    /\ depth' = IF metricsBad \/ depth = 0 THEN depth ELSE depth - 1
    /\ metricsBad' = (metricsBad \/ depth = 0)

-----------------------------------------------------------------------------
(* Callers: WriterTaskHandle::enqueue_inner and the send_* entry points.   *)

\* Fault: the slot of a request whose closure ran is not handed back.
FreeSlotsKeptByService ==
    Capacity - Cardinality({r \in Req : phase[r] \in {"permit", "queued"} \/ r \in ran})

\* The semaphore of the channel: slots neither filled nor promised to a permit.
FreeSlots == Capacity - (Len(queue) + Cardinality({r \in Req : phase[r] = "permit"}))

Leave(i) == waiters' = RemoveAt(waiters, i)

Answer(r, what) ==
    /\ phase' = [phase EXCEPT ![r] = "done"]
    /\ reply' = [reply EXCEPT ![r] = what]

\* enqueue_inner up to tx.reserve(): the request is built and counted as
\* pending, then waits its turn for a slot.
Offer(r) ==
    /\ phase[r] = "idle"
    /\ phase' = [phase EXCEPT ![r] = "waiting"]
    /\ waiters' = Append(waiters, r)
    /\ OfferPending
    /\ UNCHANGED <<kind, reply, queue, closed, taskVars, sharedVars, history>>

\* tx.reserve() resolves with a permit, in arrival order.
Reserve(r) ==
    /\ ~closed
    /\ phase[r] = "waiting"
    /\ \E i \in 1 .. Len(waiters) :
         /\ waiters[i] = r
         /\ i <= FreeSlots
         /\ Leave(i)
    /\ phase' = [phase EXCEPT ![r] = "permit"]
    /\ UNCHANGED <<kind, reply, queue, closed, metricVars, taskVars, sharedVars, history>>

\* observation.accepted(); permit.send(request).  A permit taken before
\* rx.close() still delivers afterwards.
SendPermit(r) ==
    /\ phase[r] = "permit"
    /\ phase' = [phase EXCEPT ![r] = "queued"]
    /\ queue' = Append(queue, r)
    /\ UNCHANGED <<kind, reply, waiters, closed, metricVars, taskVars, sharedVars, history>>

\* tx.reserve() on a closed channel; the dropped observation stops counting.
ReserveClosed(r) ==
    /\ closed
    /\ phase[r] = "waiting"
    /\ \E i \in 1 .. Len(waiters) : waiters[i] = r /\ Leave(i)
    /\ Answer(r, "NotStarted")
    /\ ReleasePending
    /\ UNCHANGED <<kind, queue, closed, taskVars, sharedVars, history>>

\* send_with_timeout_labelled / send_top_level_bounded_inner: the deadline
\* passes while reserve() is still pending.  (The timeout polls reserve()
\* first, so a caller whose slot is free is never timed out.)
EnqueueTimeout(r) ==
    /\ ~closed
    /\ phase[r] = "waiting"
    /\ \E i \in 1 .. Len(waiters) :
         /\ waiters[i] = r
         /\ i > FreeSlots
         /\ Leave(i)
    /\ Answer(r, "WriteQueueFull")
    /\ ReleasePending
    /\ UNCHANGED <<kind, queue, closed, taskVars, sharedVars, history>>

\* Fault: a dropped observation does not stop counting.
CallerCancelsUncounted(r) ==
    /\ phase[r] = "waiting"
    /\ \E i \in 1 .. Len(waiters) : waiters[i] = r /\ Leave(i)
    /\ Answer(r, "Cancelled")
    /\ UNCHANGED <<kind, queue, closed, metricVars, taskVars, sharedVars, history>>

\* The caller drops its future while it waits for a slot.  Dropping it after
\* permit.send changes nothing the task can see: the request still runs.
CallerCancels(r) ==
    /\ phase[r] = "waiting"
    /\ \E i \in 1 .. Len(waiters) : waiters[i] = r /\ Leave(i)
    /\ Answer(r, "Cancelled")
    /\ ReleasePending
    /\ UNCHANGED <<kind, queue, closed, taskVars, sharedVars, history>>

Caller(r) ==
    \/ Offer(r)
    \/ Reserve(r)
    \/ SendPermit(r)
    \/ ReserveClosed(r)
    \/ EnqueueTimeout(r)
    \/ CallerCancels(r)

-----------------------------------------------------------------------------
(* The drain loop and its blocking closure: run_writer_task.               *)

Goto(l) == pc' = l

\* record_writer_task_*: relaxed atomic increments of the named counters.
Count(names) ==
    counters' = [c \in Counters |-> counters[c] + (IF c \in names THEN 1 ELSE 0)]

\* Leave the closure body with an outcome for cur; a wrapped request drops
\* its span at "settled", the others go straight to the reply.
Settle(l, what, t) ==
    /\ pc' = l
    /\ result' = what
    /\ term' = t

\* rx.recv() yields a request; its bounded-channel wait ends here.
Recv ==
    /\ pc = "recv"
    /\ queue # <<>>
    /\ cur' = Head(queue)
    /\ queue' = Tail(queue)
    /\ phase' = [phase EXCEPT ![Head(queue)] = "active"]
    /\ ReleasePending
    /\ Goto("dispatch")
    /\ UNCHANGED <<kind, reply, waiters, closed, result, term, why, tries, conn,
                   span, counters, sharedVars, history>>

\* Every handle is gone and nothing is buffered: rx.recv() yields None.
HandlesDropped ==
    /\ pc = "recv"
    /\ \A r \in Req : phase[r] = "done"
    /\ Goto("exited")
    /\ UNCHANGED <<callerVars, metricVars, cur, result, term, why, tries, conn,
                   span, counters, sharedVars, history>>

\* The connection is not in autocommit mode: refuse the request, retire.
DispatchDirtyConnection ==
    /\ pc = "dispatch"
    /\ conn # "auto"
    /\ Settle("reply", "NotStarted", "NotStarted")
    /\ UNCHANGED <<callerVars, metricVars, cur, why, tries, conn, span, counters,
                   sharedVars, history>>

\* A checkpoint request skips WriteAdmission::acquire.
DispatchCheckpoint ==
    /\ pc = "dispatch"
    /\ conn = "auto"
    /\ kind[cur] = "checkpoint"
    /\ Goto("admitted")
    /\ UNCHANGED <<callerVars, metricVars, cur, result, term, why, tries, conn,
                   span, counters, sharedVars, history>>

\* Fault: a connection with an open transaction is dispatched like any other.
DispatchAcquireDirty ==
    /\ pc = "dispatch"
    /\ kind[cur] # "checkpoint"
    /\ IF poisoned
         THEN Settle("reply", "Refused", "none")
         ELSE Goto("leaseWait") /\ UNCHANGED <<result, term>>
    /\ UNCHANGED <<callerVars, metricVars, cur, why, tries, conn, span, counters,
                   sharedVars, history>>

\* WriteAdmission::acquire, first part: ensure_settled, then ask for the lease.
DispatchAcquire ==
    /\ pc = "dispatch"
    /\ conn = "auto"
    /\ kind[cur] # "checkpoint"
    /\ IF poisoned
         THEN Settle("reply", "Refused", "none")
         ELSE Goto("leaseWait") /\ UNCHANGED <<result, term>>
    /\ UNCHANGED <<callerVars, metricVars, cur, why, tries, conn, span, counters,
                   sharedVars, history>>

\* WriteAdmission::acquire, second part: the volume lease is granted.
LeaseGranted ==
    /\ pc = "leaseWait"
    /\ lease = "free"
    /\ lease' = "task"
    /\ Goto("admitted")
    /\ UNCHANGED <<callerVars, metricVars, cur, result, term, why, tries, conn,
                   span, counters, poisoned, direct, history>>

\* ... or refused: guard_deadline passed, the lock failed, the volume changed.
LeaseRefused ==
    /\ pc = "leaseWait"
    /\ Settle("reply", "Refused", "none")
    /\ UNCHANGED <<callerVars, metricVars, cur, why, tries, conn, span, counters,
                   sharedVars, history>>

\* check() / check_for_vacuum() refuses a top-level request before it runs.
TopLevelRefused ==
    /\ pc = "admitted"
    /\ kind[cur] \in {"topLevel", "vacuum"}
    /\ Settle("reply", "Refused", "none")
    /\ UNCHANGED <<callerVars, metricVars, cur, why, tries, conn, span, counters,
                   sharedVars, history>>

\* execute_and_reply_top_level_reporting_terminal: the closure runs with no
\* transaction wrap.  Only "returned, and in autocommit mode" keeps the task.
TopLevelRun ==
    /\ pc = "admitted"
    /\ kind[cur] # "wrapped"
    /\ ran' = ran \cup {cur}
    /\ Count({"acquisitions"})
    /\ \E outcome \in {"Ok", "OpError", "panic"},
          left \in {"auto", "txn"}, part \in {"none", "some", "all"} :
         /\ outcome = "Ok" /\ left = "auto" => part = "all"
         /\ conn' = left
         /\ landed' = [landed EXCEPT ![cur] = part]
         /\ IF outcome # "panic" /\ left = "auto"
              THEN Settle("reply", outcome, "none")
              ELSE Settle("reply", "SideEffectsUnknown", "SideEffectsUnknown")
    /\ UNCHANGED <<callerVars, metricVars, cur, why, tries, span, sharedVars,
                   began>>

\* A wrapped request registers its span and starts its BEGIN attempts.
RegisterSpan ==
    /\ pc = "admitted"
    /\ kind[cur] = "wrapped"
    /\ span' = TRUE
    /\ tries' = 0
    /\ Goto("begin")
    /\ UNCHANGED <<callerVars, metricVars, cur, result, term, why, conn, counters,
                   sharedVars, history>>

\* begin_immediate_with_retry: BEGIN IMMEDIATE succeeds.
BeginOk ==
    /\ pc = "begin"
    /\ conn' = "txn"
    /\ began' = began \cup {cur}
    /\ Goto("check")
    /\ UNCHANGED <<callerVars, metricVars, cur, result, term, why, tries, span,
                   counters, sharedVars, ran, landed>>

\* ... is refused busy, with an attempt, budget and a lowered timeout left.
BeginBusyRetry ==
    /\ pc = "begin"
    /\ tries < BeginRetries
    /\ tries' = tries + 1
    /\ Count({"beginBusy", "absorbed"})
    /\ UNCHANGED <<callerVars, metricVars, pc, cur, result, term, why, conn, span,
                   sharedVars, history>>

\* ... is refused busy for the last time: no attempt left, the shared
\* busy_timeout budget is spent, or the timeout could not be lowered.
BeginBusyFinal ==
    /\ pc = "begin"
    /\ Count({"beginBusy"})
    /\ Settle("settled", "WriterTaskBusy", "none")
    /\ UNCHANGED <<callerVars, metricVars, cur, why, tries, conn, span, sharedVars,
                   history>>

\* ... fails for another reason.  The task keeps the connection without
\* looking at its autocommit mode.
BeginFails ==
    /\ pc = "begin"
    /\ conn' \in IF BeginMayLeak THEN {"auto", "txn"} ELSE {"auto"}
    /\ Count({"beginErrors"})
    /\ Settle("settled", "BeginError", "none")
    /\ UNCHANGED <<callerVars, metricVars, cur, why, tries, span, sharedVars,
                   history>>

\* The post-BEGIN capacity probe.
CheckPasses ==
    /\ pc = "check"
    /\ Count({"acquisitions"})
    /\ Goto("body")
    /\ UNCHANGED <<callerVars, metricVars, cur, result, term, why, tries, conn,
                   span, sharedVars, history>>

CheckRefuses ==
    /\ pc = "check"
    /\ why' = "capacity"
    /\ Goto("rollback")
    /\ UNCHANGED <<callerVars, metricVars, cur, result, term, tries, conn, span,
                   counters, sharedVars, history>>

\* execute_wrapped_transaction_profiled: the closure runs and returns a value,
\* an error, or panics.  SQLite may end the transaction by itself on a failed
\* statement; what the closure writes after that commits on its own.
WrappedBody ==
    /\ pc = "body"
    /\ ran' = ran \cup {cur}
    /\ \E outcome \in {"ok", "err", "panic"}, ended \in BOOLEAN,
          part \in {"none", "some"} :
         /\ part = "some" => ended
         /\ conn' = IF ended THEN "auto" ELSE conn
         /\ landed' = [landed EXCEPT ![cur] = part]
         /\ IF outcome = "ok"
              THEN Goto("commit") /\ UNCHANGED why
              ELSE Goto("rollback") /\ why' = outcome
    /\ UNCHANGED <<callerVars, metricVars, cur, result, term, tries, span, counters,
                   sharedVars, began>>

\* COMMIT succeeds and autocommit is back.
CommitOk ==
    /\ pc = "commit"
    /\ conn = "txn"
    /\ conn' = "auto"
    /\ landed' = [landed EXCEPT ![cur] = "all"]
    /\ Settle("settled", "Ok", "none")
    /\ UNCHANGED <<callerVars, metricVars, cur, why, tries, span, counters,
                   sharedVars, ran, began>>

\* COMMIT reports success and the connection is still in a transaction.
CommitLeavesOpen ==
    /\ pc = "commit"
    /\ conn = "txn"
    /\ Settle("settled", "SideEffectsUnknown", "SideEffectsUnknown")
    /\ UNCHANGED <<callerVars, metricVars, cur, why, tries, conn, span, counters,
                   sharedVars, history>>

\* COMMIT fails: the transaction stays open, or it ended and the writes are or
\* are not there, or there was none to commit.
CommitFails ==
    /\ pc = "commit"
    /\ why' = "commit"
    /\ Goto("rollback")
    /\ \/ UNCHANGED <<conn, landed>>
       \/ /\ conn = "txn"
          /\ conn' = "auto"
          /\ \E part \in {"none", "all"} : landed' = [landed EXCEPT ![cur] = part]
    /\ UNCHANGED <<callerVars, metricVars, cur, result, term, tries, span, counters,
                   sharedVars, ran, began>>

\* What each failure becomes when rollback_after_failure says RolledBack.
RolledBackOutcome(cause) ==
    CASE cause = "capacity"          -> <<"Refused", "none">>
      [] cause \in {"err", "commit"} -> <<"RequestRolledBack", "none">>
      [] OTHER                       -> <<"TermRolledBack", "TransactionRolledBack">>

\* rollback_after_failure: ROLLBACK succeeds and autocommit is back.
RollbackProved ==
    /\ pc = "rollback"
    /\ conn = "txn"
    /\ conn' = "auto"
    /\ Settle("settled", RolledBackOutcome(why)[1], RolledBackOutcome(why)[2])
    /\ UNCHANGED <<callerVars, metricVars, cur, why, tries, span, counters,
                   sharedVars, history>>

\* Fault: a failed ROLLBACK is taken to mean that nothing was left to undo.
RollbackAssumed ==
    /\ pc = "rollback"
    /\ conn' \in {conn, "auto"}
    /\ Settle("settled", RolledBackOutcome(why)[1], RolledBackOutcome(why)[2])
    /\ UNCHANGED <<callerVars, metricVars, cur, why, tries, span, counters,
                   sharedVars, history>>

\* ROLLBACK fails (there may be no transaction left to roll back), or reports
\* success with the transaction still open.
RollbackUnproved ==
    /\ pc = "rollback"
    /\ conn' \in {conn, "auto"}
    /\ Settle("settled", "SideEffectsUnknown", "SideEffectsUnknown")
    /\ UNCHANGED <<callerVars, metricVars, cur, why, tries, span, counters,
                   sharedVars, history>>

\* drop(tx_span), before the reply wakes the caller.
DropSpan ==
    /\ pc = "settled"
    /\ span' = FALSE
    /\ Goto("reply")
    /\ UNCHANGED <<callerVars, metricVars, cur, result, term, why, tries, conn,
                   counters, sharedVars, history>>

\* Fault: the lease goes with the reply, before the connection is settled.
SendReplyReleasing ==
    /\ pc = "reply"
    /\ Answer(cur, result)
    /\ lease' = IF lease = "task" THEN "free" ELSE lease
    /\ Goto("finish")
    /\ UNCHANGED <<kind, waiters, queue, closed, metricVars, cur, result, term, why,
                   tries, conn, span, counters, poisoned, direct, history>>

\* reply_with_admission.
SendReply ==
    /\ pc = "reply"
    /\ Answer(cur, result)
    /\ Goto("finish")
    /\ UNCHANGED <<kind, waiters, queue, closed, metricVars, cur, result, term, why,
                   tries, conn, span, counters, sharedVars, history>>

\* Fault: a closure lost after its reply answers again.
ClosureLostLate ==
    /\ pc \in {"dispatch", "leaseWait", "reply", "finish"}
    /\ Answer(cur, "SideEffectsUnknown")
    /\ term' = "JoinError"
    /\ Goto("finish")
    /\ UNCHANGED <<kind, waiters, queue, closed, metricVars, cur, result, why,
                   tries, conn, span, counters, sharedVars, history>>

\* The closure unwinds outside the request's panic boundary, or never gets a
\* blocking thread: the reply sender is dropped, which the caller reads as
\* SideEffectsUnknown, and the join fails.  Between the end of the transaction
\* and the end of its span there is only telemetry, which does not panic.
ClosureLost ==
    /\ pc \in {"dispatch", "leaseWait", "reply"}
    /\ Answer(cur, "SideEffectsUnknown")
    /\ term' = "JoinError"
    /\ Goto("finish")
    /\ UNCHANGED <<kind, waiters, queue, closed, metricVars, cur, result, why,
                   tries, conn, span, counters, sharedVars, history>>

\* BlockingWriterConnection::finish(None): hand the connection back.
FinishReusable ==
    /\ pc = "finish"
    /\ term = "none"
    /\ Goto("release")
    /\ UNCHANGED <<callerVars, metricVars, cur, result, term, why, tries, conn,
                   span, counters, sharedVars, history>>

\* BlockingWriterConnection::retire: close_retired_connection rolls back and
\* closes.  When it can do neither, the admission is poisoned.
RetireConnection ==
    /\ pc = "finish"
    /\ term # "none"
    /\ \/ conn' = "closed" /\ UNCHANGED poisoned
       \/ conn = "txn" /\ conn' = "leaked" /\ poisoned' = TRUE
    /\ Goto("release")
    /\ UNCHANGED <<callerVars, metricVars, cur, result, term, why, tries, span,
                   counters, lease, direct, history>>

\* The volume lease field drops after the connection is settled.
ReleaseLease ==
    /\ pc = "release"
    /\ lease' = IF lease = "task" THEN "free" ELSE lease
    /\ cur' = NoReq
    /\ result' = "none"
    /\ why' = "none"
    /\ tries' = 0
    /\ Goto(IF term = "none" THEN "recv" ELSE "terminal")
    /\ UNCHANGED <<callerVars, metricVars, term, conn, span, counters, poisoned,
                   direct, history>>

\* The terminal arms of the drain loop: count, then close admission.
CloseQueue ==
    /\ pc = "terminal"
    /\ closed' = TRUE
    /\ Count(IF term = "SideEffectsUnknown" THEN {"failures", "unknown"} ELSE {"failures"})
    /\ Goto("drain")
    /\ UNCHANGED <<phase, kind, reply, waiters, queue, metricVars, cur, result,
                   term, why, tries, conn, span, sharedVars, history>>

\* close_and_fail_queued_requests: fail a buffered request without running it.
DrainOne ==
    /\ pc = "drain"
    /\ queue # <<>>
    /\ queue' = Tail(queue)
    /\ Answer(Head(queue), "NotStarted")
    /\ ReleasePending
    /\ UNCHANGED <<kind, waiters, closed, taskVars, sharedVars, history>>

\* rx.recv() on a closed channel yields None once no permit is outstanding.
DrainEnds ==
    /\ pc = "drain"
    /\ queue = <<>>
    /\ \A r \in Req : phase[r] # "permit"
    /\ Goto("exited")
    /\ UNCHANGED <<callerVars, metricVars, cur, result, term, why, tries, conn,
                   span, counters, sharedVars, history>>

Task ==
    \/ Recv \/ HandlesDropped
    \/ DispatchDirtyConnection \/ DispatchCheckpoint \/ DispatchAcquire
    \/ LeaseGranted \/ LeaseRefused
    \/ TopLevelRefused \/ TopLevelRun
    \/ RegisterSpan \/ BeginOk \/ BeginBusyRetry \/ BeginBusyFinal \/ BeginFails
    \/ CheckPasses \/ CheckRefuses \/ WrappedBody
    \/ CommitOk \/ CommitLeavesOpen \/ CommitFails
    \/ RollbackProved \/ RollbackUnproved
    \/ DropSpan \/ SendReply \/ ClosureLost
    \/ FinishReusable \/ RetireConnection \/ ReleaseLease
    \/ CloseQueue \/ DrainOne \/ DrainEnds

-----------------------------------------------------------------------------
(* A direct writer of the same pool: a pooled WriterGuard or a             *)
(* StandaloneWriteUnit, seen through the lease and the poison flag.        *)

\* WriteAdmission::acquire by the direct writer: ensure_settled, then wait.
DirectAsks ==
    /\ direct = "idle"
    /\ ~poisoned
    /\ direct' = "waiting"
    /\ UNCHANGED <<callerVars, metricVars, taskVars, lease, poisoned, history>>

DirectGranted ==
    /\ direct = "waiting"
    /\ lease = "free"
    /\ lease' = "direct"
    /\ direct' = "holding"
    /\ UNCHANGED <<callerVars, metricVars, taskVars, poisoned, history>>

DirectTimesOut ==
    /\ direct = "waiting"
    /\ direct' = "idle"
    /\ UNCHANGED <<callerVars, metricVars, taskVars, lease, poisoned, history>>

\* The unit drops settled: autocommit, or its connection closed.
DirectSettles ==
    /\ direct \in {"holding", "unsettled"}
    /\ lease' = "free"
    /\ direct' = "idle"
    /\ UNCHANGED <<callerVars, metricVars, taskVars, poisoned, history>>

\* close_retired_connection fails for the direct writer's connection, which
\* still holds its lease.
DirectPoisons ==
    /\ direct = "holding"
    /\ poisoned' = TRUE
    /\ direct' = "unsettled"
    /\ UNCHANGED <<callerVars, metricVars, taskVars, lease, history>>

Direct == DirectAsks \/ DirectGranted \/ DirectTimesOut \/ DirectSettles \/ DirectPoisons

\* Everything was answered and the task is gone.
Terminated ==
    /\ pc = "exited"
    /\ \A r \in Req : phase[r] = "done"
    /\ UNCHANGED vars

Next == (\E r \in Req : Caller(r)) \/ Task \/ Direct \/ Terminated

Spec == Init /\ [][Next]_vars

(***************************************************************************)
(* Fairness.  The runtime polls a woken caller and runs the spawned task;  *)
(* inside the blocking closure the lease wait and the BEGIN attempts are   *)
(* bounded by deadlines, so some outcome of each is always available.      *)
(* Nothing is assumed of the direct writers, of the callers' deadlines or  *)
(* of cancellation.                                                        *)
(***************************************************************************)
Fairness ==
    /\ \A r \in Req : WF_vars(Reserve(r) \/ SendPermit(r) \/ ReserveClosed(r))
    /\ WF_vars(Task)

FairSpec == Spec /\ Fairness

-----------------------------------------------------------------------------
(* Safety.                                                                 *)

\* What an answer claims about the database.
Claims(answer, invoked, effect) ==
    /\ answer \in UntouchedReplies => ~invoked /\ effect = "none"
    /\ answer \in RolledBackReplies => effect = "none"
    /\ answer = "Ok" => effect = "all"

\* Every answer is true, and stays true: a request told WriteQueueFull,
\* NotStarted, Busy or refused never ran (WriterTaskRequestState::NotStarted),
\* one told TransactionRolledBack left nothing behind, one told Ok is
\* committed in full, whatever the interleaving of closes, panics, failed
\* rollbacks and cancelled callers.
TruthfulReplies ==
    \A r \in Req : Claims(reply[r], r \in ran, landed[r])

\* A request is settled in order.  While the task's connection is in a
\* transaction a request owns it and, unless that is a checkpoint, holds the
\* volume lease; a connection that could not be settled has poisoned the
\* admission (BlockingWriterConnection's drop order).  And tx_registry never
\* shows a span whose caller has already resumed (#1790).
OrderlySettlement ==
    /\ conn = "txn" => cur # NoReq /\ (kind[cur] = "checkpoint" \/ lease = "task")
    /\ conn = "leaked" => poisoned
    /\ span => cur # NoReq /\ reply[cur] = "none"

\* The pending gauge is exact and can never fail with InvariantViolation:
\* each request is counted once from its offer to whichever of dequeue,
\* drain, timeout, cancellation or closed channel ends its wait.
PendingGaugeExact ==
    /\ ~metricsBad
    /\ depth = Cardinality({r \in Req : phase[r] \in {"waiting", "permit", "queued"}})

\* The requests whose outcome is what, told or about to be told.
Outcomes(what) ==
    {r \in Req : reply[r] = what \/ (r = cur /\ result = what)}

\* A refused BEGIN is counted in one class, once: writer_task_begin_busy minus
\* writer_task_begin_busy_absorbed is the number of busy refusals callers
\* observe and writer_task_begin_error the number of the others, whatever
\* mixture of attempts led to them.  Only a lost closure can hide one.
BusyAccounting ==
    term # "JoinError" =>
      /\ counters["beginBusy"] - counters["absorbed"] = Cardinality(Outcomes("WriterTaskBusy"))
      /\ counters["beginErrors"] = Cardinality(Outcomes("BeginError"))

\* The admission metrics an operator reads are exact at every moment, through
\* timeouts, cancellations, retries and a terminal task's drain.
CountersExact == PendingGaugeExact /\ BusyAccounting

\* A closure starts only on a connection in the state it was promised: a
\* wrapped request inside the transaction its own BEGIN opened, any other in
\* autocommit mode, never inside a transaction leaked by an earlier request.
CleanStart ==
    [][\A r \in ran' \ ran : IF kind[r] = "wrapped"
                              THEN conn = "txn" /\ r \in began
                              ELSE conn = "auto"]_vars

\* The contract the task gives its callers: cur is the request in service,
\* reply the answers, landed the database.
Contract == INSTANCE WriteContract WITH
    Untouched <- UntouchedReplies, RolledBack <- RolledBackReplies,
    Vague <- {"OpError", "SideEffectsUnknown"},
    serving <- cur, told <- reply, db <- landed

\* The task implements its contract: one request at a time, effects only
\* before the answer, every answer given once and true.
ImplementsContract == Contract!Spec

-----------------------------------------------------------------------------
(* Liveness.                                                               *)

\* An accepted request is always answered: it runs, or it is failed by the
\* drain of a terminal task, even when its permit raced rx.close().
AcceptedIsAnswered ==
    \A r \in Req : phase[r] \in {"permit", "queued", "active"} ~> phase[r] = "done"

\* A caller suspended on a full channel is never starved: slots are handed out
\* in arrival order and a closed channel wakes every waiter.
WaitersResolve == \A r \in Req : phase[r] = "waiting" ~> phase[r] # "waiting"

\* No caller of the writer task is left hanging, in either wait.
CallersResolve == AcceptedIsAnswered /\ WaitersResolve

=============================================================================
