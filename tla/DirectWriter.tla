---------------------------- MODULE DirectWriter ----------------------------
(***************************************************************************)
(* Writes that do not go through the writer task of khive-db: units on the *)
(* pooled writer connection (WriterGuard) and units on a connection of     *)
(* their own (StandaloneWriteUnit), each a transaction or an autocommit    *)
(* script, for a file-backed pool.  Every unit takes the volume lease,     *)
(* then, if pooled, the writer's mutex; it settles its connection before   *)
(* it gives up the mutex and then the lease, and returns its result last.  *)
(*                                                                         *)
(* Guests take the mutex alone: reads that share the writer connection     *)
(* when the pool has no readers, and the zero-wait checkpoint.             *)
(*                                                                         *)
(* A connection whose rollback cannot be proved is closed; if it cannot    *)
(* even be closed it is "leaked", and the pool's admission is poisoned.    *)
(***************************************************************************)
EXTENDS Naturals, FiniteSets

CONSTANTS Unit, NoUnit, Pool

ASSUME UnitAssumption == NoUnit \notin Unit /\ Pool \notin Unit

VARIABLES
    pc,        \* where each unit is
    kind,      \* what each unit is
    result,    \* what it will return
    why,       \* what it returns if its rollback is proved
    conn,      \* the pooled connection, and each unit's own
    mutex,     \* who holds the pooled writer's mutex
    lease,     \* who holds the volume lease
    retired,   \* pooled_writer_retired
    poisoned,  \* WriteAdmission::settlement_unknown
    ran,       \* history: the units whose callback was invoked
    landed     \* history: how much of a unit's writes the database holds

poolVars == <<mutex, lease, retired, poisoned>>
history == <<ran, landed>>
vars == <<pc, kind, result, why, conn, poolVars, history>>

Kinds == {"pooledTxn", "pooledScript", "ownTxn", "ownScript", "guest"}
PooledKinds == {"pooledTxn", "pooledScript"}
TxnKinds == {"pooledTxn", "ownTxn"}
ScriptKinds == {"pooledScript", "ownScript"}
OwnKinds == {"ownTxn", "ownScript"}
PCs == {"idle", "leaseWait", "lockWait", "opening", "admitted", "begun", "body",
        "commit", "rollback", "drop", "swap", "unlock", "release", "done"}
Results == {"none", "Refused", "RolledBack", "Ok", "OpError", "Unknown", "Panicked"}
ConnStates == {"unopened", "auto", "txn", "tainted", "closed", "leaked"}

TypeOK ==
    /\ pc \in [Unit -> PCs]
    /\ kind \in [Unit -> Kinds]
    /\ result \in [Unit -> Results]
    /\ why \in [Unit -> {"none", "Refused", "RolledBack", "OpError"}]
    /\ conn \in [Unit \cup {Pool} -> ConnStates]
    /\ mutex \in Unit \cup {NoUnit}
    /\ lease \in Unit \cup {NoUnit}
    /\ retired \in BOOLEAN
    /\ poisoned \in BOOLEAN
    /\ ran \in SUBSET Unit
    /\ landed \in [Unit -> {"none", "some", "all"}]

Init ==
    /\ pc = [u \in Unit |-> "idle"]
    /\ kind \in [Unit -> Kinds]
    /\ result = [u \in Unit |-> "none"]
    /\ why = [u \in Unit |-> "none"]
    /\ conn = [h \in Unit \cup {Pool} |-> IF h = Pool THEN "auto" ELSE "unopened"]
    /\ mutex = NoUnit
    /\ lease = NoUnit
    /\ retired = FALSE
    /\ poisoned = FALSE
    /\ ran = {}
    /\ landed = [u \in Unit |-> "none"]

Pooled(u) == kind[u] \in PooledKinds
Handle(u) == IF Pooled(u) THEN Pool ELSE u

Goto(u, l) == pc' = [pc EXCEPT ![u] = l]
Returns(u, answer) == result' = [result EXCEPT ![u] = answer]
Becomes(u, state) == conn' = [conn EXCEPT ![Handle(u)] = state]

\* retire_pooled_writer, which only a pooled unit calls.
Retire(u) == retired' = (retired \/ Pooled(u))

-----------------------------------------------------------------------------
(* Admission: writer_checkout and standalone_write_unit.                   *)

\* ensure_settled and, for a pooled unit, ensure_pooled_writer_active.
Ask(u) ==
    /\ pc[u] = "idle"
    /\ kind[u] # "guest"
    /\ ~poisoned
    /\ Pooled(u) => ~retired
    /\ Goto(u, "leaseWait")
    /\ UNCHANGED <<kind, result, why, conn, poolVars, history>>

AskRefused(u) ==
    /\ pc[u] = "idle"
    /\ kind[u] # "guest"
    /\ poisoned \/ (Pooled(u) /\ retired)
    /\ Returns(u, "Refused")
    /\ Goto(u, "done")
    /\ UNCHANGED <<kind, why, conn, poolVars, history>>

\* WriteAdmission::acquire.
TakeLease(u) ==
    /\ pc[u] = "leaseWait"
    /\ lease = NoUnit
    /\ lease' = u
    /\ Goto(u, IF Pooled(u) THEN "lockWait" ELSE "opening")
    /\ UNCHANGED <<kind, result, why, conn, mutex, retired, poisoned, history>>

LeaseRefused(u) ==
    /\ pc[u] = "leaseWait"
    /\ Returns(u, "Refused")
    /\ Goto(u, "done")
    /\ UNCHANGED <<kind, why, conn, poolVars, history>>

\* Fault: the pooled writer is not looked at again once the mutex is held.
LockUnchecked(u) ==
    /\ pc[u] = "lockWait"
    /\ mutex = NoUnit
    /\ mutex' = u
    /\ Goto(u, "admitted")
    /\ UNCHANGED <<kind, result, why, conn, lease, retired, poisoned, history>>

\* The mutex is locked in time, on a writer that is still active.
Lock(u) ==
    /\ pc[u] = "lockWait"
    /\ mutex = NoUnit
    /\ ~retired
    /\ mutex' = u
    /\ Goto(u, "admitted")
    /\ UNCHANGED <<kind, result, why, conn, lease, retired, poisoned, history>>

\* Fault: the mutex is waited for without a bound.
LockRefusedUnbounded(u) ==
    /\ pc[u] = "lockWait"
    /\ mutex = NoUnit
    /\ Returns(u, "Refused")
    /\ Goto(u, "release")
    /\ UNCHANGED <<kind, why, conn, poolVars, history>>

\* checkout_timeout, a retired writer, or a database file that is not the one
\* that was opened.
LockRefused(u) ==
    /\ pc[u] = "lockWait"
    /\ Returns(u, "Refused")
    /\ Goto(u, "release")
    /\ UNCHANGED <<kind, why, conn, poolVars, history>>

OpenOwn(u) ==
    /\ pc[u] = "opening"
    /\ Becomes(u, "auto")
    /\ Goto(u, "admitted")
    /\ UNCHANGED <<kind, result, why, poolVars, history>>

OpenOwnFails(u) ==
    /\ pc[u] = "opening"
    /\ Returns(u, "Refused")
    /\ Goto(u, "release")
    /\ UNCHANGED <<kind, why, conn, poolVars, history>>

-----------------------------------------------------------------------------
(* The unit's work.                                                        *)

\* SQLite's own writer slot: no other connection is inside a write.
SlotFree(u) == \A h \in DOMAIN conn \ {Handle(u)} : conn[h] \notin {"txn", "leaked"}

\* BEGIN IMMEDIATE of begin_admitted_transaction, begin_standalone_transaction.
Begin(u) ==
    /\ pc[u] = "admitted"
    /\ kind[u] \in TxnKinds
    /\ conn[Handle(u)] = "auto"
    /\ SlotFree(u)
    /\ Becomes(u, "txn")
    /\ Goto(u, "begun")
    /\ UNCHANGED <<kind, result, why, poolVars, history>>

\* BEGIN fails with a transaction open all the same.
BeginLeavesOpen(u) ==
    /\ pc[u] = "admitted"
    /\ kind[u] \in TxnKinds
    /\ conn[Handle(u)] = "auto"
    /\ SlotFree(u)
    /\ Becomes(u, "txn")
    /\ Retire(u)
    /\ Returns(u, "Unknown")
    /\ Goto(u, "drop")
    /\ UNCHANGED <<kind, why, mutex, lease, poisoned, history>>

\* Nothing is started: an inherited transaction (which retires the pooled
\* writer), a busy or failed BEGIN, a script below the capacity floor.
StartRefused(u) ==
    /\ pc[u] = "admitted"
    /\ retired' = (retired \/ (Pooled(u) /\ conn[Pool] # "auto"))
    /\ Returns(u, "Refused")
    /\ Goto(u, "drop")
    /\ UNCHANGED <<kind, why, conn, mutex, lease, poisoned, history>>

\* The capacity check: after BEGIN for a transaction, before the callback for
\* a script (admit_autocommit, standalone_autocommit).
Admit(u) ==
    /\ \/ pc[u] = "begun"
       \/ /\ pc[u] = "admitted"
          /\ kind[u] \in ScriptKinds
          /\ conn[Handle(u)] \in {"auto", "closed"}
    /\ Goto(u, "body")
    /\ UNCHANGED <<kind, result, why, conn, poolVars, history>>

CapacityRefuses(u) ==
    /\ pc[u] = "begun"
    /\ why' = [why EXCEPT ![u] = "Refused"]
    /\ Goto(u, "rollback")
    /\ UNCHANGED <<kind, result, conn, poolVars, history>>

\* The transaction callback returns or panics; SQLite may have rolled back by
\* itself, and what ran after that is in the database.
RunTxn(u) ==
    /\ pc[u] = "body"
    /\ kind[u] \in TxnKinds
    /\ ran' = ran \cup {u}
    /\ \E ended \in BOOLEAN, part \in {"none", "some"} :
         /\ part = "some" => ended
         /\ Becomes(u, IF ended THEN "auto" ELSE "txn")
         /\ landed' = [landed EXCEPT ![u] = part]
    /\ \/ Goto(u, "commit") /\ UNCHANGED <<result, why>>
       \/ /\ why' = [why EXCEPT ![u] = "RolledBack"]
          /\ Goto(u, "rollback")
          /\ UNCHANGED result
       \/ Returns(u, "Panicked") /\ Goto(u, "drop") /\ UNCHANGED why
    /\ UNCHANGED <<kind, poolVars>>

\* A script commits as it goes, and ends in autocommit with its own result ...
ScriptEnds(u) ==
    /\ pc[u] = "body"
    /\ kind[u] \in ScriptKinds
    /\ ran' = ran \cup {u}
    /\ \E part \in {"none", "some", "all"}, answer \in {"Ok", "OpError", "Panicked"} :
         /\ answer = "Ok" => part = "all"
         /\ conn[Handle(u)] = "closed" => part = "none"
         /\ landed' = [landed EXCEPT ![u] = part]
         /\ Returns(u, answer)
    /\ Goto(u, "drop")
    /\ UNCHANGED <<kind, why, conn, poolVars>>

\* ... or leaves a transaction of its own open, whatever it returns.
ScriptLeavesOpen(u) ==
    /\ pc[u] = "body"
    /\ kind[u] \in ScriptKinds
    /\ SlotFree(u)
    /\ ran' = ran \cup {u}
    /\ Becomes(u, "txn")
    /\ \E part \in {"none", "some"} : landed' = [landed EXCEPT ![u] = part]
    /\ \/ /\ why' = [why EXCEPT ![u] = "OpError"]
          /\ Goto(u, "rollback")
          /\ UNCHANGED result
       \/ Returns(u, "Panicked") /\ Goto(u, "drop") /\ UNCHANGED why
    /\ UNCHANGED <<kind, poolVars>>

CommitOk(u) ==
    /\ pc[u] = "commit"
    /\ conn[Handle(u)] = "txn"
    /\ Becomes(u, "auto")
    /\ landed' = [landed EXCEPT ![u] = "all"]
    /\ Returns(u, "Ok")
    /\ Goto(u, "drop")
    /\ UNCHANGED <<kind, why, poolVars, ran>>

\* Fault: COMMIT's return code is trusted without looking at autocommit.
CommitTrusted(u) ==
    /\ pc[u] = "commit"
    /\ conn[Handle(u)] = "txn"
    /\ Returns(u, "Ok")
    /\ Goto(u, "drop")
    /\ UNCHANGED <<kind, why, conn, poolVars, history>>

\* COMMIT returns success and the transaction is still open.
CommitLeavesOpen(u) ==
    /\ pc[u] = "commit"
    /\ conn[Handle(u)] = "txn"
    /\ Retire(u)
    /\ Returns(u, "Unknown")
    /\ Goto(u, "drop")
    /\ UNCHANGED <<kind, why, conn, mutex, lease, poisoned, history>>

\* COMMIT fails: the transaction stays open, or it ended and the writes are or
\* are not there, or there was none to commit.
CommitFails(u) ==
    /\ pc[u] = "commit"
    /\ why' = [why EXCEPT ![u] = "RolledBack"]
    /\ Goto(u, "rollback")
    /\ \/ UNCHANGED <<conn, landed>>
       \/ /\ conn[Handle(u)] = "txn"
          /\ Becomes(u, "auto")
          /\ \E part \in {"none", "all"} : landed' = [landed EXCEPT ![u] = part]
    /\ UNCHANGED <<kind, result, poolVars, ran>>

\* rollback_proves_autocommit: ROLLBACK succeeds and autocommit is back.
RollbackProved(u) ==
    /\ pc[u] = "rollback"
    /\ conn[Handle(u)] = "txn"
    /\ Becomes(u, "auto")
    /\ Returns(u, why[u])
    /\ Goto(u, "drop")
    /\ UNCHANGED <<kind, why, poolVars, history>>

\* ROLLBACK fails, for want of a transaction too, or does not end it.
RollbackUnproved(u) ==
    /\ pc[u] = "rollback"
    /\ Retire(u)
    /\ Returns(u, "Unknown")
    /\ Goto(u, "drop")
    /\ UNCHANGED <<kind, why, conn, mutex, lease, poisoned, history>>

-----------------------------------------------------------------------------
(* Settlement: the Drop of WriterGuard and of StandaloneWriteUnit.         *)

\* WriterGuard::drop: the last-resort rollback of an open transaction.
DropGuard(u) ==
    /\ pc[u] = "drop"
    /\ Pooled(u)
    /\ \/ conn[Pool] # "txn" /\ UNCHANGED <<conn, retired>>
       \/ conn[Pool] = "txn" /\ Becomes(u, "auto") /\ UNCHANGED retired
       \/ conn[Pool] = "txn" /\ Retire(u) /\ UNCHANGED conn
    /\ Goto(u, "swap")
    /\ UNCHANGED <<kind, result, why, mutex, lease, poisoned, history>>

\* close_retired_connection on the connection behind h.
CloseRetired(h) ==
    \/ conn' = [conn EXCEPT ![h] = "closed"] /\ UNCHANGED poisoned
    \/ /\ conn[h] = "txn"
       /\ conn' = [conn EXCEPT ![h] = "leaked"]
       /\ poisoned' = TRUE

\* A retired writer is closed, and the spare in-memory connection, in
\* autocommit and denying every statement, takes its place.
SwapRetired(u) ==
    /\ pc[u] = "swap"
    /\ IF retired THEN CloseRetired(Pool) ELSE UNCHANGED <<conn, poisoned>>
    /\ Goto(u, "unlock")
    /\ UNCHANGED <<kind, result, why, mutex, lease, retired, history>>

\* Fault: the lease is dropped before the connection is closed.
DropOwnReleasing(u) ==
    /\ pc[u] = "drop"
    /\ kind[u] \in OwnKinds
    /\ lease = u
    /\ lease' = NoUnit
    /\ UNCHANGED <<pc, kind, result, why, conn, mutex, retired, poisoned, history>>

\* StandaloneWriteUnit::drop.
DropOwn(u) ==
    /\ pc[u] = "drop"
    /\ kind[u] \in OwnKinds
    /\ CloseRetired(u)
    /\ Goto(u, "release")
    /\ UNCHANGED <<kind, result, why, mutex, lease, retired, history>>

\* The guard's fields drop in order: the mutex ...
Unlock(u) ==
    /\ pc[u] = "unlock"
    /\ mutex' = NoUnit
    /\ Goto(u, "release")
    /\ UNCHANGED <<kind, result, why, conn, lease, retired, poisoned, history>>

\* ... then the volume lease; the caller has its result after that.
ReleaseLease(u) ==
    /\ pc[u] = "release"
    /\ lease' = NoUnit
    /\ Goto(u, "done")
    /\ UNCHANGED <<kind, result, why, conn, mutex, retired, poisoned, history>>

-----------------------------------------------------------------------------
(* Guests of the pooled connection.                                        *)

\* reader_with_admission with max_readers = 0 (a database file without WAL)
\* and try_checkpoint_nowait.
GuestLocks(u) ==
    /\ pc[u] = "idle"
    /\ kind[u] = "guest"
    /\ mutex = NoUnit
    /\ ~retired
    /\ mutex' = u
    /\ Goto(u, "body")
    /\ UNCHANGED <<kind, result, why, conn, lease, retired, poisoned, history>>

GuestRefused(u) ==
    /\ pc[u] = "idle"
    /\ kind[u] = "guest"
    /\ Goto(u, "done")
    /\ UNCHANGED <<kind, result, why, conn, poolVars, history>>

\* A raw read may leave connection-local state (a temporary object, a
\* setting, a progress handler) behind, which marks the lease dirty.
GuestRuns(u) ==
    /\ pc[u] = "body"
    /\ kind[u] = "guest"
    /\ \E left \in {"auto", "tainted"} : conn' = [conn EXCEPT ![Pool] = left]
    /\ Goto(u, "drop")
    /\ UNCHANGED <<kind, result, why, poolVars, history>>

\* Fault: the shared lease is given back as it is.
GuestDropsUnrestored(u) ==
    /\ pc[u] = "drop"
    /\ kind[u] = "guest"
    /\ mutex' = NoUnit
    /\ Goto(u, "done")
    /\ UNCHANGED <<kind, result, why, conn, lease, retired, poisoned, history>>

\* ReaderGuard::drop: what is left is verifiably undone, or the writer is
\* retired (and stays where it is).
GuestDrops(u) ==
    /\ pc[u] = "drop"
    /\ kind[u] = "guest"
    /\ \/ conn' = [conn EXCEPT ![Pool] = "auto"] /\ UNCHANGED retired
       \/ conn[Pool] = "tainted" /\ retired' = TRUE /\ UNCHANGED conn
    /\ mutex' = NoUnit
    /\ Goto(u, "done")
    /\ UNCHANGED <<kind, result, why, lease, poisoned, history>>

-----------------------------------------------------------------------------
Work(u) ==
    \/ Begin(u) \/ BeginLeavesOpen(u) \/ StartRefused(u) \/ Admit(u) \/ CapacityRefuses(u)
    \/ RunTxn(u) \/ ScriptEnds(u) \/ ScriptLeavesOpen(u)
    \/ CommitOk(u) \/ CommitLeavesOpen(u) \/ CommitFails(u)
    \/ RollbackProved(u) \/ RollbackUnproved(u)

Write(u) ==
    \/ Ask(u) \/ AskRefused(u) \/ TakeLease(u) \/ LeaseRefused(u)
    \/ Lock(u) \/ LockRefused(u) \/ OpenOwn(u) \/ OpenOwnFails(u)
    \/ Work(u)
    \/ DropGuard(u) \/ SwapRetired(u) \/ DropOwn(u) \/ Unlock(u) \/ ReleaseLease(u)

Guest(u) == GuestLocks(u) \/ GuestRefused(u) \/ GuestRuns(u) \/ GuestDrops(u)

\* Every unit has returned.
Terminated == (\A u \in Unit : pc[u] = "done") /\ UNCHANGED vars

Next == (\E u \in Unit : Write(u) \/ Guest(u)) \/ Terminated

Spec == Init /\ [][Next]_vars

(***************************************************************************)
(* Fairness: a write whose thread can run runs; its waits for the lease    *)
(* and the mutex are bounded by deadlines and always have a way out.  A    *)
(* guest may keep the mutex forever.                                       *)
(***************************************************************************)
Fairness == \A u \in Unit : WF_vars(Write(u))
FairSpec == Spec /\ Fairness

-----------------------------------------------------------------------------
(* Properties.                                                             *)

\* The pooled writer is never found in somebody else's transaction or with
\* his state: when nobody holds it, it is clean or retired, whatever
\* callbacks, panics and guests did to it (InheritedWriterTransaction and the
\* inherited case of admit_autocommit are never reached).
IdleWriterClean ==
    /\ mutex = NoUnit /\ ~retired => conn[Pool] = "auto"
    /\ \A u \in Unit : Pooled(u) /\ pc[u] = "admitted" => conn[Pool] = "auto"

\* No write is in progress without the volume lease: a connection inside a
\* write belongs to the unit that holds the lease until it is settled, and
\* one that could not be settled has poisoned the admission.
LeaseCoversWrites ==
    \A h \in Unit \cup {Pool} :
      /\ conn[h] = "txn" => lease # NoUnit /\ Handle(lease) = h
      /\ conn[h] = "leaked" => poisoned

\* A connection lost inside a transaction is never silent: if the admission is
\* poisoned, some write returns a result that says it does not know, although
\* the loss is found out in a Drop, after that result was chosen.
UnknownIsReported ==
    poisoned => \E u \in Unit : result[u] \in {"Unknown", "Panicked"}

\* A write that cannot be settled is contained: it keeps the lease while there
\* is anything to roll back, then poisons the admission, and says so.
LossIsContained == LeaseCoversWrites /\ UnknownIsReported

\* A retired writer serves nobody, not even the units that were waiting for
\* its mutex when it was retired.
RetiredServesNobody ==
    [][retired => \A u \in ran' \ ran : ~Pooled(u)]_vars

\* The same contract as the writer task: a unit is in service while it holds
\* the lease, and its answer is settled once its connection is.
Contract == INSTANCE WriteContract WITH
    Req <- Unit, NoReq <- NoUnit,
    Untouched <- {"Refused"}, RolledBack <- {"RolledBack"},
    Vague <- {"OpError", "Unknown", "Panicked"},
    serving <- lease,
    told <- [u \in Unit |-> IF pc[u] \in {"unlock", "release", "done"}
                              THEN result[u] ELSE "none"],
    db <- landed

\* Direct writes implement the writer task's contract: one at a time under
\* the lease, effects only before the outcome is settled, every result true.
ImplementsContract == Contract!Spec

\* Every write returns, even while a guest never gives the writer back.
WritesReturn == \A u \in Unit : pc[u] = "leaseWait" ~> pc[u] = "done"
=============================================================================
