------------------------- MODULE DirectWriterProofs -------------------------
(***************************************************************************)
(* Direct writes and the volume lease that each of them takes first.       *)
(*                                                                         *)
(* For any number of direct write units and guests of any kinds: the idle  *)
(* pooled writer is clean (IdleWriterClean), a write that cannot be        *)
(* settled is contained (LossIsContained), a retired writer serves nobody, *)
(* and direct writes implement WriteContract.                              *)
(*                                                                         *)
(* For any number of processes and threads, the two-level volume lease     *)
(* excludes: at most one thread on the volume holds it, the in-process     *)
(* slot always names the thread between grant and drop, and a free slot    *)
(* never leaves its process's file lock behind; grants follow arrival and  *)
(* no wakeup is lost, across time-outs, failed file locks and crashes.     *)
(***************************************************************************)
EXTENDS DirectWriter, VolumeLease, TLAPS, SequenceTheorems

-----------------------------------------------------------------------------
(* The inductive invariant: what each step of a unit knows.                *)

Settled == {"unlock", "release", "done"}
Working == {"admitted", "begun", "body", "commit", "rollback", "drop"}

\* The steps each kind of unit goes through.
RouteInv ==
    \A u \in Unit :
      /\ kind[u] = "guest" => pc[u] \in {"idle", "body", "drop", "done"}
      /\ Pooled(u) => pc[u] # "opening"
      /\ kind[u] \in OwnKinds => pc[u] \notin {"lockWait", "swap", "unlock"}
      /\ pc[u] \in {"begun", "commit"} => kind[u] \in TxnKinds

\* Who holds the lease, and who the mutex, is told by the steps.
HasLease(u) == kind[u] # "guest" /\ pc[u] \notin {"idle", "leaseWait", "done"}
HasMutex(u) ==
    \/ Pooled(u) /\ pc[u] \in Working \cup {"swap", "unlock"}
    \/ kind[u] = "guest" /\ pc[u] \in {"body", "drop"}

HolderInv ==
    \A u \in Unit : (lease = u <=> HasLease(u)) /\ (mutex = u <=> HasMutex(u))

\* The connection of a unit at work is its own or clean when it gets it.
WorkInv ==
    \A u \in Unit :
      kind[u] # "guest" =>
        /\ pc[u] = "admitted" => conn[Handle(u)] = "auto"
        /\ pc[u] = "begun" => conn[Handle(u)] = "txn"
        /\ pc[u] = "body" =>
             conn[Handle(u)] = (IF kind[u] \in TxnKinds THEN "txn" ELSE "auto")
        /\ pc[u] \in {"commit", "rollback", "drop"} => conn[Handle(u)] \in {"auto", "txn"}

\* The pooled connection: who may leave what behind in it.
PoolInv ==
    /\ mutex = NoUnit => /\ conn[Pool] # "txn"
                         /\ ~retired => conn[Pool] = "auto"
    /\ \A u \in Unit :
         /\ Pooled(u) /\ pc[u] \in Working \ {"drop"} => ~retired
         /\ Pooled(u) /\ pc[u] = "swap" =>
              conn[Pool] = "auto" \/ (conn[Pool] = "txn" /\ retired)
         /\ Pooled(u) /\ pc[u] = "unlock" =>
              /\ conn[Pool] # "txn"
              /\ ~retired => conn[Pool] = "auto"
         /\ kind[u] = "guest" /\ pc[u] = "body" => conn[Pool] = "auto" /\ ~retired
         /\ kind[u] = "guest" /\ pc[u] = "drop" => conn[Pool] \in {"auto", "tainted"}

\* A connection of a unit's own is open only while the unit works.
OwnInv ==
    \A u \in Unit :
      conn[u] = "txn" => kind[u] \in OwnKinds /\ pc[u] \in Working

\* A connection that is settled inside a transaction was reported.
LossInv ==
    /\ \A h \in Unit \cup {Pool} : conn[h] = "leaked" => poisoned
    /\ UnknownIsReported
    /\ \A u \in Unit :
         /\ result[u] # "none" => pc[u] \in Settled \cup {"drop", "swap"}
         /\ kind[u] # "guest" /\ pc[u] \in {"drop", "swap"} /\ conn[Handle(u)] = "txn" =>
              result[u] \in {"Unknown", "Panicked"}

SafetyInv == TypeOK /\ RouteInv /\ HolderInv /\ WorkInv /\ PoolInv /\ OwnInv /\ LossInv

\* What a result says of the database, as WriteContract has it.
Says(answer, part) ==
    /\ answer \in {"Refused", "RolledBack"} => part = "none"
    /\ answer = "Ok" => part = "all"

\* A unit is untouched until its callback runs, still untouched as long as its
\* transaction is open, and its result is true once it is chosen.
OutcomeInv ==
    \A u \in Unit :
      /\ pc[u] \in {"idle", "leaseWait", "lockWait", "opening", "admitted", "begun", "body"} =>
           landed[u] = "none"
      /\ pc[u] \in {"commit", "rollback"} /\ kind[u] \in TxnKinds
           /\ conn[Handle(u)] = "txn" => landed[u] = "none"
      /\ pc[u] = "rollback" =>
           why[u] \in (IF kind[u] \in TxnKinds THEN {"Refused", "RolledBack"} ELSE {"OpError"})
      /\ kind[u] = "guest" => result[u] = "none"
      /\ kind[u] # "guest" /\ pc[u] \in Settled \cup {"drop", "swap"} =>
           result[u] # "none" /\ Says(result[u], landed[u])

ContractInv == SafetyInv /\ OutcomeInv

-----------------------------------------------------------------------------
(* Preservation.                                                           *)

LEMMA InitType == Init => TypeOK
<1> SUFFICES ASSUME Init PROVE TypeOK
  OBVIOUS
<1>1. retired \in BOOLEAN /\ poisoned \in BOOLEAN
  BY Zenon DEF Init
<1> QED
  BY <1>1 DEF Init, TypeOK, PCs, Results, ConnStates

\* Every action of a unit, one by one, preserves the types ...
LEMMA UnitType ==
    ASSUME TypeOK, NEW u \in Unit, Write(u) \/ Guest(u)
    PROVE  TypeOK'
<1> USE DEF TypeOK, PCs, Kinds, PooledKinds, OwnKinds, TxnKinds, ScriptKinds, Results,
            ConnStates, Pooled, Handle, Goto, Returns, Becomes, poolVars, history
<1>1. CASE Ask(u)
  BY <1>1 DEF Ask
<1>2. CASE AskRefused(u)
  BY <1>2 DEF AskRefused
<1>3. CASE TakeLease(u)
  BY <1>3 DEF TakeLease
<1>4. CASE LeaseRefused(u)
  BY <1>4 DEF LeaseRefused
<1>5. CASE Lock(u)
  BY <1>5 DEF Lock
<1>6. CASE LockRefused(u)
  BY <1>6 DEF LockRefused
<1>7. CASE OpenOwn(u)
  BY <1>7 DEF OpenOwn
<1>8. CASE OpenOwnFails(u)
  BY <1>8 DEF OpenOwnFails
<1>9. CASE Begin(u)
  BY <1>9 DEF Begin
<1>10. CASE BeginLeavesOpen(u)
  BY <1>10 DEF BeginLeavesOpen, Retire
<1>11. CASE StartRefused(u)
  BY <1>11 DEF StartRefused
<1>12. CASE Admit(u)
  BY <1>12 DEF Admit
<1>13. CASE CapacityRefuses(u)
  BY <1>13 DEF CapacityRefuses
<1>14. CASE RunTxn(u)
  BY <1>14 DEF RunTxn
<1>15. CASE ScriptEnds(u)
  BY <1>15 DEF ScriptEnds
<1>16. CASE ScriptLeavesOpen(u)
  BY <1>16 DEF ScriptLeavesOpen
<1>17. CASE CommitOk(u)
  BY <1>17 DEF CommitOk
<1>18. CASE CommitLeavesOpen(u)
  BY <1>18 DEF CommitLeavesOpen, Retire
<1>19. CASE CommitFails(u)
  BY <1>19 DEF CommitFails
<1>20. CASE RollbackProved(u)
  BY <1>20 DEF RollbackProved
<1>21. CASE RollbackUnproved(u)
  BY <1>21 DEF RollbackUnproved, Retire
<1>22. CASE DropGuard(u)
  BY <1>22 DEF DropGuard, Retire
<1>23. CASE SwapRetired(u)
  BY <1>23 DEF SwapRetired, CloseRetired
<1>24. CASE DropOwn(u)
  BY <1>24 DEF DropOwn, CloseRetired
<1>25. CASE Unlock(u)
  BY <1>25 DEF Unlock
<1>26. CASE ReleaseLease(u)
  BY <1>26 DEF ReleaseLease
<1>27. CASE GuestLocks(u)
  BY <1>27 DEF GuestLocks
<1>28. CASE GuestRefused(u)
  BY <1>28 DEF GuestRefused
<1>29. CASE GuestRuns(u)
  BY <1>29 DEF GuestRuns
<1>30. CASE GuestDrops(u)
  BY <1>30 DEF GuestDrops
<1> QED
  BY <1>1, <1>2, <1>3, <1>4, <1>5, <1>6, <1>7, <1>8, <1>9, <1>10, <1>11, <1>12,
     <1>13, <1>14, <1>15, <1>16, <1>17, <1>18, <1>19, <1>20, <1>21, <1>22, <1>23,
     <1>24, <1>25, <1>26, <1>27, <1>28, <1>29, <1>30 DEF Write, Work, Guest

\* ... who holds the lease and the mutex ...
LEMMA UnitHolder ==
    ASSUME SafetyInv, NEW u \in Unit, Write(u) \/ Guest(u)
    PROVE  RouteInv' /\ HolderInv'
<1> USE UnitAssumption
    DEF SafetyInv, TypeOK, RouteInv, HolderInv, HasLease, HasMutex, Settled, Working, PCs,
        Kinds, PooledKinds, OwnKinds, TxnKinds, ScriptKinds, Pooled, Handle,
        Goto, Returns, Becomes, poolVars, history
<1>1. CASE Ask(u)
  BY <1>1 DEF Ask
<1>2. CASE AskRefused(u)
  BY <1>2 DEF AskRefused
<1>3. CASE TakeLease(u)
  BY <1>3 DEF TakeLease
<1>4. CASE LeaseRefused(u)
  BY <1>4 DEF LeaseRefused
<1>5. CASE Lock(u)
  BY <1>5 DEF Lock
<1>6. CASE LockRefused(u)
  BY <1>6 DEF LockRefused
<1>7. CASE OpenOwn(u)
  BY <1>7 DEF OpenOwn
<1>8. CASE OpenOwnFails(u)
  BY <1>8 DEF OpenOwnFails
<1>9. CASE Begin(u)
  BY <1>9 DEF Begin
<1>10. CASE BeginLeavesOpen(u)
  BY <1>10 DEF BeginLeavesOpen, Retire
<1>11. CASE StartRefused(u)
  BY <1>11 DEF StartRefused
<1>12. CASE Admit(u)
  BY <1>12 DEF Admit
<1>13. CASE CapacityRefuses(u)
  BY <1>13 DEF CapacityRefuses
<1>14. CASE RunTxn(u)
  BY <1>14 DEF RunTxn
<1>15. CASE ScriptEnds(u)
  BY <1>15 DEF ScriptEnds
<1>16. CASE ScriptLeavesOpen(u)
  BY <1>16 DEF ScriptLeavesOpen
<1>17. CASE CommitOk(u)
  BY <1>17 DEF CommitOk
<1>18. CASE CommitLeavesOpen(u)
  BY <1>18 DEF CommitLeavesOpen, Retire
<1>19. CASE CommitFails(u)
  BY <1>19 DEF CommitFails
<1>20. CASE RollbackProved(u)
  BY <1>20 DEF RollbackProved
<1>21. CASE RollbackUnproved(u)
  BY <1>21 DEF RollbackUnproved, Retire
<1>22. CASE DropGuard(u)
  BY <1>22 DEF DropGuard, Retire
<1>23. CASE SwapRetired(u)
  BY <1>23 DEF SwapRetired, CloseRetired
<1>24. CASE DropOwn(u)
  BY <1>24 DEF DropOwn, CloseRetired
<1>25. CASE Unlock(u)
  BY <1>25 DEF Unlock
<1>26. CASE ReleaseLease(u)
  BY <1>26 DEF ReleaseLease
<1>27. CASE GuestLocks(u)
  BY <1>27 DEF GuestLocks
<1>28. CASE GuestRefused(u)
  BY <1>28 DEF GuestRefused
<1>29. CASE GuestRuns(u)
  BY <1>29 DEF GuestRuns
<1>30. CASE GuestDrops(u)
  BY <1>30 DEF GuestDrops
<1> QED
  BY <1>1, <1>2, <1>3, <1>4, <1>5, <1>6, <1>7, <1>8, <1>9, <1>10, <1>11, <1>12,
     <1>13, <1>14, <1>15, <1>16, <1>17, <1>18, <1>19, <1>20, <1>21, <1>22, <1>23,
     <1>24, <1>25, <1>26, <1>27, <1>28, <1>29, <1>30 DEF Write, Work, Guest

\* ... the states its connection can be in ...
LEMMA UnitPool ==
    ASSUME SafetyInv, NEW u \in Unit, Write(u) \/ Guest(u)
    PROVE  WorkInv' /\ PoolInv' /\ OwnInv'
<1> USE UnitAssumption
    DEF SafetyInv, TypeOK, RouteInv, HolderInv, HasLease, HasMutex, Settled, Working, PCs,
        Kinds, PooledKinds, OwnKinds, TxnKinds, ScriptKinds, Pooled, Handle,
        Goto, Returns, Becomes, poolVars, history, WorkInv, PoolInv, OwnInv
<1>1. CASE Ask(u)
  BY <1>1 DEF Ask
<1>2. CASE AskRefused(u)
  BY <1>2 DEF AskRefused
<1>3. CASE TakeLease(u)
  BY <1>3 DEF TakeLease
<1>4. CASE LeaseRefused(u)
  BY <1>4 DEF LeaseRefused
<1>5. CASE Lock(u)
  BY <1>5 DEF Lock
<1>6. CASE LockRefused(u)
  BY <1>6 DEF LockRefused
<1>7. CASE OpenOwn(u)
  BY <1>7 DEF OpenOwn
<1>8. CASE OpenOwnFails(u)
  BY <1>8 DEF OpenOwnFails
<1>9. CASE Begin(u)
  BY <1>9 DEF Begin
<1>10. CASE BeginLeavesOpen(u)
  BY <1>10 DEF BeginLeavesOpen, Retire
<1>11. CASE StartRefused(u)
  BY <1>11 DEF StartRefused
<1>12. CASE Admit(u)
  BY <1>12 DEF Admit
<1>13. CASE CapacityRefuses(u)
  BY <1>13 DEF CapacityRefuses
<1>14. CASE RunTxn(u)
  BY <1>14 DEF RunTxn
<1>15. CASE ScriptEnds(u)
  BY <1>15 DEF ScriptEnds
<1>16. CASE ScriptLeavesOpen(u)
  BY <1>16 DEF ScriptLeavesOpen
<1>17. CASE CommitOk(u)
  BY <1>17 DEF CommitOk
<1>18. CASE CommitLeavesOpen(u)
  BY <1>18 DEF CommitLeavesOpen, Retire
<1>19. CASE CommitFails(u)
  BY <1>19 DEF CommitFails
<1>20. CASE RollbackProved(u)
  BY <1>20 DEF RollbackProved
<1>21. CASE RollbackUnproved(u)
  BY <1>21 DEF RollbackUnproved, Retire
<1>22. CASE DropGuard(u)
  <2>0. /\ pc[u] = "drop" /\ Pooled(u) /\ pc' = [pc EXCEPT ![u] = "swap"]
        /\ conn[Pool] \in {"auto", "txn"} /\ mutex = u
        /\ UNCHANGED <<kind, mutex>>
    BY <1>22 DEF DropGuard
  <2>1. CASE conn[Pool] = "auto" /\ UNCHANGED <<conn, retired>>
    BY <2>0, <2>1
  <2>2. CASE conn[Pool] = "txn" /\ Becomes(u, "auto") /\ UNCHANGED retired
    BY <2>0, <2>2
  <2>3. CASE conn[Pool] = "txn" /\ Retire(u) /\ UNCHANGED conn
    <3>1. retired' = TRUE
      BY <2>0, <2>3, Zenon DEF Retire
    <3> QED
      BY <2>0, <2>3, <3>1
  <2> QED
    BY <1>22, <2>0, <2>1, <2>2, <2>3 DEF DropGuard
<1>23. CASE SwapRetired(u)
  BY <1>23 DEF SwapRetired, CloseRetired
<1>24. CASE DropOwn(u)
  BY <1>24 DEF DropOwn, CloseRetired
<1>25. CASE Unlock(u)
  BY <1>25 DEF Unlock
<1>26. CASE ReleaseLease(u)
  BY <1>26 DEF ReleaseLease
<1>27. CASE GuestLocks(u)
  BY <1>27 DEF GuestLocks
<1>28. CASE GuestRefused(u)
  BY <1>28 DEF GuestRefused
<1>29. CASE GuestRuns(u)
  BY <1>29 DEF GuestRuns
<1>30. CASE GuestDrops(u)
  BY <1>30 DEF GuestDrops
<1> QED
  BY <1>1, <1>2, <1>3, <1>4, <1>5, <1>6, <1>7, <1>8, <1>9, <1>10, <1>11, <1>12,
     <1>13, <1>14, <1>15, <1>16, <1>17, <1>18, <1>19, <1>20, <1>21, <1>22, <1>23,
     <1>24, <1>25, <1>26, <1>27, <1>28, <1>29, <1>30 DEF Write, Work, Guest

\* ... the report of every loss ...
LEMMA UnitLoss ==
    ASSUME SafetyInv, NEW u \in Unit, Write(u) \/ Guest(u)
    PROVE  LossInv'
<1> USE UnitAssumption
    DEF SafetyInv, TypeOK, RouteInv, HolderInv, HasLease, HasMutex, Settled, Working, PCs,
        Kinds, PooledKinds, OwnKinds, TxnKinds, ScriptKinds, Pooled, Handle,
        Goto, Returns, Becomes, poolVars, history, WorkInv, PoolInv, OwnInv, LossInv,
        UnknownIsReported, Results
<1>1. CASE Ask(u)
  BY <1>1 DEF Ask
<1>2. CASE AskRefused(u)
  BY <1>2 DEF AskRefused
<1>3. CASE TakeLease(u)
  BY <1>3 DEF TakeLease
<1>4. CASE LeaseRefused(u)
  BY <1>4 DEF LeaseRefused
<1>5. CASE Lock(u)
  BY <1>5 DEF Lock
<1>6. CASE LockRefused(u)
  BY <1>6 DEF LockRefused
<1>7. CASE OpenOwn(u)
  BY <1>7 DEF OpenOwn
<1>8. CASE OpenOwnFails(u)
  BY <1>8 DEF OpenOwnFails
<1>9. CASE Begin(u)
  BY <1>9 DEF Begin
<1>10. CASE BeginLeavesOpen(u)
  BY <1>10 DEF BeginLeavesOpen, Retire
<1>11. CASE StartRefused(u)
  BY <1>11 DEF StartRefused
<1>12. CASE Admit(u)
  BY <1>12 DEF Admit
<1>13. CASE CapacityRefuses(u)
  BY <1>13 DEF CapacityRefuses
<1>14. CASE RunTxn(u)
  BY <1>14 DEF RunTxn
<1>15. CASE ScriptEnds(u)
  BY <1>15 DEF ScriptEnds
<1>16. CASE ScriptLeavesOpen(u)
  BY <1>16 DEF ScriptLeavesOpen
<1>17. CASE CommitOk(u)
  BY <1>17 DEF CommitOk
<1>18. CASE CommitLeavesOpen(u)
  BY <1>18 DEF CommitLeavesOpen, Retire
<1>19. CASE CommitFails(u)
  BY <1>19 DEF CommitFails
<1>20. CASE RollbackProved(u)
  BY <1>20 DEF RollbackProved
<1>21. CASE RollbackUnproved(u)
  BY <1>21 DEF RollbackUnproved, Retire
<1>22. CASE DropGuard(u)
  BY <1>22 DEF DropGuard, Retire
<1>23. CASE SwapRetired(u)
  BY <1>23 DEF SwapRetired, CloseRetired
<1>24. CASE DropOwn(u)
  BY <1>24 DEF DropOwn, CloseRetired
<1>25. CASE Unlock(u)
  BY <1>25 DEF Unlock
<1>26. CASE ReleaseLease(u)
  BY <1>26 DEF ReleaseLease
<1>27. CASE GuestLocks(u)
  BY <1>27 DEF GuestLocks
<1>28. CASE GuestRefused(u)
  BY <1>28 DEF GuestRefused
<1>29. CASE GuestRuns(u)
  BY <1>29 DEF GuestRuns
<1>30. CASE GuestDrops(u)
  BY <1>30 DEF GuestDrops
<1> QED
  BY <1>1, <1>2, <1>3, <1>4, <1>5, <1>6, <1>7, <1>8, <1>9, <1>10, <1>11, <1>12,
     <1>13, <1>14, <1>15, <1>16, <1>17, <1>18, <1>19, <1>20, <1>21, <1>22, <1>23,
     <1>24, <1>25, <1>26, <1>27, <1>28, <1>29, <1>30 DEF Write, Work, Guest

LEMMA InitSafety == Init => SafetyInv
<1> SUFFICES ASSUME Init PROVE SafetyInv
  OBVIOUS
<1>1. RouteInv /\ HolderInv /\ WorkInv /\ PoolInv /\ OwnInv /\ LossInv
  BY UnitAssumption
     DEF Init, RouteInv, HolderInv, WorkInv, PoolInv, OwnInv, LossInv, HasLease, HasMutex,
         UnknownIsReported, Kinds, PooledKinds, OwnKinds, Pooled, Working
<1> QED
  BY <1>1, InitType DEF SafetyInv

\* Every step is a unit's, or leaves everything as it is.
LEMMA NextCases ==
    ASSUME [Next]_vars
    PROVE  (\E u \in Unit : Write(u) \/ Guest(u)) \/ UNCHANGED vars
  BY DEF Next, Terminated

LEMMA SafetyPreserved == SafetyInv /\ [Next]_vars => SafetyInv'
<1> SUFFICES ASSUME SafetyInv, [Next]_vars PROVE SafetyInv'
  OBVIOUS
<1>1. CASE UNCHANGED vars
  BY <1>1 DEF SafetyInv, TypeOK, RouteInv, HolderInv, WorkInv, PoolInv, OwnInv, LossInv,
              HasLease, HasMutex, UnknownIsReported, Pooled, Handle, vars, poolVars, history
<1>2. ASSUME NEW u \in Unit, Write(u) \/ Guest(u) PROVE SafetyInv'
  <2>1. TypeOK'
    BY <1>2, UnitType DEF SafetyInv
  <2> QED
    BY <1>2, <2>1, UnitHolder, UnitPool, UnitLoss DEF SafetyInv
<1> QED
  BY <1>1, <1>2, NextCases

\* Type correctness, for every set of units.
THEOREM TypeCorrect == Spec => []TypeOK
<1>1. SafetyInv => TypeOK
  BY DEF SafetyInv
<1> QED
  BY <1>1, InitSafety, SafetyPreserved, PTL DEF Spec

\* The pooled writer is never handed over dirty: whatever callbacks, panics and
\* guests did to it, WriterGuard::drop and ReaderGuard::drop leave it clean or
\* retired before the mutex is free.
THEOREM IdleWriterIsClean == Spec => []IdleWriterClean
<1>1. SafetyInv => IdleWriterClean
  BY DEF SafetyInv, TypeOK, PoolInv, WorkInv, IdleWriterClean, Pooled, PooledKinds, Handle
<1> QED
  BY <1>1, InitSafety, SafetyPreserved, PTL DEF Spec

\* No write is in progress without the volume lease, a connection that cannot
\* be closed poisons the admission, and some caller is told of it
\* (close_retired_connection, mark_settlement_unknown).
THEOREM LossStaysContained == Spec => []LossIsContained
<1>1. ASSUME SafetyInv PROVE LeaseCoversWrites
  <2> USE <1>1, UnitAssumption DEF SafetyInv, TypeOK
  <2>1. ASSUME NEW h \in Unit, conn[h] = "txn" PROVE lease # NoUnit /\ Handle(lease) = h
    BY <2>1 DEF OwnInv, HolderInv, HasLease, Working, Handle, Pooled, OwnKinds, PooledKinds
  <2>2. ASSUME conn[Pool] = "txn" PROVE lease # NoUnit /\ Handle(lease) = Pool
    <3>1. mutex \in Unit /\ HasMutex(mutex)
      BY <2>2 DEF PoolInv, HolderInv
    <3>2. Pooled(mutex) /\ kind[mutex] # "guest"
      BY <2>2, <3>1 DEF PoolInv, HasMutex, Pooled, PooledKinds
    <3>3. lease = mutex
      BY <3>1, <3>2 DEF HolderInv, HasLease, HasMutex, Working
    <3> QED
      BY <3>1, <3>2, <3>3 DEF Handle
  <2> QED
    BY <2>1, <2>2 DEF LossInv, LeaseCoversWrites
<1>2. SafetyInv => LossIsContained
  BY <1>1 DEF SafetyInv, LossInv, LossIsContained
<1> QED
  BY <1>2, InitSafety, SafetyPreserved, PTL DEF Spec

\* A retired writer serves nobody: no callback of a pooled unit is invoked after
\* pooled_writer_retired is set, not even that of a unit that was already
\* waiting for the mutex.
THEOREM RetiredWriterServesNobody == Spec => RetiredServesNobody
<1> DEFINE A == retired => \A u \in ran' \ ran : ~Pooled(u)
<1>1. SafetyInv /\ [Next]_vars => [A]_vars
  <2> SUFFICES ASSUME SafetyInv, Next, retired, NEW v \in ran' \ ran PROVE ~Pooled(v)
    OBVIOUS
  <2>1. ASSUME NEW u \in Unit, RunTxn(u) \/ ScriptEnds(u) \/ ScriptLeavesOpen(u)
        PROVE  ran' = ran \cup {u} /\ ~Pooled(u)
    BY <2>1 DEF RunTxn, ScriptEnds, ScriptLeavesOpen, SafetyInv, PoolInv, Working
  <2>2. ASSUME NEW u \in Unit, Write(u) \/ Guest(u)
        PROVE  RunTxn(u) \/ ScriptEnds(u) \/ ScriptLeavesOpen(u) \/ ran' = ran
    BY <2>2
       DEF Write, Work, Guest, Ask, AskRefused, TakeLease, LeaseRefused, Lock, LockRefused,
           OpenOwn, OpenOwnFails, Begin, BeginLeavesOpen, StartRefused, Admit,
           CapacityRefuses, CommitOk, CommitLeavesOpen, CommitFails, RollbackProved,
           RollbackUnproved, DropGuard, SwapRetired, DropOwn, Unlock, ReleaseLease,
           GuestLocks, GuestRefused, GuestRuns, GuestDrops, history
  <2> QED
    BY <2>1, <2>2 DEF Next, Terminated, vars, history
<1> QED
  BY <1>1, InitSafety, SafetyPreserved, PTL DEF Spec, RetiredServesNobody

-----------------------------------------------------------------------------
(* True results: what the refinement needs besides SafetyInv.              *)

\* ... and what is known of its writes.
LEMMA UnitOutcome ==
    ASSUME ContractInv, NEW u \in Unit, Write(u) \/ Guest(u)
    PROVE  OutcomeInv'
<1> USE UnitAssumption
    DEF ContractInv, OutcomeInv, Says, SafetyInv, TypeOK, RouteInv, HolderInv, HasLease,
        HasMutex,
        WorkInv, Settled, Working, PCs, Kinds, PooledKinds, OwnKinds, TxnKinds, ScriptKinds,
        Pooled, Handle, Goto, Returns, Becomes, poolVars, history
<1>1. CASE Ask(u)
  BY <1>1 DEF Ask
<1>2. CASE AskRefused(u)
  BY <1>2 DEF AskRefused
<1>3. CASE TakeLease(u)
  BY <1>3 DEF TakeLease
<1>4. CASE LeaseRefused(u)
  BY <1>4 DEF LeaseRefused
<1>5. CASE Lock(u)
  BY <1>5 DEF Lock
<1>6. CASE LockRefused(u)
  BY <1>6 DEF LockRefused
<1>7. CASE OpenOwn(u)
  BY <1>7 DEF OpenOwn
<1>8. CASE OpenOwnFails(u)
  BY <1>8 DEF OpenOwnFails
<1>9. CASE Begin(u)
  BY <1>9 DEF Begin
<1>10. CASE BeginLeavesOpen(u)
  BY <1>10 DEF BeginLeavesOpen, Retire
<1>11. CASE StartRefused(u)
  BY <1>11 DEF StartRefused
<1>12. CASE Admit(u)
  BY <1>12 DEF Admit
<1>13. CASE CapacityRefuses(u)
  BY <1>13 DEF CapacityRefuses
<1>14. CASE RunTxn(u)
  BY <1>14 DEF RunTxn
<1>15. CASE ScriptEnds(u)
  BY <1>15 DEF ScriptEnds
<1>16. CASE ScriptLeavesOpen(u)
  BY <1>16 DEF ScriptLeavesOpen
<1>17. CASE CommitOk(u)
  BY <1>17 DEF CommitOk
<1>18. CASE CommitLeavesOpen(u)
  BY <1>18 DEF CommitLeavesOpen, Retire
<1>19. CASE CommitFails(u)
  BY <1>19 DEF CommitFails
<1>20. CASE RollbackProved(u)
  BY <1>20 DEF RollbackProved
<1>21. CASE RollbackUnproved(u)
  BY <1>21 DEF RollbackUnproved, Retire
<1>22. CASE DropGuard(u)
  BY <1>22 DEF DropGuard, Retire
<1>23. CASE SwapRetired(u)
  BY <1>23 DEF SwapRetired, CloseRetired
<1>24. CASE DropOwn(u)
  BY <1>24 DEF DropOwn, CloseRetired
<1>25. CASE Unlock(u)
  BY <1>25 DEF Unlock
<1>26. CASE ReleaseLease(u)
  BY <1>26 DEF ReleaseLease
<1>27. CASE GuestLocks(u)
  BY <1>27 DEF GuestLocks
<1>28. CASE GuestRefused(u)
  BY <1>28 DEF GuestRefused
<1>29. CASE GuestRuns(u)
  BY <1>29 DEF GuestRuns
<1>30. CASE GuestDrops(u)
  BY <1>30 DEF GuestDrops
<1> QED
  BY <1>1, <1>2, <1>3, <1>4, <1>5, <1>6, <1>7, <1>8, <1>9, <1>10, <1>11, <1>12,
     <1>13, <1>14, <1>15, <1>16, <1>17, <1>18, <1>19, <1>20, <1>21, <1>22, <1>23,
     <1>24, <1>25, <1>26, <1>27, <1>28, <1>29, <1>30 DEF Write, Work, Guest

LEMMA InitOutcome == Init => ContractInv
<1> SUFFICES ASSUME Init PROVE OutcomeInv
  BY InitSafety DEF ContractInv
<1> QED
  BY DEF Init, OutcomeInv, Settled

LEMMA OutcomePreserved == ContractInv /\ [Next]_vars => ContractInv'
<1> SUFFICES ASSUME ContractInv, [Next]_vars PROVE ContractInv'
  OBVIOUS
<1>1. SafetyInv'
  BY SafetyPreserved DEF ContractInv
<1>2. ASSUME UNCHANGED vars PROVE OutcomeInv'
  BY <1>2 DEF ContractInv, OutcomeInv, Pooled, Handle, vars, history
<1>3. OutcomeInv'
  BY <1>2, UnitOutcome, NextCases DEF ContractInv
<1> QED
  BY <1>1, <1>3 DEF ContractInv

-----------------------------------------------------------------------------
(* Refinement.  A unit is told its result when its connection is settled,  *)
(* and the lease is given back after that.                                 *)

Told == [u \in Unit |-> IF pc[u] \in Settled THEN result[u] ELSE "none"]

\* A step that does not settle tells nobody anything ...
LEMMA ToldKept ==
    ASSUME TypeOK, NEW u \in Unit, NEW l, pc' = [pc EXCEPT ![u] = l],
           pc[u] \in Settled <=> l \in Settled,
           \A v \in Unit : pc[v] \in Settled => result'[v] = result[v]
    PROVE  Told' = Told
<1>1. \A v \in Unit : Told'[v] = Told[v]
  BY DEF Told, TypeOK
<1> QED
  BY <1>1 DEF Told

\* ... and one that does tells the unit its result.
LEMMA ToldNow ==
    ASSUME TypeOK, NEW u \in Unit, NEW l \in Settled, pc' = [pc EXCEPT ![u] = l],
           pc[u] \notin Settled, \A v \in Unit \ {u} : result'[v] = result[v]
    PROVE  Told[u] = "none" /\ Told' = [Told EXCEPT ![u] = result'[u]]
<1>1. Told[u] = "none"
  BY DEF Told
<1>2. \A v \in Unit : Told'[v] = [Told EXCEPT ![u] = result'[u]][v]
  BY DEF Told, TypeOK
<1> QED
  BY <1>1, <1>2 DEF Told

\* The contract's vocabulary, with Told for its told.
LEMMA ContractSteps ==
    ASSUME NEW u \in Unit
    PROVE  /\ UNCHANGED <<lease, Told, landed>> => UNCHANGED Contract!vars
           /\ lease = NoUnit /\ Told[u] = "none" /\ lease' = u /\ UNCHANGED <<Told, landed>>
                => Contract!Next
           /\ lease = u /\ Told[u] = "none" /\ UNCHANGED <<lease, Told>>
                /\ (\E part \in {"none", "some", "all"} : landed' = [landed EXCEPT ![u] = part])
                => Contract!Next
           /\ lease = u /\ Told[u] # "none" /\ lease' = NoUnit /\ UNCHANGED <<Told, landed>>
                => Contract!Next
           /\ Told[u] = "none" /\ Told' = [Told EXCEPT ![u] = "Refused"] /\ landed[u] = "none"
                /\ UNCHANGED <<lease, landed>>
                => Contract!Next
           /\ \A answer \in Results \ {"none"} :
                lease = u /\ Told[u] = "none" /\ Told' = [Told EXCEPT ![u] = answer]
                  /\ Says(answer, landed[u]) /\ UNCHANGED <<lease, landed>>
                => Contract!Next
<1> USE DEF Told, Settled, Contract!Next
<1>1. UNCHANGED <<lease, Told, landed>> => UNCHANGED Contract!vars
  BY DEF Contract!vars
<1>2. lease = NoUnit /\ Told[u] = "none" /\ lease' = u /\ UNCHANGED <<Told, landed>>
        => Contract!Next
  BY DEF Contract!Serve
<1>3. lease = u /\ Told[u] = "none" /\ UNCHANGED <<lease, Told>>
        /\ (\E part \in {"none", "some", "all"} : landed' = [landed EXCEPT ![u] = part])
        => Contract!Next
  BY DEF Contract!Write
<1>4. lease = u /\ Told[u] # "none" /\ lease' = NoUnit /\ UNCHANGED <<Told, landed>>
        => Contract!Next
  BY DEF Contract!Finish
<1>5. Told[u] = "none" /\ Told' = [Told EXCEPT ![u] = "Refused"] /\ landed[u] = "none"
        /\ UNCHANGED <<lease, landed>>
        => Contract!Next
  BY DEF Contract!Refuse
<1>6. ASSUME NEW answer \in Results \ {"none"}, lease = u, Told[u] = "none",
             Told' = [Told EXCEPT ![u] = answer], Says(answer, landed[u]),
             UNCHANGED <<lease, landed>>
      PROVE  Contract!Next
  <2>1. CASE answer \in {"Refused", "RolledBack"}
    BY <1>6, <2>1 DEF Contract!Refuse, Says
  <2>2. CASE answer = "Ok"
    BY <1>6, <2>2 DEF Contract!Confirm, Says
  <2>3. CASE answer \in {"OpError", "Unknown", "Panicked"}
    BY <1>6, <2>3 DEF Contract!Shrug
  <2> QED
    BY <2>1, <2>2, <2>3 DEF Results
<1> QED
  BY <1>1, <1>2, <1>3, <1>4, <1>5, <1>6

\* Every action of a unit is a step of the contract, or none.
LEMMA UnitContract ==
    ASSUME ContractInv, NEW u \in Unit, Write(u) \/ Guest(u)
    PROVE  [Contract!Next]_Contract!vars
<1> USE DEF ContractInv, SafetyInv, Goto, Returns, poolVars, history
<1>t. TypeOK /\ pc \in [Unit -> PCs] /\ result \in [Unit -> Results]
  BY DEF TypeOK
<1>1. CASE AskRefused(u) \/ LeaseRefused(u) \/ LockRefused(u) \/ OpenOwnFails(u)
  <2>1. /\ pc[u] \notin Settled /\ landed[u] = "none" /\ result'[u] = "Refused"
        /\ \A v \in Unit \ {u} : result'[v] = result[v]
        /\ \E l \in Settled : pc' = [pc EXCEPT ![u] = l]
        /\ UNCHANGED <<lease, landed>>
    BY <1>1, <1>t DEF AskRefused, LeaseRefused, LockRefused, OpenOwnFails, OutcomeInv, Settled
  <2>2. Told[u] = "none" /\ Told' = [Told EXCEPT ![u] = "Refused"]
    BY <1>t, <2>1, ToldNow
  <2> QED
    BY <2>1, <2>2, ContractSteps
<1>2. CASE SwapRetired(u) \/ DropOwn(u)
  <2>1. /\ pc[u] \notin Settled /\ result' = result
        /\ \E l \in Settled : pc' = [pc EXCEPT ![u] = l]
        /\ UNCHANGED <<lease, landed>>
    BY <1>2, <1>t DEF SwapRetired, DropOwn, Settled
  <2>2. lease = u /\ result[u] \in Results \ {"none"} /\ Says(result[u], landed[u])
    BY <1>2, <1>t DEF SwapRetired, DropOwn, RouteInv, HolderInv, HasLease, OutcomeInv,
                      OwnKinds, Settled
  <2>3. Told[u] = "none" /\ Told' = [Told EXCEPT ![u] = result[u]]
    BY <1>t, <2>1, ToldNow
  <2> QED
    BY <2>1, <2>2, <2>3, ContractSteps
<1>3. CASE TakeLease(u)
  <2>1. Told' = Told /\ Told[u] = "none"
    BY <1>3, <1>t, ToldKept DEF TakeLease, Settled, Told
  <2> QED
    BY <1>3, <2>1, ContractSteps DEF TakeLease
<1>4. CASE RunTxn(u) \/ ScriptEnds(u) \/ ScriptLeavesOpen(u) \/ CommitOk(u) \/ CommitFails(u)
  <2>1. /\ pc[u] \in {"body", "commit"} /\ kind[u] # "guest" /\ lease' = lease
        /\ \E l \in {"commit", "rollback", "drop"} : pc' = [pc EXCEPT ![u] = l]
        /\ \A v \in Unit \ {u} : result'[v] = result[v]
    BY <1>4, <1>t DEF RunTxn, ScriptEnds, ScriptLeavesOpen, CommitOk, CommitFails, RouteInv,
                      TxnKinds, ScriptKinds
  <2>2. Told' = Told /\ Told[u] = "none"
    BY <1>t, <2>1, ToldKept DEF Settled, Told
  <2>3. lease = u
    BY <2>1 DEF HolderInv, HasLease
  <2>4. \/ landed' = landed
        \/ \E part \in {"none", "some", "all"} : landed' = [landed EXCEPT ![u] = part]
    BY <1>4 DEF RunTxn, ScriptEnds, ScriptLeavesOpen, CommitOk, CommitFails
  <2> QED
    BY <2>1, <2>2, <2>3, <2>4, ContractSteps
<1>5. CASE ReleaseLease(u)
  <2>1. Told' = Told
    BY <1>5, <1>t, ToldKept DEF ReleaseLease, Settled
  <2>2. lease = u /\ Told[u] # "none"
    BY <1>5 DEF ReleaseLease, RouteInv, HolderInv, HasLease, OutcomeInv, Settled, Told
  <2> QED
    BY <1>5, <2>1, <2>2, ContractSteps DEF ReleaseLease
<1>6. CASE GuestRefused(u) \/ GuestDrops(u)
  <2>1. /\ result[u] = "none" /\ pc' = [pc EXCEPT ![u] = "done"]
        /\ UNCHANGED <<result, lease, landed>>
    BY <1>6 DEF GuestRefused, GuestDrops, OutcomeInv
  <2>2. \A v \in Unit : Told'[v] = Told[v]
    BY <1>t, <2>1 DEF Told, Settled
  <2>3. Told' = Told
    BY <2>2 DEF Told
  <2> QED
    BY <2>1, <2>3, ContractSteps
<1>7. CASE Unlock(u)
  <2>1. Told' = Told
    BY <1>7, <1>t, ToldKept DEF Unlock, Settled
  <2> QED
    BY <1>7, <2>1, ContractSteps DEF Unlock
<1>8. CASE \/ Ask(u) \/ Lock(u) \/ OpenOwn(u) \/ Begin(u) \/ BeginLeavesOpen(u)
           \/ StartRefused(u) \/ Admit(u) \/ CapacityRefuses(u) \/ CommitLeavesOpen(u) \/ RollbackProved(u)
           \/ RollbackUnproved(u) \/ DropGuard(u) \/ GuestLocks(u) \/ GuestRuns(u)
  <2>1. /\ pc[u] \notin Settled /\ \A v \in Unit \ {u} : result'[v] = result[v]
        /\ \E l \in PCs \ Settled : pc' = [pc EXCEPT ![u] = l]
        /\ UNCHANGED <<lease, landed>>
    BY <1>8, <1>t DEF Ask, Lock, OpenOwn, Begin, BeginLeavesOpen, StartRefused, Admit,
                      CapacityRefuses, CommitLeavesOpen, RollbackProved,
                      RollbackUnproved, DropGuard, GuestLocks, GuestRuns, Settled, PCs
  <2>2. Told' = Told
    BY <1>t, <2>1, ToldKept
  <2> QED
    BY <2>1, <2>2, ContractSteps
<1> QED
  BY <1>1, <1>2, <1>3, <1>4, <1>5, <1>6, <1>7, <1>8 DEF Write, Work, Guest

LEMMA InitContract == Init => Contract!Init
  BY DEF Init, Contract!Init

LEMMA StepContract == ContractInv /\ [Next]_vars => [Contract!Next]_Contract!vars
<1> SUFFICES ASSUME ContractInv, [Next]_vars PROVE [Contract!Next]_Contract!vars
  OBVIOUS
<1>1. CASE UNCHANGED vars
  BY <1>1 DEF Contract!vars, vars, poolVars, history
<1> QED
  BY <1>1, NextCases, UnitContract

\* Direct writes implement the writer task's contract: one at a time under the
\* volume lease, effects only before the outcome is settled, every result true.
THEOREM ContractImplemented == Spec => ImplementsContract
  BY InitOutcome, OutcomePreserved, InitContract, StepContract, PTL
     DEF Spec, ImplementsContract, Contract!Spec

-----------------------------------------------------------------------------
(* VolumeLease.                                                            *)

\* Removing one place from a queue leaves a queue of the same threads.
LEMMA RemoveAtType ==
    ASSUME NEW S, NEW q \in Seq(S), NEW i \in 1 .. Len(q)
    PROVE  RemoveAt(q, i) \in Seq(S)
<1>1. SubSeq(q, 1, i - 1) \in Seq(S)
  BY SubSeqProperties
<1>2. SubSeq(q, i + 1, Len(q)) \in Seq(S)
  BY SubSeqProperties
<1> QED
  BY <1>1, <1>2, ConcatProperties DEF RemoveAt

\* The inductive strengthening of VolumeExclusive: the fast path of
\* acquire_process_slot needs that a held or awaited slot has an entry.
LeaseInv == LeaseTypeOK /\ SlotMatchesHolder /\ VolumeExclusive /\ EntryReclaimed

LEMMA InitLeaseInv == LeaseInit => LeaseInv
  BY ProcOfAssumption, NoThreadAssumption
     DEF LeaseInit, LeaseInv, LeaseTypeOK, SlotMatchesHolder, VolumeExclusive, EntryReclaimed,
         States, InSlot

\* Type correctness is preserved by every step of a thread and by a crash.
LEMMA TypePreserved == LeaseTypeOK /\ [LeaseNext]_leaseVars => LeaseTypeOK'
<1> SUFFICES ASSUME LeaseTypeOK, [LeaseNext]_leaseVars PROVE LeaseTypeOK'
  OBVIOUS
<1> USE ProcOfAssumption, NoThreadAssumption DEF LeaseTypeOK, States
<1>1. CASE UNCHANGED leaseVars
  BY <1>1 DEF leaseVars
<1>2. ASSUME NEW t \in Thread, ThreadStep(t) PROVE LeaseTypeOK'
  <2> ProcOf[t] \in Proc
    OBVIOUS
  <2>1. CASE AcquireFailsEarly(t)
    BY <2>1 DEF AcquireFailsEarly, Return
  <2>2. CASE Reentry(t)
    BY <2>2 DEF Reentry, Return
  <2>3. CASE TakeVacantSlot(t)
    BY <2>3 DEF TakeVacantSlot, Become
  <2>4. CASE Enqueue(t)
    BY <2>4, AppendProperties DEF Enqueue, Become
  <2>5. CASE OtherVolumeNotifies(t)
    BY <2>5 DEF OtherVolumeNotifies, Become
  <2>6. CASE TakeSlot(t)
    BY <2>6, HeadTailProperties DEF TakeSlot, Become
  <2>7. CASE SleepAgain(t)
    BY <2>7 DEF SleepAgain, Become
  <2>8. CASE LeaveQueue(t)
    BY <2>8, RemoveAtType DEF LeaveQueue, Become, Return
  <2>9. CASE LockFile(t)
    BY <2>9 DEF LockFile, Become, Return
  <2>10. CASE FileLockFails(t)
    BY <2>10 DEF FileLockFails, VacateSlot, Become, Return
  <2>11. CASE UnlockFile(t)
    BY <2>11 DEF UnlockFile, Become
  <2>12. CASE DropSlot(t)
    BY <2>12 DEF DropSlot, VacateSlot, Become
  <2>13. CASE NotifyAll(t)
    BY <2>13 DEF NotifyAll
  <2> QED
    BY <1>2, <2>1, <2>2, <2>3, <2>4, <2>5, <2>6, <2>7, <2>8, <2>9, <2>10, <2>11,
       <2>12, <2>13 DEF ThreadStep
<1>3. ASSUME NEW p \in Proc, Crash(p) PROVE LeaseTypeOK'
  BY <1>3, EmptySeq DEF Crash
<1> QED
  BY <1>1, <1>2, <1>3 DEF LeaseNext

\* Entries come and go with the holder and the waiters.
LEMMA EntryPreserved == LeaseInv /\ [LeaseNext]_leaseVars => EntryReclaimed'
<1> SUFFICES ASSUME LeaseInv, [LeaseNext]_leaseVars, NEW p \in Proc
             PROVE  (present[p] <=> holder[p] # NoThread \/ waiters[p] # <<>>)'
  BY DEF EntryReclaimed
<1> USE ProcOfAssumption, NoThreadAssumption DEF LeaseInv, LeaseTypeOK, EntryReclaimed
<1>1. CASE UNCHANGED leaseVars
  BY <1>1 DEF leaseVars
<1>2. ASSUME NEW t \in Thread, ThreadStep(t)
      PROVE  (present[p] <=> holder[p] # NoThread \/ waiters[p] # <<>>)'
  <2> ProcOf[t] \in Proc
    OBVIOUS
  <2>1. CASE AcquireFailsEarly(t) \/ Reentry(t)
    BY <2>1 DEF AcquireFailsEarly, Reentry
  <2>2. CASE TakeVacantSlot(t)
    BY <2>2 DEF TakeVacantSlot
  <2>3. CASE Enqueue(t)
    <3>0. waiters[ProcOf[t]] \in Seq(Thread)
      OBVIOUS
    <3>1. Append(waiters[ProcOf[t]], t) # <<>>
      BY ONLY <3>0, t \in Thread, AppendProperties
    <3> QED
      BY <2>3, <3>1 DEF Enqueue
  <2>4. CASE OtherVolumeNotifies(t) \/ SleepAgain(t) \/ LockFile(t) \/ UnlockFile(t)
    BY <2>4 DEF OtherVolumeNotifies, SleepAgain, LockFile, UnlockFile
  <2>5. CASE TakeSlot(t)
    BY <2>5 DEF TakeSlot
  <2>6. CASE LeaveQueue(t)
    <3>1. PICK i \in 1 .. Len(waiters[ProcOf[t]]) :
            /\ waiters' = [waiters EXCEPT ![ProcOf[t]] = RemoveAt(waiters[ProcOf[t]], i)]
            /\ present' = [present EXCEPT ![ProcOf[t]] =
                            ~(holder[ProcOf[t]] = NoThread
                                /\ RemoveAt(waiters[ProcOf[t]], i) = <<>>)]
      BY <2>6 DEF LeaveQueue
    <3>2. holder' = holder
      BY <2>6 DEF LeaveQueue
    <3>3. CASE p = ProcOf[t]
      BY <3>1, <3>2, <3>3
    <3>4. CASE p # ProcOf[t]
      BY <3>1, <3>2, <3>4
    <3> QED
      BY <3>3, <3>4
  <2>7. CASE FileLockFails(t) \/ DropSlot(t)
    BY <2>7 DEF FileLockFails, DropSlot, VacateSlot
  <2>8. CASE NotifyAll(t)
    BY <2>8 DEF NotifyAll
  <2> QED
    BY <1>2, <2>1, <2>2, <2>3, <2>4, <2>5, <2>6, <2>7, <2>8 DEF ThreadStep
<1>3. ASSUME NEW q \in Proc, Crash(q)
      PROVE  (present[p] <=> holder[p] # NoThread \/ waiters[p] # <<>>)'
  BY <1>3 DEF Crash
<1> QED
  BY <1>1, <1>2, <1>3 DEF LeaseNext

\* Each step keeps the slot, the file lock and the threads' beliefs in accord.
LEMMA LeaseInvPreserved == LeaseInv /\ [LeaseNext]_leaseVars => LeaseInv'
<1> SUFFICES ASSUME LeaseInv, [LeaseNext]_leaseVars PROVE LeaseInv'
  OBVIOUS
<1>0. LeaseTypeOK' /\ EntryReclaimed'
  BY TypePreserved, EntryPreserved DEF LeaseInv
<1> DEFINE Inv == SlotMatchesHolder /\ VolumeExclusive
<1> SUFFICES Inv'
  BY <1>0 DEF LeaseInv
<1> USE ProcOfAssumption, NoThreadAssumption
    DEF LeaseInv, LeaseTypeOK, States, SlotMatchesHolder, VolumeExclusive, InSlot
<1>1. CASE UNCHANGED leaseVars
  BY <1>1 DEF leaseVars
<1>2. ASSUME NEW t \in Thread, ThreadStep(t) PROVE Inv'
  <2> ProcOf[t] \in Proc
    OBVIOUS
  <2>1. CASE AcquireFailsEarly(t) \/ Reentry(t)
    BY <2>1 DEF AcquireFailsEarly, Reentry
  <2>2. CASE TakeVacantSlot(t)
    BY <2>2 DEF TakeVacantSlot, Become, EntryReclaimed
  <2>3. CASE Enqueue(t) \/ OtherVolumeNotifies(t) \/ SleepAgain(t)
    <3>1. PICK s \in {"asleep", "awake"} : st' = [st EXCEPT ![t] = s]
      BY <2>3 DEF Enqueue, OtherVolumeNotifies, SleepAgain, Become
    <3>2. st[t] \in {"idle", "asleep", "awake"} /\ UNCHANGED <<holder, file>>
      BY <2>3 DEF Enqueue, OtherVolumeNotifies, SleepAgain
    <3> QED
      BY <3>1, <3>2
  <2>4. CASE TakeSlot(t)
    BY <2>4 DEF TakeSlot, Become
  <2>5. CASE LeaveQueue(t)
    <3>1. /\ st[t] \in {"asleep", "awake"}
          /\ st' = [st EXCEPT ![t] = "notifying"]
          /\ UNCHANGED <<holder, file>>
      BY <2>5 DEF LeaveQueue, Become
    <3> QED
      BY <3>1
  <2>6. CASE LockFile(t)
    BY <2>6 DEF LockFile, Become
  <2>7. CASE FileLockFails(t)
    BY <2>7 DEF FileLockFails, VacateSlot, Become
  <2>8. CASE UnlockFile(t)
    BY <2>8 DEF UnlockFile, Become
  <2>9. CASE DropSlot(t)
    BY <2>9 DEF DropSlot, VacateSlot, Become
  <2>10. CASE NotifyAll(t)
    BY <2>10 DEF NotifyAll
  <2> QED
    BY <1>2, <2>1, <2>2, <2>3, <2>4, <2>5, <2>6, <2>7, <2>8, <2>9, <2>10
       DEF ThreadStep
<1>3. ASSUME NEW p \in Proc, Crash(p) PROVE Inv'
  BY <1>3 DEF Crash
<1> QED
  BY <1>1, <1>2, <1>3 DEF LeaseNext

\* A waiter woken by the slot finds the file lock already free (HeldLease::
\* drop's order): a free slot's process never holds the file lock.
FreeSlotFreesFile ==
    \A p \in Proc : holder[p] = NoThread => file = NoThread \/ ProcOf[file] # p

\* That follows from who holds the slot and who holds the file.
LEMMA FreeSlotFollows == LeaseInv => FreeSlotFreesFile
  BY ProcOfAssumption, NoThreadAssumption
     DEF LeaseInv, LeaseTypeOK, SlotMatchesHolder, VolumeExclusive, FreeSlotFreesFile, InSlot

\* The lease excludes: for every set of threads and processes, a thread is in
\* the holding state exactly while it owns the advisory file lock, so no two
\* threads of any two processes hold the volume (disk_guard.rs, VolumeLease).
THEOREM LeaseExcludes == LeaseSpec => []VolumeExclusive
<1>1. LeaseInv => VolumeExclusive
  BY DEF LeaseInv
<1> QED
  BY <1>1, InitLeaseInv, LeaseInvPreserved, PTL DEF LeaseSpec

\* The in-process slot always names the one thread between its grant and its
\* drop (Drop for ProcessSlot, and every error return that drops the slot).
THEOREM SlotIsExact == LeaseSpec => []SlotMatchesHolder
<1>1. LeaseInv => SlotMatchesHolder
  BY DEF LeaseInv
<1> QED
  BY <1>1, InitLeaseInv, LeaseInvPreserved, PTL DEF LeaseSpec

\* A registry entry exists exactly while somebody holds or awaits the slot, so
\* the vacant fast path of acquire_process_slot can never pass a waiter and no
\* entry outlives its last user.
THEOREM EntriesReclaimed == LeaseSpec => []EntryReclaimed
<1>1. LeaseInv => EntryReclaimed
  BY DEF LeaseInv
<1> QED
  BY <1>1, InitLeaseInv, LeaseInvPreserved, PTL DEF LeaseSpec

\* HeldLease::drop gives the file lock back before the slot: whoever is woken
\* by a free slot finds no file lock of its own process in the way.
THEOREM FileFreedBeforeSlot == LeaseSpec => []FreeSlotFreesFile
  BY InitLeaseInv, LeaseInvPreserved, FreeSlotFollows, PTL DEF LeaseSpec

-----------------------------------------------------------------------------
(* The queue: order of grants and wakeups.                                 *)

\* What is left of a queue when one place is removed.
LEMMA RemoveAtPlaces ==
    ASSUME NEW S, NEW q \in Seq(S), NEW i \in 1 .. Len(q)
    PROVE  /\ Len(RemoveAt(q, i)) = Len(q) - 1
           /\ \A j \in 1 .. Len(q) - 1 :
                RemoveAt(q, i)[j] = IF j < i THEN q[j] ELSE q[j + 1]
<1>0. Len(q) \in Nat
  BY LenProperties
<1> DEFINE a == SubSeq(q, 1, i - 1)
           b == SubSeq(q, i + 1, Len(q))
<1>1. /\ a \in Seq(S) /\ Len(a) = i - 1
      /\ \A j \in 1 .. i - 1 : a[j] = q[j]
  BY <1>0, SubSeqProperties
<1>2. /\ b \in Seq(S) /\ Len(b) = Len(q) - i
      /\ \A j \in 1 .. Len(q) - i : b[j] = q[i + j]
  BY <1>0, SubSeqProperties
<1>3. RemoveAt(q, i) = a \o b
  BY DEF RemoveAt
<1> HIDE DEF a, b
<1>4. /\ Len(a \o b) = Len(a) + Len(b)
      /\ \A j \in 1 .. Len(a) + Len(b) :
           (a \o b)[j] = IF j <= Len(a) THEN a[j] ELSE b[j - Len(a)]
  BY <1>1, <1>2, ConcatProperties
<1>5. Len(a) + Len(b) = Len(q) - 1 /\ i \in Nat
  BY <1>0, <1>1, <1>2
<1>6. ASSUME NEW j \in 1 .. Len(q) - 1
      PROVE  (a \o b)[j] = IF j < i THEN q[j] ELSE q[j + 1]
  <2>1. CASE j < i
    BY <1>0, <1>1, <1>4, <1>5, <2>1
  <2>2. CASE ~(j < i)
    <3>1. /\ j - Len(a) \in 1 .. Len(q) - i /\ i + (j - Len(a)) = j + 1
          /\ ~(j <= Len(a))
      BY <1>0, <1>1, <1>5, <2>2
    <3>2. (a \o b)[j] = b[j - Len(a)]
      BY <1>4, <1>5, <3>1
    <3>3. b[j - Len(a)] = q[i + (j - Len(a))]
      BY <1>2, <3>1
    <3> QED
      BY <2>2, <3>1, <3>2, <3>3
  <2> QED
    BY <2>1, <2>2
<1> QED
  BY <1>3, <1>4, <1>5, <1>6

\* The waiters of a process are threads of it, suspended or woken, once each.
QueueInv ==
    \A p \in Proc :
      /\ \A i \in 1 .. Len(waiters[p]) :
           ProcOf[waiters[p][i]] = p /\ st[waiters[p][i]] \in {"asleep", "awake"}
      /\ \A i, j \in 1 .. Len(waiters[p]) : waiters[p][i] = waiters[p][j] => i = j

LEMMA QueuePreserved == LeaseTypeOK /\ QueueInv /\ [LeaseNext]_leaseVars => QueueInv'
<1> SUFFICES ASSUME LeaseTypeOK, QueueInv, [LeaseNext]_leaseVars, NEW p \in Proc
             PROVE  /\ \A i \in 1 .. Len(waiters'[p]) :
                         /\ ProcOf[waiters'[p][i]] = p
                         /\ st'[waiters'[p][i]] \in {"asleep", "awake"}
                    /\ \A i, j \in 1 .. Len(waiters'[p]) :
                         waiters'[p][i] = waiters'[p][j] => i = j
  BY DEF QueueInv
<1> DEFINE w == waiters[p]
           Goal == /\ \A i \in 1 .. Len(waiters'[p]) :
                        /\ ProcOf[waiters'[p][i]] = p
                        /\ st'[waiters'[p][i]] \in {"asleep", "awake"}
                   /\ \A i, j \in 1 .. Len(waiters'[p]) :
                        waiters'[p][i] = waiters'[p][j] => i = j
<1>t. /\ w \in Seq(Thread) /\ Len(w) \in Nat
      /\ \A i \in 1 .. Len(w) : w[i] \in Thread
      /\ st \in [Thread -> States]
  BY LenProperties DEF LeaseTypeOK
<1>q. /\ \A i \in 1 .. Len(w) : ProcOf[w[i]] = p /\ st[w[i]] \in {"asleep", "awake"}
      /\ \A i, j \in 1 .. Len(w) : w[i] = w[j] => i = j
  BY DEF QueueInv
\* A step that keeps this queue and its threads waiting.
<1>0. ASSUME waiters'[p] = w,
             \A i \in 1 .. Len(w) : st'[w[i]] \in {"asleep", "awake"}
      PROVE  Goal
  BY <1>0, <1>q
\* A step that takes one thread out of this queue.
<1>r. ASSUME NEW k \in 1 .. Len(w), Len(waiters'[p]) = Len(w) - 1,
             \A j \in 1 .. Len(w) - 1 :
               waiters'[p][j] = IF j < k THEN w[j] ELSE w[j + 1],
             \A u \in Thread \ {w[k]} : st'[u] = st[u]
      PROVE  Goal
  <2> DEFINE m(j) == IF j < k THEN j ELSE j + 1
  <2>1. ASSUME NEW j \in 1 .. Len(waiters'[p])
        PROVE  m(j) \in 1 .. Len(w) /\ m(j) # k /\ waiters'[p][j] = w[m(j)]
    BY <1>r, <1>t, <2>1
  <2>2. \A i, j \in 1 .. Len(waiters'[p]) : m(i) = m(j) => i = j
    BY <1>r, <1>t
  <2> HIDE DEF m
  <2>3. ASSUME NEW j \in 1 .. Len(waiters'[p])
        PROVE  w[m(j)] \in Thread \ {w[k]}
    BY <1>t, <1>q, <2>1
  <2>4. ASSUME NEW j \in 1 .. Len(waiters'[p])
        PROVE  ProcOf[waiters'[p][j]] = p /\ st'[waiters'[p][j]] \in {"asleep", "awake"}
    <3>1. m(j) \in 1 .. Len(w) /\ waiters'[p][j] = w[m(j)]
      BY <2>1
    <3>2. ProcOf[w[m(j)]] = p /\ st[w[m(j)]] \in {"asleep", "awake"}
      BY <1>q, <3>1
    <3>3. st'[w[m(j)]] = st[w[m(j)]]
      BY <1>r, <2>3
    <3> QED
      BY <3>1, <3>2, <3>3
  <2>5. ASSUME NEW i \in 1 .. Len(waiters'[p]), NEW j \in 1 .. Len(waiters'[p]),
               waiters'[p][i] = waiters'[p][j]
        PROVE  i = j
    <3>1. m(i) = m(j)
      BY <1>q, <2>1, <2>5
    <3> QED
      BY <2>2, <3>1
  <2> QED
    BY <2>4, <2>5
<1>1. CASE UNCHANGED leaseVars
  BY <1>0, <1>1, <1>q DEF leaseVars
<1>2. ASSUME NEW t \in Thread, ThreadStep(t) PROVE Goal
  <2>1. CASE AcquireFailsEarly(t) \/ Reentry(t)
    BY <1>0, <1>q, <2>1 DEF AcquireFailsEarly, Reentry
  <2>2. CASE TakeVacantSlot(t) \/ LockFile(t) \/ FileLockFails(t) \/ UnlockFile(t) \/ DropSlot(t)
    <3>1. /\ st[t] \notin {"asleep", "awake"} /\ waiters' = waiters
          /\ \A u \in Thread \ {t} : st'[u] = st[u]
      BY <1>t, <2>2 DEF TakeVacantSlot, LockFile, FileLockFails, UnlockFile, DropSlot, Become
    <3> QED
      BY <1>0, <1>t, <1>q, <3>1
  <2>3. CASE OtherVolumeNotifies(t) \/ SleepAgain(t)
    <3>1. /\ waiters' = waiters /\ st'[t] \in {"asleep", "awake"}
          /\ \A u \in Thread \ {t} : st'[u] = st[u]
      BY <1>t, <2>3 DEF OtherVolumeNotifies, SleepAgain, Become
    <3> QED
      BY <1>0, <1>t, <1>q, <3>1
  <2>4. CASE Enqueue(t)
    <3>1. /\ st[t] = "idle" /\ st'[t] = "awake"
          /\ \A u \in Thread \ {t} : st'[u] = st[u]
          /\ waiters'[p] = IF p = ProcOf[t] THEN Append(w, t) ELSE w
      BY <1>t, <2>4 DEF Enqueue, Become, LeaseTypeOK
    <3>2. CASE p = ProcOf[t]
      <4>1. /\ Len(waiters'[p]) = Len(w) + 1 /\ waiters'[p][Len(w) + 1] = t
            /\ \A i \in 1 .. Len(w) : waiters'[p][i] = w[i]
        BY <1>t, <3>1, <3>2, AppendProperties
      <4>2. \A i \in 1 .. Len(w) : w[i] # t
        BY <1>q, <3>1
      <4> QED
        BY ONLY <1>t, <1>q, <3>1, <3>2, <4>1, <4>2, t \in Thread
    <3>3. CASE p # ProcOf[t]
      BY <1>0, <1>t, <1>q, <3>1, <3>3
    <3> QED
      BY <3>2, <3>3
  <2>5. CASE TakeSlot(t)
    <3>1. /\ \A u \in Thread \ {t} : st'[u] = st[u]
          /\ waiters[ProcOf[t]] # <<>> /\ Head(waiters[ProcOf[t]]) = t
          /\ waiters'[p] = IF p = ProcOf[t] THEN Tail(w) ELSE w
      BY <1>t, <2>5 DEF TakeSlot, Become, LeaseTypeOK
    <3>2. CASE p = ProcOf[t]
      <4>1. /\ w # <<>> /\ w[1] = t /\ waiters'[p] = Tail(w)
        BY <1>t, <3>1, <3>2, HeadTailProperties
      <4>2. /\ 1 \in 1 .. Len(w) /\ Len(Tail(w)) = Len(w) - 1
            /\ \A j \in 1 .. Len(w) - 1 : Tail(w)[j] = w[j + 1]
        BY <1>t, <4>1, HeadTailProperties
      <4>3. \A j \in 1 .. Len(w) - 1 :
              waiters'[p][j] = IF j < 1 THEN w[j] ELSE w[j + 1]
        BY <1>t, <4>1, <4>2
      <4> QED
        BY <1>r, <3>1, <4>1, <4>2, <4>3
    <3>3. CASE p # ProcOf[t]
      BY <1>0, <1>t, <1>q, <3>1, <3>3
    <3> QED
      BY <3>2, <3>3
  <2>6. CASE LeaveQueue(t)
    <3>1. PICK k \in 1 .. Len(waiters[ProcOf[t]]) :
            /\ waiters[ProcOf[t]][k] = t
            /\ waiters' = [waiters EXCEPT ![ProcOf[t]] = RemoveAt(waiters[ProcOf[t]], k)]
      BY <2>6 DEF LeaveQueue
    <3>2. /\ \A u \in Thread \ {t} : st'[u] = st[u]
          /\ waiters'[p] = IF p = ProcOf[t] THEN RemoveAt(w, k) ELSE w
      BY <1>t, <2>6, <3>1 DEF LeaveQueue, Become, LeaseTypeOK
    <3>3. CASE p = ProcOf[t]
      <4>1. k \in 1 .. Len(w) /\ w[k] = t /\ waiters'[p] = RemoveAt(w, k)
        BY <3>1, <3>2, <3>3
      <4>2. /\ Len(waiters'[p]) = Len(w) - 1
            /\ \A j \in 1 .. Len(w) - 1 :
                 waiters'[p][j] = IF j < k THEN w[j] ELSE w[j + 1]
        BY <1>t, <4>1, RemoveAtPlaces
      <4> QED
        BY <1>r, <3>2, <4>1, <4>2
    <3>4. CASE p # ProcOf[t]
      BY <1>0, <1>t, <1>q, <3>2, <3>4
    <3> QED
      BY <3>3, <3>4
  <2>7. CASE NotifyAll(t)
    <3>1. /\ waiters' = waiters
          /\ \A u \in Thread : st[u] \in {"asleep", "awake"} => st'[u] \in {"asleep", "awake"}
      BY <1>t, <2>7 DEF NotifyAll
    <3> QED
      BY <1>0, <1>t, <1>q, <3>1
  <2> QED
    BY <1>2, <2>1, <2>2, <2>3, <2>4, <2>5, <2>6, <2>7 DEF ThreadStep
<1>3. ASSUME NEW c \in Proc, Crash(c) PROVE Goal
  <2>1. CASE p = c
    <3>1. waiters'[p] = <<>> /\ Len(<<>>) = 0
      BY <1>3, <2>1, EmptySeq DEF Crash, LeaseTypeOK
    <3> QED
      BY <3>1
  <2>2. CASE p # c
    BY <1>0, <1>3, <1>t, <1>q, <2>2 DEF Crash, LeaseTypeOK
  <2> QED
    BY <2>1, <2>2
<1> QED
  BY <1>1, <1>2, <1>3 DEF LeaseNext

WakeInv == LeaseInv /\ QueueInv /\ NoLostWakeup

\* The front waiter, as the other facts see it.
LEMMA FrontWaiter ==
    ASSUME LeaseTypeOK, QueueInv, NEW p \in Proc, waiters[p] # <<>>
    PROVE  /\ Head(waiters[p]) \in Thread
           /\ ProcOf[Head(waiters[p])] = p
           /\ st[Head(waiters[p])] \in {"asleep", "awake"}
<1>1. waiters[p] \in Seq(Thread) /\ Len(waiters[p]) \in Nat \ {0}
  BY HeadTailProperties, LenProperties, EmptySeq DEF LeaseTypeOK
<1>2. Head(waiters[p]) = waiters[p][1] /\ Head(waiters[p]) \in Thread
  BY <1>1, HeadTailProperties
<1> QED
  BY <1>1, <1>2 DEF QueueInv

LEMMA WakePreserved == WakeInv /\ [LeaseNext]_leaseVars => NoLostWakeup'
<1> SUFFICES ASSUME WakeInv, [LeaseNext]_leaseVars, NEW p \in Proc,
                    holder'[p] = NoThread, waiters'[p] # <<>>
             PROVE  \/ st'[Head(waiters'[p])] = "awake"
                    \/ \E t \in Thread : ProcOf[t] = p /\ st'[t] = "notifying"
  BY DEF NoLostWakeup
<1> DEFINE Goal == \/ st'[Head(waiters'[p])] = "awake"
                   \/ \E t \in Thread : ProcOf[t] = p /\ st'[t] = "notifying"
<1>t. /\ LeaseTypeOK /\ QueueInv /\ NoLostWakeup /\ LeaseInv
      /\ st \in [Thread -> States]
      /\ ProcOf \in [Thread -> Proc]
  BY ProcOfAssumption DEF WakeInv, LeaseInv, LeaseTypeOK
\* Nothing that matters to this queue changed.
<1>0. ASSUME holder[p] = NoThread, waiters'[p] = waiters[p],
             \A u \in Thread : ProcOf[u] = p /\ st[u] \in {"awake", "notifying"} =>
                                 st'[u] = st[u]
      PROVE  Goal
  <2>1. Head(waiters[p]) \in Thread /\ ProcOf[Head(waiters[p])] = p
    BY <1>0, <1>t, FrontWaiter
  <2> QED
    BY <1>0, <1>t, <2>1 DEF NoLostWakeup
<1>1. CASE UNCHANGED leaseVars
  BY <1>0, <1>1 DEF leaseVars
<1>2. ASSUME NEW t \in Thread, ThreadStep(t) PROVE Goal
  <2>1. CASE AcquireFailsEarly(t) \/ Reentry(t)
    BY <1>0, <2>1 DEF AcquireFailsEarly, Reentry
  <2>2. CASE TakeVacantSlot(t)
    <3>1. p # ProcOf[t] /\ st[t] = "idle"
      BY <2>2, <1>t, NoThreadAssumption DEF TakeVacantSlot, LeaseTypeOK
    <3> QED
      BY <1>0, <1>t, <2>2, <3>1 DEF TakeVacantSlot, Become, LeaseTypeOK
  <2>3. CASE Enqueue(t)
    <3>1. /\ st[t] = "idle" /\ holder' = holder /\ present[ProcOf[t]]
          /\ \A u \in Thread \ {t} : st'[u] = st[u]
          /\ waiters'[p] = IF p = ProcOf[t] THEN Append(waiters[p], t) ELSE waiters[p]
      BY <1>t, <2>3 DEF Enqueue, Become, LeaseTypeOK
    <3>2. CASE p = ProcOf[t]
      <4>1. waiters[p] # <<>>
        BY <1>t, <3>1, <3>2 DEF LeaseInv, EntryReclaimed
      <4>2. Head(waiters'[p]) = Head(waiters[p])
        <5>1. waiters[p] \in Seq(Thread) /\ Len(waiters[p]) \in Nat \ {0}
          BY <1>t, <4>1, HeadTailProperties, LenProperties, EmptySeq DEF LeaseTypeOK
        <5>2. /\ Append(waiters[p], t) \in Seq(Thread)
              /\ Append(waiters[p], t) # <<>>
              /\ Append(waiters[p], t)[1] = waiters[p][1]
          BY <5>1, AppendProperties
        <5> QED
          BY <3>1, <3>2, <4>1, <5>1, <5>2, HeadTailProperties
      <4>3. Head(waiters[p]) \in Thread
        BY <1>t, <4>1, FrontWaiter
      <4> QED
        BY <1>t, <3>1, <4>1, <4>2, <4>3 DEF NoLostWakeup
    <3>3. CASE p # ProcOf[t]
      BY <1>0, <1>t, <3>1, <3>3
    <3> QED
      BY <3>2, <3>3
  <2>4. CASE OtherVolumeNotifies(t)
    BY <1>0, <1>t, <2>4 DEF OtherVolumeNotifies, Become
  <2>5. CASE TakeSlot(t)
    <3>1. p # ProcOf[t]
      BY <2>5, <1>t, NoThreadAssumption DEF TakeSlot, LeaseTypeOK
    <3> QED
      BY <1>0, <1>t, <2>5, <3>1 DEF TakeSlot, Become, LeaseTypeOK
  <2>6. CASE SleepAgain(t)
    <3>1. /\ waiters' = waiters /\ holder' = holder /\ st[t] = "awake"
          /\ \A u \in Thread \ {t} : st'[u] = st[u]
          /\ holder[ProcOf[t]] # NoThread \/ Head(waiters[ProcOf[t]]) # t
      BY <1>t, <2>6 DEF SleepAgain, Become
    <3>2. Head(waiters[p]) \in Thread /\ ProcOf[Head(waiters[p])] = p
      BY <1>t, <3>1, FrontWaiter
    <3>3. Head(waiters[p]) # t
      BY <3>1, <3>2
    <3> QED
      BY <1>t, <3>1, <3>2, <3>3 DEF NoLostWakeup
  <2>7. CASE LeaveQueue(t) \/ FileLockFails(t) \/ DropSlot(t)
    <3>1. st'[t] = "notifying" /\ \A u \in Thread \ {t} : st'[u] = st[u]
      BY <1>t, <2>7 DEF LeaveQueue, FileLockFails, DropSlot, Become
    <3>2. CASE p # ProcOf[t]
      <4>1. waiters'[p] = waiters[p] /\ holder'[p] = holder[p]
        BY <1>t, <2>7, <3>2 DEF LeaveQueue, FileLockFails, DropSlot, VacateSlot, LeaseTypeOK
      <4> QED
        BY <1>0, <3>1, <3>2, <4>1
    <3> QED
      BY <3>1, <3>2
  <2>8. CASE LockFile(t) \/ UnlockFile(t)
    BY <1>0, <1>t, <2>8 DEF LockFile, UnlockFile, Become
  <2>9. CASE NotifyAll(t)
    <3>1. /\ waiters' = waiters /\ holder' = holder /\ st[t] = "notifying"
          /\ \A u \in Thread : st'[u] = IF u = t THEN "idle"
                                        ELSE IF ProcOf[u] = ProcOf[t] /\ st[u] = "asleep"
                                             THEN "awake" ELSE st[u]
      BY <1>t, <2>9 DEF NotifyAll
    <3>2. /\ Head(waiters[p]) \in Thread /\ ProcOf[Head(waiters[p])] = p
          /\ st[Head(waiters[p])] \in {"asleep", "awake"}
      BY <1>t, <3>1, FrontWaiter
    <3> QED
      BY <1>t, <3>1, <3>2 DEF NoLostWakeup
  <2> QED
    BY <1>2, <2>1, <2>2, <2>3, <2>4, <2>5, <2>6, <2>7, <2>8, <2>9 DEF ThreadStep
<1>3. ASSUME NEW c \in Proc, Crash(c) PROVE Goal
  <2>1. p # c
    BY <1>3, <1>t DEF Crash, LeaseTypeOK
  <2> QED
    BY <1>0, <1>3, <1>t, <2>1 DEF Crash, LeaseTypeOK
<1> QED
  BY <1>1, <1>2, <1>3 DEF LeaseNext

LEMMA WakeInit == LeaseInit => WakeInv
  BY InitLeaseInv, EmptySeq DEF WakeInv, LeaseInit, QueueInv, NoLostWakeup

LEMMA WakeNext == WakeInv /\ [LeaseNext]_leaseVars => WakeInv'
  BY LeaseInvPreserved, QueuePreserved, WakePreserved DEF WakeInv, LeaseInv

\* No wakeup is lost, for any number of threads and processes: whenever the slot
\* of a process is free and somebody waits for it, the front waiter is awake or
\* a thread of the process is about to call notify_all, also when the waiter at
\* the front leaves at its deadline just as the slot is dropped.
THEOREM WakeupsArrive == LeaseSpec => []NoLostWakeup
<1>1. WakeInv => NoLostWakeup
  BY DEF WakeInv
<1> QED
  BY <1>1, WakeInit, WakeNext, PTL DEF LeaseSpec

\* The queue of a process keeps its order: a step leaves it as it is, adds a
\* thread at the end, takes one thread out, or ends with the process.
LEMMA OrderKept ==
    ASSUME LeaseTypeOK, QueueInv, LeaseNext, NEW p \in Proc, NEW n \in 1 .. Len(waiters[p])
    PROVE  Ahead(waiters'[p], waiters[p][n]) \subseteq Ahead(waiters[p], waiters[p][n])
<1> DEFINE w == waiters[p]
           v == waiters'[p]
<1>t. /\ w \in Seq(Thread) /\ Len(w) \in Nat
      /\ \A i \in 1 .. Len(w) : w[i] \in Thread
      /\ st \in [Thread -> States]
  BY LenProperties DEF LeaseTypeOK
<1>q. \A i \in 1 .. Len(w) : ProcOf[w[i]] = p /\ st[w[i]] \in {"asleep", "awake"}
  BY DEF QueueInv
<1> SUFFICES ASSUME NEW u \in Ahead(v, w[n]) PROVE u \in Ahead(w, w[n])
  OBVIOUS
<1>u. PICK i \in 1 .. Len(v), j \in 1 .. Len(v) : i < j /\ v[i] = u /\ v[j] = w[n]
  BY DEF Ahead
<1> DEFINE Goal == \E k, l \in 1 .. Len(w) : k < l /\ w[k] = v[i] /\ w[l] = w[n]
<1>0. ASSUME v = w PROVE Goal
  BY <1>0, <1>u
\* A step that takes one thread out of this queue.
<1>r. ASSUME NEW k \in 1 .. Len(w), Len(v) = Len(w) - 1,
             \A h \in 1 .. Len(w) - 1 : v[h] = IF h < k THEN w[h] ELSE w[h + 1]
      PROVE  Goal
  <2> DEFINE m(h) == IF h < k THEN h ELSE h + 1
  <2>1. \A h \in 1 .. Len(v) : m(h) \in 1 .. Len(w) /\ v[h] = w[m(h)]
    BY <1>r, <1>t
  <2>2. m(i) < m(j)
    BY <1>r, <1>t, <1>u
  <2> HIDE DEF m
  <2> QED
    BY <1>u, <2>1, <2>2
<1> HIDE DEF Goal
<1>1. ASSUME NEW t \in Thread, ThreadStep(t) PROVE Goal
  <2>1. CASE waiters' = waiters
    BY <1>0, <2>1
  <2>2. CASE Enqueue(t)
    <3>1. st[t] = "idle" /\ v = IF p = ProcOf[t] THEN Append(w, t) ELSE w
      BY <1>t, <2>2 DEF Enqueue, LeaseTypeOK
    <3>2. CASE p = ProcOf[t]
      <4>1. /\ Len(v) = Len(w) + 1 /\ v[Len(w) + 1] = t
            /\ \A h \in 1 .. Len(w) : v[h] = w[h]
        BY <1>t, <3>1, <3>2, AppendProperties
      <4>2. t # w[n]
        BY <1>q, <3>1
      <4>3. j # Len(w) + 1
        BY <1>u, <4>1, <4>2
      <4>4. i \in 1 .. Len(w) /\ j \in 1 .. Len(w)
        BY <1>t, <1>u, <4>1, <4>3
      <4>5. w[i] = v[i] /\ w[j] = w[n]
        BY <1>u, <4>1, <4>4
      <4> QED
        BY <1>u, <4>4, <4>5 DEF Goal
    <3>3. CASE p # ProcOf[t]
      BY <1>0, <3>1, <3>3
    <3> QED
      BY <3>2, <3>3
  <2>3. CASE TakeSlot(t)
    <3>1. /\ waiters[ProcOf[t]] # <<>>
          /\ v = IF p = ProcOf[t] THEN Tail(w) ELSE w
      BY <1>t, <2>3 DEF TakeSlot, LeaseTypeOK
    <3>2. CASE p = ProcOf[t]
      <4>1. /\ 1 \in 1 .. Len(w) /\ Len(v) = Len(w) - 1
            /\ \A h \in 1 .. Len(w) - 1 : v[h] = w[h + 1]
        BY <1>t, <3>1, <3>2, HeadTailProperties
      <4>2. \A h \in 1 .. Len(w) - 1 : v[h] = IF h < 1 THEN w[h] ELSE w[h + 1]
        BY <1>t, <4>1
      <4> QED
        BY <1>r, <4>1, <4>2
    <3>3. CASE p # ProcOf[t]
      BY <1>0, <3>1, <3>3
    <3> QED
      BY <3>2, <3>3
  <2>4. CASE LeaveQueue(t)
    <3>1. PICK k \in 1 .. Len(waiters[ProcOf[t]]) :
            waiters' = [waiters EXCEPT ![ProcOf[t]] = RemoveAt(waiters[ProcOf[t]], k)]
      BY <2>4 DEF LeaveQueue
    <3>2. v = IF p = ProcOf[t] THEN RemoveAt(w, k) ELSE w
      BY <3>1 DEF LeaseTypeOK
    <3>3. CASE p = ProcOf[t]
      <4>1. k \in 1 .. Len(w) /\ v = RemoveAt(w, k)
        BY <3>1, <3>2, <3>3
      <4>2. /\ Len(RemoveAt(w, k)) = Len(w) - 1
            /\ \A h \in 1 .. Len(w) - 1 :
                 RemoveAt(w, k)[h] = IF h < k THEN w[h] ELSE w[h + 1]
        BY ONLY <1>t, <4>1, RemoveAtPlaces
      <4> QED
        BY <1>r, <4>1, <4>2
    <3>4. CASE p # ProcOf[t]
      BY <1>0, <3>2, <3>4
    <3> QED
      BY <3>3, <3>4
  <2> QED
    BY <1>1, <2>1, <2>2, <2>3, <2>4
    DEF ThreadStep, AcquireFailsEarly, Reentry, TakeVacantSlot, OtherVolumeNotifies,
        SleepAgain, LockFile, FileLockFails, UnlockFile, DropSlot, NotifyAll
<1>2. ASSUME NEW c \in Proc, Crash(c) PROVE Goal
  <2>1. CASE p = c
    <3>1. v = <<>> /\ Len(<<>>) = 0
      BY <1>2, <2>1, EmptySeq DEF Crash, LeaseTypeOK
    <3> QED
      BY <3>1
  <2>2. CASE p # c
    BY <1>0, <1>2, <2>2 DEF Crash, LeaseTypeOK
  <2> QED
    BY <2>1, <2>2
<1>3. Goal
  BY <1>1, <1>2 DEF LeaseNext
<1>4. u \in Thread
  BY DEF Ahead
<1> QED
  BY <1>3, <1>4, <1>u DEF Goal, Ahead

\* The slot of a process is granted in arrival order: whoever takes it while
\* others wait is the front waiter, and nobody gets ahead of a queued thread.
\* The fast path cannot overtake, because an awaited slot keeps its entry.
THEOREM GrantsFollowArrival == LeaseSpec => GrantsInArrivalOrder
<1>1. WakeInv /\ [LeaseNext]_leaseVars =>
        [\A p \in Proc : TakenFromTheFront(p) /\ NobodyOvertakes(p)]_leaseVars
  <2> SUFFICES ASSUME WakeInv, LeaseNext, NEW p \in Proc
               PROVE  TakenFromTheFront(p) /\ NobodyOvertakes(p)
    OBVIOUS
  <2> USE ProcOfAssumption DEF WakeInv, LeaseInv
  <2>1. NobodyOvertakes(p)
    BY OrderKept DEF NobodyOvertakes
  <2> SUFFICES ASSUME holder[p] = NoThread, holder'[p] # NoThread, waiters[p] # <<>>
               PROVE  holder'[p] = Head(waiters[p])
    BY <2>1 DEF TakenFromTheFront
  <2> USE DEF LeaseTypeOK
  <2>2. ASSUME NEW c \in Proc, Crash(c) PROVE FALSE
    BY <2>2 DEF Crash
  <2>3. ASSUME NEW t \in Thread, ThreadStep(t) PROVE TakeVacantSlot(t) \/ TakeSlot(t)
    BY <2>3 DEF ThreadStep, AcquireFailsEarly, Reentry, Enqueue, OtherVolumeNotifies,
         SleepAgain, LeaveQueue, LockFile, FileLockFails, UnlockFile, DropSlot,
         VacateSlot, NotifyAll
  <2>4. ASSUME NEW t \in Thread, TakeVacantSlot(t) PROVE FALSE
    BY <2>4 DEF TakeVacantSlot, EntryReclaimed
  <2>5. ASSUME NEW t \in Thread, TakeSlot(t) PROVE holder'[p] = Head(waiters[p])
    BY <2>5 DEF TakeSlot
  <2> QED
    BY <2>2, <2>3, <2>4, <2>5 DEF LeaseNext
<1> QED
  BY <1>1, WakeInit, WakeNext, PTL DEF LeaseSpec, GrantsInArrivalOrder
=============================================================================
