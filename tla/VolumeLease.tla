---------------------------- MODULE VolumeLease ----------------------------
(***************************************************************************)
(* The physical-volume lease of crates/khive-db/src/disk_guard.rs: a       *)
(* thread first takes its process's in-process slot (a mutex-protected     *)
(* holder and FIFO of waiting threads, with one condition variable), then  *)
(* polls an advisory file lock that excludes the other processes.  Both    *)
(* waits share one deadline.  The file lock is dropped before the slot.    *)
(*                                                                         *)
(* One volume is modelled.  A section under the registry mutex is one      *)
(* action; the notify_all that follows it runs after the mutex is dropped  *)
(* and is an action of its own.                                            *)
(*                                                                         *)
(* Direct writers take this lease first, and the two modules can be        *)
(* extended together: Init, Next and their like are LeaseInit and          *)
(* LeaseNext here.                                                         *)
(***************************************************************************)
EXTENDS Naturals, Sequences, FiniteSets, SequencesExt

CONSTANTS
    Thread,     \* threads that acquire the lease
    Proc,       \* processes on the volume
    ProcOf,     \* the process of each thread
    NoThread    \* nobody

ASSUME ProcOfAssumption == ProcOf \in [Thread -> Proc]
ASSUME NoThreadAssumption == NoThread \notin Thread

VARIABLES
    st,         \* where each thread is in acquire_classified or HeldLease::drop
    outcome,    \* how its last acquire ended
    present,    \* the registry has an entry for the volume
    holder,     \* SlotState::holder
    waiters,    \* SlotState::waiters
    file        \* the thread whose open file holds the advisory lock

leaseVars == <<st, outcome, present, holder, waiters, file>>

States == {"idle", "asleep", "awake", "locking", "holding", "unlocked", "notifying"}

LeaseTypeOK ==
    /\ st \in [Thread -> States]
    /\ outcome \in [Thread -> {"none", "granted", "TimedOut", "Refused"}]
    /\ present \in [Proc -> BOOLEAN]
    /\ holder \in [Proc -> Thread \cup {NoThread}]
    /\ waiters \in [Proc -> Seq(Thread)]
    /\ file \in Thread \cup {NoThread}

LeaseInit ==
    /\ st = [t \in Thread |-> "idle"]
    /\ outcome = [t \in Thread |-> "none"]
    /\ present = [p \in Proc |-> FALSE]
    /\ holder = [p \in Proc |-> NoThread]
    /\ waiters = [p \in Proc |-> <<>>]
    /\ file = NoThread

Become(t, s) == st' = [st EXCEPT ![t] = s]
Return(t, what) == outcome' = [outcome EXCEPT ![t] = what]

-----------------------------------------------------------------------------
(* acquire_process_slot.                                                   *)

\* The deadline has passed before the registry mutex is taken, or the lock
\* directory is unusable: nothing was changed.
AcquireFailsEarly(t) ==
    /\ st[t] = "idle"
    /\ \E what \in {"TimedOut", "Refused"} : Return(t, what)
    /\ UNCHANGED <<st, present, holder, waiters, file>>

\* The thread already holds the lease: refused at once (VolumeLeaseReentry).
Reentry(t) ==
    /\ st[t] = "holding"
    /\ holder[ProcOf[t]] = t
    /\ Return(t, "Refused")
    /\ UNCHANGED <<st, present, holder, waiters, file>>

\* No entry: insert one with this thread as the holder.
TakeVacantSlot(t) ==
    /\ st[t] = "idle"
    /\ ~present[ProcOf[t]]
    /\ present' = [present EXCEPT ![ProcOf[t]] = TRUE]
    /\ holder' = [holder EXCEPT ![ProcOf[t]] = t]
    /\ Become(t, "locking")
    /\ UNCHANGED <<outcome, waiters, file>>

\* An entry exists: join the queue, then run the wait loop's first check.
Enqueue(t) ==
    /\ st[t] = "idle"
    /\ present[ProcOf[t]]
    /\ waiters' = [waiters EXCEPT ![ProcOf[t]] = Append(@, t)]
    /\ Become(t, "awake")
    /\ UNCHANGED <<outcome, present, holder, file>>

\* The condition variable is shared by every volume of the process, so a
\* notification for another volume wakes this one's waiters too.
OtherVolumeNotifies(t) ==
    /\ st[t] = "asleep"
    /\ Become(t, "awake")
    /\ UNCHANGED <<outcome, present, holder, waiters, file>>

\* Fault: any woken waiter takes a free slot.
TakeSlotUnordered(t) ==
    /\ st[t] = "awake"
    /\ holder[ProcOf[t]] = NoThread
    /\ \E i \in 1 .. Len(waiters[ProcOf[t]]) :
         /\ waiters[ProcOf[t]][i] = t
         /\ waiters' = [waiters EXCEPT ![ProcOf[t]] = RemoveAt(@, i)]
    /\ holder' = [holder EXCEPT ![ProcOf[t]] = t]
    /\ Become(t, "locking")
    /\ UNCHANGED <<outcome, present, file>>

\* A woken thread at the front of a free slot takes it.
TakeSlot(t) ==
    /\ st[t] = "awake"
    /\ holder[ProcOf[t]] = NoThread
    /\ waiters[ProcOf[t]] # <<>>
    /\ Head(waiters[ProcOf[t]]) = t
    /\ waiters' = [waiters EXCEPT ![ProcOf[t]] = Tail(@)]
    /\ holder' = [holder EXCEPT ![ProcOf[t]] = t]
    /\ Become(t, "locking")
    /\ UNCHANGED <<outcome, present, file>>

\* A woken thread that cannot take the slot waits again.
SleepAgain(t) ==
    /\ st[t] = "awake"
    /\ \/ holder[ProcOf[t]] # NoThread
       \/ Head(waiters[ProcOf[t]]) # t
    /\ Become(t, "asleep")
    /\ UNCHANGED <<outcome, present, holder, waiters, file>>

\* Fault: a timed-out waiter leaves without notifying the next one.
LeaveQueueSilently(t) ==
    /\ st[t] \in {"asleep", "awake"}
    /\ \E i \in 1 .. Len(waiters[ProcOf[t]]) :
         LET p == ProcOf[t]
             rest == RemoveAt(waiters[p], i)
         IN /\ waiters[p][i] = t
            /\ waiters' = [waiters EXCEPT ![p] = rest]
            /\ present' = [present EXCEPT ![p] = ~(holder[p] = NoThread /\ rest = <<>>)]
    /\ Return(t, "TimedOut")
    /\ Become(t, "idle")
    /\ UNCHANGED <<holder, file>>

\* The deadline passes while queued: leave the queue, reclaim an entry nobody
\* needs, then notify.
LeaveQueue(t) ==
    /\ st[t] \in {"asleep", "awake"}
    /\ \E i \in 1 .. Len(waiters[ProcOf[t]]) :
         LET p == ProcOf[t]
             rest == RemoveAt(waiters[p], i)
         IN /\ waiters[p][i] = t
            /\ waiters' = [waiters EXCEPT ![p] = rest]
            /\ present' = [present EXCEPT ![p] = ~(holder[p] = NoThread /\ rest = <<>>)]
    /\ Return(t, "TimedOut")
    /\ Become(t, "notifying")
    /\ UNCHANGED <<holder, file>>

-----------------------------------------------------------------------------
(* acquire_classified after the slot is taken, and HeldLease::drop.        *)

\* Fault: the lock is not checked.
LockFileAnyway(t) ==
    /\ st[t] = "locking"
    /\ file' = t
    /\ Return(t, "granted")
    /\ Become(t, "holding")
    /\ UNCHANGED <<present, holder, waiters>>

\* fs4 try_lock succeeds: the file is not locked by anyone.
LockFile(t) ==
    /\ st[t] = "locking"
    /\ file = NoThread
    /\ file' = t
    /\ Return(t, "granted")
    /\ Become(t, "holding")
    /\ UNCHANGED <<present, holder, waiters>>

\* Fault: the registry entry is never reclaimed.
VacateSlotKeepingEntry(t) ==
    /\ holder' = [holder EXCEPT ![ProcOf[t]] = NoThread]
    /\ UNCHANGED present

\* Drop for ProcessSlot: vacate the slot and reclaim an entry with no waiter.
VacateSlot(t) ==
    LET p == ProcOf[t]
    IN /\ holder' = [holder EXCEPT ![p] = NoThread]
       /\ present' = [present EXCEPT ![p] = waiters[p] # <<>>]

\* The file cannot be opened or locked, or the deadline passes while another
\* process holds it: the error return drops the slot.
FileLockFails(t) ==
    /\ st[t] = "locking"
    /\ \E what \in {"TimedOut", "Refused"} : Return(t, what)
    /\ VacateSlot(t)
    /\ Become(t, "notifying")
    /\ UNCHANGED <<waiters, file>>

\* HeldLease::drop, first half: the advisory lock.  An unlock that fails is
\* logged; the file is closed with the lease, which unlocks it too.
UnlockFile(t) ==
    /\ st[t] = "holding"
    /\ file' = NoThread
    /\ Become(t, "unlocked")
    /\ UNCHANGED <<outcome, present, holder, waiters>>

\* Fault: the slot is vacated without waking anyone.
DropSlotSilently(t) ==
    /\ st[t] = "unlocked"
    /\ VacateSlot(t)
    /\ Become(t, "idle")
    /\ UNCHANGED <<outcome, waiters, file>>

\* HeldLease::drop, second half: the in-process slot.
DropSlot(t) ==
    /\ st[t] = "unlocked"
    /\ VacateSlot(t)
    /\ Become(t, "notifying")
    /\ UNCHANGED <<outcome, waiters, file>>

\* registry.available.notify_all(), after the registry mutex is released.
NotifyAll(t) ==
    /\ st[t] = "notifying"
    /\ st' = [u \in Thread |->
                IF u = t THEN "idle"
                ELSE IF ProcOf[u] = ProcOf[t] /\ st[u] = "asleep" THEN "awake"
                ELSE st[u]]
    /\ UNCHANGED <<outcome, present, holder, waiters, file>>

-----------------------------------------------------------------------------
\* A process dies: its registry is gone, the operating system drops its file
\* lock, and its threads start over.
Crash(p) ==
    /\ st' = [t \in Thread |-> IF ProcOf[t] = p THEN "idle" ELSE st[t]]
    /\ outcome' = [t \in Thread |-> IF ProcOf[t] = p THEN "none" ELSE outcome[t]]
    /\ present' = [present EXCEPT ![p] = FALSE]
    /\ holder' = [holder EXCEPT ![p] = NoThread]
    /\ waiters' = [waiters EXCEPT ![p] = <<>>]
    /\ file' = IF file # NoThread /\ ProcOf[file] = p THEN NoThread ELSE file

ThreadStep(t) ==
    \/ AcquireFailsEarly(t) \/ Reentry(t) \/ TakeVacantSlot(t) \/ Enqueue(t)
    \/ OtherVolumeNotifies(t) \/ TakeSlot(t) \/ SleepAgain(t) \/ LeaveQueue(t)
    \/ LockFile(t) \/ FileLockFails(t) \/ UnlockFile(t) \/ DropSlot(t)
    \/ NotifyAll(t)

LeaseNext == (\E t \in Thread : ThreadStep(t)) \/ (\E p \in Proc : Crash(p))

LeaseSpec == LeaseInit /\ [][LeaseNext]_leaseVars

-----------------------------------------------------------------------------
InSlot == {"locking", "holding", "unlocked"}

\* At most one thread on the volume, in any process, believes it holds the
\* lease, and it is the one the operating system gave the file lock to.
VolumeExclusive == \A t \in Thread : st[t] = "holding" <=> file = t

\* The in-process slot names exactly the thread that is between its grant and
\* its drop, so a failed file lock, a timeout or a drop never leaves the slot
\* with an absent owner or with two.
SlotMatchesHolder ==
    /\ \A t \in Thread : st[t] \in InSlot <=> holder[ProcOf[t]] = t
    /\ \A p \in Proc : holder[p] # NoThread => ProcOf[holder[p]] = p

\* The registry keeps an entry exactly while somebody holds or waits for the
\* slot, so the vacant fast path is never taken past a waiter.
EntryReclaimed ==
    \A p \in Proc : present[p] <=> holder[p] # NoThread \/ waiters[p] # <<>>

\* No wakeup is lost: whenever the slot is free and somebody waits, the front
\* waiter is awake or a notification is on its way.
NoLostWakeup ==
    \A p \in Proc :
      holder[p] = NoThread /\ waiters[p] # <<>> =>
        \/ st[Head(waiters[p])] = "awake"
        \/ \E t \in Thread : ProcOf[t] = p /\ st[t] = "notifying"

\* The threads before t in queue q.
Ahead(q, t) ==
    {u \in Thread : \E i, j \in 1 .. Len(q) : i < j /\ q[i] = u /\ q[j] = t}

\* Whoever takes the slot of a process with waiters is the front one.
TakenFromTheFront(p) ==
    holder[p] = NoThread /\ holder'[p] # NoThread /\ waiters[p] # <<>> =>
      holder'[p] = Head(waiters[p])

\* Nobody gets ahead of a thread that is queued, whoever arrives, leaves at its
\* deadline or is granted.
NobodyOvertakes(p) ==
    \A i \in 1 .. Len(waiters[p]) :
      Ahead(waiters'[p], waiters[p][i]) \subseteq Ahead(waiters[p], waiters[p][i])

\* Grants follow arrival order: a thread takes the slot of a process with
\* waiters only from the front, and the queue in front of a waiter never grows.
GrantsInArrivalOrder ==
    [][\A p \in Proc : TakenFromTheFront(p) /\ NobodyOvertakes(p)]_leaseVars

(***************************************************************************)
(* Liveness.  Threads that were woken, that hold the lease or that have to *)
(* notify keep running; deadlines, crashes and foreign notifications need  *)
(* not happen.  The advisory lock is polled, with no queue between the     *)
(* processes, so nothing is claimed about which process gets it: a thread  *)
(* is only assumed to try again.                                           *)
(***************************************************************************)
LeaseFairness ==
    \A t \in Thread :
      /\ WF_leaseVars(TakeSlot(t) \/ SleepAgain(t))
      /\ WF_leaseVars(LockFile(t) \/ FileLockFails(t))
      /\ WF_leaseVars(UnlockFile(t))
      /\ WF_leaseVars(DropSlot(t))
      /\ WF_leaseVars(NotifyAll(t))

LeaseFairSpec == LeaseSpec /\ LeaseFairness

\* A queued thread gets its turn even if its own deadline never fires: the
\* slot it waits for is released, the release is notified, and nobody
\* overtakes it.
QueuedGetsTurn ==
    \A t \in Thread : st[t] \in {"asleep", "awake"} ~> st[t] \notin {"asleep", "awake"}
=============================================================================
