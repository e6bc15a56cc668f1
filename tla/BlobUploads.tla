---------------------------- MODULE BlobUploads -----------------------------
(***************************************************************************)
(* Staged blob uploads: the UploadManager of khive-pack-blob, which keeps  *)
(* a record per upload, and under it the filesystem store of khive-db,     *)
(* which keeps a staging file and a lease file per upload in a root that   *)
(* several processes share.                                                *)
(*                                                                         *)
(* A verb locks the record for as long as it runs.  Its store job waits    *)
(* for the write lock of the process, then runs on a blocking thread that  *)
(* owns that lock; so a request that is cancelled loses a job that waits   *)
(* and leaves one that runs.  A job has its effect under the file lock of  *)
(* the root, in one step as other jobs see it.                             *)
(*                                                                         *)
(* Parts are their indices and one unit long: of a part the model knows    *)
(* whether it is the next one, a resend of the last one or something else. *)
(* Whether a declared digest is right, or a resent part the same, is the   *)
(* client's choice.  Time goes in ticks, the same for every clock.         *)
(***************************************************************************)
EXTENDS Naturals, Sequences, FiniteSets

CONSTANTS
    Upload,        \* upload ids, each used once
    Proc, Host,    \* the processes on the root, and which of them runs an upload
    Actor, Owner,  \* the actors, and who begins an upload
    MaxActive, MaxPerActor,   \* the ceilings of UploadPolicy
    Size,          \* declared size, in parts
    Idle,          \* idle_for, the bound of the lease too
    Margin, Day,   \* what the sweep adds to it: 300 seconds, 24 hours
    MaxSeq,        \* the last renew_seq (u64::MAX in the code)
    MaxCrashes,    \* bound: crashes of processes
    None           \* no file, or no observation

ASSUME UploadAssumption ==
    /\ IsFiniteSet(Upload) /\ IsFiniteSet(Actor)
    /\ Host \in [Upload -> Proc] /\ Owner \in [Upload -> Actor]
ASSUME PolicyAssumption ==
    /\ {MaxActive, MaxPerActor, Size, Idle} \subseteq Nat \ {0}
    /\ {Margin, Day, MaxSeq, MaxCrashes} \subseteq Nat

VARIABLES
    phase,         \* the record's phase; new, creating and created come before
                   \* it, refused and lost are without one
    accepted,      \* next_index: how many parts were accepted
    age,           \* ticks since last_part
    op,            \* the operation that holds the record's lock
    slots,         \* by_actor of UploadSlots, per process
    jobs,          \* the store jobs that run on a blocking thread
    staged,        \* the parts in the staging file, or None
    lease,         \* renew_seq in the lease file, or None
    wall,          \* ticks since renewed_at (the file's age where there is no lease)
    seen,          \* the observations of each process's sweep
    objects,       \* the objects published, under the digest of their parts
    crashes

recordVars == <<phase, accepted, age, op, slots>>
storeVars == <<staged, lease, wall, objects>>
vars == <<recordVars, jobs, seen, storeVars, crashes>>

Free == [job |-> "none", st |-> "none", sweep |-> FALSE]
Kinds == {"append", "renew", "commit", "abort"}
Torn == 0      \* a part that was written in part

\* The parts the client sent, in order; their digest is the object's name.
Digest(n) == [i \in 1..n |-> i]

ASSUME NoneAssumption == None \notin Nat \cup Seq(0..Size)

TypeOK ==
    /\ phase \in [Upload -> {"new", "creating", "created", "refused", "Active", "InFlight",
                             "Aborted", "Finished", "lost"}]
    /\ accepted \in [Upload -> 0..Size]
    /\ age \in [Upload -> 0..Idle]
    /\ op \in [Upload -> {Free} \cup [job : Kinds, st : {"queued", "running", "ok", "err"},
                                     sweep : BOOLEAN]]
    /\ slots \in [Proc -> [Actor -> Nat]]
    /\ jobs \subseteq [u : Upload, kind : Kinds]
    /\ staged \in [Upload -> Seq(0..Size) \cup {None}]
    /\ lease \in [Upload -> Nat \cup {None}]
    /\ wall \in [Upload -> 0..(Idle + Day)]
    /\ seen \in [Proc -> [Upload -> [seq : Nat, age : 0..(Idle + Margin)] \cup {None}]]
    /\ crashes \in 0..MaxCrashes

Init ==
    /\ phase = [u \in Upload |-> "new"]
    /\ accepted = [u \in Upload |-> 0]
    /\ age = [u \in Upload |-> 0]
    /\ op = [u \in Upload |-> Free]
    /\ slots = [p \in Proc |-> [a \in Actor |-> 0]]
    /\ jobs = {}
    /\ staged = [u \in Upload |-> None]
    /\ lease = [u \in Upload |-> None]
    /\ wall = [u \in Upload |-> 0]
    /\ seen = [p \in Proc |-> [u \in Upload |-> None]]
    /\ objects = {}
    /\ crashes = 0

\* The slots a process has taken, numbered for each actor: as many as its
\* counts sum up to.
Taken(held) == UNION {{a} \X (1..held[a]) : a \in Actor}

Reserve(u) == slots' = [slots EXCEPT ![Host[u]][Owner[u]] = @ + 1]
Release(u) == slots' = [slots EXCEPT ![Host[u]][Owner[u]] = @ - 1]

\* The write lock of the process is held by the job on its blocking thread.
WriteLocked(p) == \E j \in jobs : Host[j.u] = p

-----------------------------------------------------------------------------
(* begin.  Its task goes on when the request is cancelled.                 *)

\* The object is there already: begin answers without an upload.
BeginKnown(u) ==
    /\ phase[u] = "new"
    /\ \E o \in objects : o.digest = Digest(Size)
    /\ phase' = [phase EXCEPT ![u] = "refused"]
    /\ UNCHANGED <<accepted, age, op, slots, jobs, seen, storeVars, crashes>>

\* UploadSlots::reserve.
Begin(u) ==
    LET held == slots[Host[u]]
    IN  /\ phase[u] = "new"
        /\ Cardinality(Taken(held)) < MaxActive
        /\ held[Owner[u]] < MaxPerActor
        /\ Reserve(u)
        /\ phase' = [phase EXCEPT ![u] = "creating"]
        /\ age' = [age EXCEPT ![u] = 0]
        /\ UNCHANGED <<accepted, op, jobs, seen, storeVars, crashes>>

\* begin_leased: the staging file and then its lease.
BeginCreates(u) ==
    /\ phase[u] = "creating"
    /\ ~WriteLocked(Host[u])
    /\ phase' = [phase EXCEPT ![u] = "created"]
    /\ staged' = [staged EXCEPT ![u] = <<>>]
    /\ lease' = [lease EXCEPT ![u] = 0]
    /\ wall' = [wall EXCEPT ![u] = 0]
    /\ UNCHANGED <<accepted, age, op, slots, jobs, seen, objects, crashes>>

\* It failed, and its own cleanup may have failed too and left the staging
\* file, with the lease or without, or the lease alone.  The slot goes with the
\* task.
BeginFails(u) ==
    /\ phase[u] = "creating"
    /\ ~WriteLocked(Host[u])
    /\ phase' = [phase EXCEPT ![u] = "refused"]
    /\ Release(u)
    /\ \E s \in {None, <<>>}, l \in {None, 0} :
         /\ staged' = [staged EXCEPT ![u] = s]
         /\ lease' = [lease EXCEPT ![u] = l]
    /\ wall' = [wall EXCEPT ![u] = 0]
    /\ UNCHANGED <<accepted, age, op, jobs, seen, objects, crashes>>

BeginRegisters(u) ==
    /\ phase[u] = "created"
    /\ phase' = [phase EXCEPT ![u] = "Active"]
    /\ UNCHANGED <<accepted, age, op, slots, jobs, seen, storeVars, crashes>>

-----------------------------------------------------------------------------
(* The verbs on a record whose lock is free.  A verb that finds the record *)
(* Finished, or gone, answers "unknown upload" and changes nothing.        *)

Live(u) == op[u] = Free /\ phase[u] = "Active" /\ age[u] < Idle

\* The verb goes to the store: the job waits for the write lock.
Queue(u, kind, sweep) == op' = [op EXCEPT ![u] = [job |-> kind, st |-> "queued", sweep |-> sweep]]

\* The next part.  accepted_at is taken before the store is called; until the
\* record is Active again nothing reads its clock.
PutPart(u) ==
    /\ Live(u)
    /\ accepted[u] < Size
    /\ phase' = [phase EXCEPT ![u] = "InFlight"]
    /\ age' = [age EXCEPT ![u] = 0]
    /\ Queue(u, "append", FALSE)
    /\ UNCHANGED <<accepted, slots, jobs, seen, storeVars, crashes>>

\* The last part again, unchanged: its lease is renewed.
ResendTail(u) ==
    /\ Live(u)
    /\ accepted[u] > 0
    /\ phase' = [phase EXCEPT ![u] = "InFlight"]
    /\ age' = [age EXCEPT ![u] = 0]
    /\ Queue(u, "renew", FALSE)
    /\ UNCHANGED <<accepted, slots, jobs, seen, storeVars, crashes>>

Commit(u) ==
    /\ Live(u)
    /\ accepted[u] = Size
    /\ phase' = [phase EXCEPT ![u] = "InFlight"]
    /\ Queue(u, "commit", FALSE)
    /\ UNCHANGED <<accepted, age, slots, jobs, seen, storeVars, crashes>>

\* The start of discard.
Discards(u, sweep) ==
    /\ op[u] = Free
    /\ phase' = [phase EXCEPT ![u] = "Aborted"]
    /\ Queue(u, "abort", sweep)

\* A request discards the record: the abort verb, at any time; require_live,
\* for a record that is not Active or idle for too long; a resent part that
\* differs, a part that exceeds the declared size, a digest that is not the
\* declared one.
Discard(u) ==
    /\ phase[u] \in {"Active", "InFlight", "Aborted"}
    /\ Discards(u, FALSE)
    /\ UNCHANGED <<accepted, age, slots, jobs, seen, storeVars, crashes>>

\* The request is dropped at its await.
Cancel(u) ==
    /\ op[u] # Free
    /\ ~op[u].sweep
    /\ op' = [op EXCEPT ![u] = Free]
    /\ UNCHANGED <<phase, accepted, age, slots, jobs, seen, storeVars, crashes>>

-----------------------------------------------------------------------------
(* run: a store job gets the write lock, has its effect, and answers.      *)

\* Fault: the lock is the request's, and a cancelled request gives it back.
SpawnUnlocked(u) ==
    /\ op[u].st = "queued"
    /\ \A j \in jobs : Host[j.u] = Host[u] => op[j.u].st # "running"
    /\ op' = [op EXCEPT ![u].st = "running"]
    /\ jobs' = jobs \cup {[u |-> u, kind |-> op[u].job]}
    /\ UNCHANGED <<phase, accepted, age, slots, seen, storeVars, crashes>>

JobSpawns(u) ==
    /\ op[u].st = "queued"
    /\ ~WriteLocked(Host[u])
    /\ op' = [op EXCEPT ![u].st = "running"]
    /\ jobs' = jobs \cup {[u |-> u, kind |-> op[u].job]}
    /\ UNCHANGED <<phase, accepted, age, slots, seen, storeVars, crashes>>

\* An upload whose staging is gone is never observed again: what a process saw
\* of it, which goes with its own cleanup or its next sweep, goes at once.
ForgetSeen ==
    seen' = [p \in Proc |-> [u \in Upload |-> IF staged'[u] = None THEN None ELSE seen[p][u]]]

\* The job's thread ends; if its request still waits it gets the answer.
Answers(j, st) ==
    /\ jobs' = jobs \ {j}
    /\ ForgetSeen
    /\ op' = IF op[j.u].st = "running" /\ op[j.u].job = j.kind
             THEN [op EXCEPT ![j.u].st = st] ELSE op
    /\ UNCHANGED <<phase, accepted, age, slots, crashes>>

\* The files are there and renew_seq is not exhausted.
Renewable(u) == staged[u] # None /\ lease[u] # None /\ lease[u] < MaxSeq

\* publish: the lease file is replaced by one with the next renew_seq.
Renews(u) ==
    /\ Renewable(u)
    /\ lease' = [lease EXCEPT ![u] = @ + 1]
    /\ wall' = [wall EXCEPT ![u] = 0]
    /\ UNCHANGED objects

\* The staging file goes, and with it what the model knows of its age.
Unstages(u) ==
    /\ staged' = [staged EXCEPT ![u] = None]
    /\ wall' = [wall EXCEPT ![u] = 0]

CleansUp(u) == lease' = [lease EXCEPT ![u] = None]

\* append, in full.
Appended(u) ==
    /\ Renews(u)
    /\ staged' = [staged EXCEPT ![u] = Append(@, accepted[u] + 1)]

\* commit_staged moves the staging file to its place among the objects, or
\* removes it if the object is there.
Publishes(u) ==
    /\ staged[u] # None
    /\ Unstages(u)
    /\ objects' = IF \E o \in objects : o.digest = Digest(accepted[u]) THEN objects
                  ELSE objects \cup {[digest |-> Digest(accepted[u]), parts |-> staged[u]]}

\* publish_blob_at: a rename that fails takes the staging file with it.
LosesStaging(u) ==
    /\ staged[u] # None /\ ~\E o \in objects : o.digest = Digest(accepted[u])
    /\ Unstages(u)
    /\ UNCHANGED <<lease, objects>>

\* put_part compares the length with the parts it accepted.
AppendEnds(j) ==
    /\ j.kind = "append"
    /\ Appended(j.u)
    /\ Answers(j, IF Len(staged'[j.u]) = accepted[j.u] + 1 THEN "ok" ELSE "err")

RenewEnds(j) == j.kind = "renew" /\ Renews(j.u) /\ UNCHANGED staged /\ Answers(j, "ok")

CommitEnds(j) == j.kind = "commit" /\ Publishes(j.u) /\ CleansUp(j.u) /\ Answers(j, "ok")

\* A missing staging file is as good as one that was unlinked.
AbortEnds(j) ==
    /\ j.kind = "abort"
    /\ Unstages(j.u) /\ CleansUp(j.u) /\ UNCHANGED objects
    /\ Answers(j, "ok")

\* What a job leaves behind that fails, or dies with its process, on the way:
\* nothing, or some of its effects in their order.
Leaves(j) ==
    \/ UNCHANGED storeVars
    \/ /\ j.kind = "append"
       /\ Renewable(j.u)
       /\ \E part \in {Torn, accepted[j.u] + 1} :
            staged' = [staged EXCEPT ![j.u] = Append(@, part)]
       /\ UNCHANGED <<lease, wall, objects>>
    \/ j.kind = "append" /\ Appended(j.u)
    \/ j.kind = "renew" /\ Renews(j.u) /\ UNCHANGED staged
    \/ j.kind = "commit" /\ Publishes(j.u) /\ (UNCHANGED lease \/ CleansUp(j.u))
    \/ j.kind = "commit" /\ LosesStaging(j.u)
    \/ /\ j.kind = "abort"
       /\ Unstages(j.u) /\ UNCHANGED objects
       /\ UNCHANGED lease \/ CleansUp(j.u)

JobFails(j) == Leaves(j) /\ Answers(j, "err")

-----------------------------------------------------------------------------
(* The request, or the sweep, takes up the answer of its job.              *)

\* The record leaves the map and its slot is dropped.
Forget(u) ==
    /\ phase' = [phase EXCEPT ![u] = "Finished"]
    /\ accepted' = [accepted EXCEPT ![u] = 0]
    /\ age' = [age EXCEPT ![u] = 0]
    /\ Release(u)

Succeeds(u) == op[u].st = "ok" /\ op' = [op EXCEPT ![u] = Free]

\* Fault: last_part is the time of the answer.
AcceptedNow(u) ==
    /\ Succeeds(u)
    /\ op[u].job \in {"append", "renew"}
    /\ phase' = [phase EXCEPT ![u] = "Active"]
    /\ accepted' = [accepted EXCEPT ![u] = IF op[u].job = "append" THEN @ + 1 ELSE @]
    /\ age' = [age EXCEPT ![u] = 0]
    /\ UNCHANGED <<slots, jobs, seen, storeVars, crashes>>

Accepted(u) ==
    /\ Succeeds(u)
    /\ op[u].job \in {"append", "renew"}
    /\ phase' = [phase EXCEPT ![u] = "Active"]
    /\ accepted' = [accepted EXCEPT ![u] = IF op[u].job = "append" THEN @ + 1 ELSE @]
    /\ UNCHANGED <<age, slots, jobs, seen, storeVars, crashes>>

Finishes(u) ==
    /\ Succeeds(u)
    /\ op[u].job \in {"commit", "abort"}
    /\ Forget(u)
    /\ UNCHANGED <<jobs, seen, storeVars, crashes>>

\* discard_after_error, in the verb that failed.
FailsAndDiscards(u) ==
    /\ op[u].st = "err"
    /\ op[u].job # "abort"
    /\ phase' = [phase EXCEPT ![u] = "Aborted"]
    /\ Queue(u, "abort", FALSE)
    /\ UNCHANGED <<accepted, age, slots, jobs, seen, storeVars, crashes>>

\* The record stays, with its slot, for a later verb or the sweep.
DiscardFails(u) ==
    /\ op[u].st = "err"
    /\ op[u].job = "abort"
    /\ op' = [op EXCEPT ![u] = Free]
    /\ UNCHANGED <<phase, accepted, age, slots, jobs, seen, storeVars, crashes>>

-----------------------------------------------------------------------------
(* sweep.  A pass looks at the records of the process one after the other *)
(* and then at the store.  The passes follow each other for as long as the *)
(* daemon runs and are not kept apart here: a record that a pass misses,   *)
(* or finds live or Finished, is one it did not look at.                   *)

SweepWaits(p) == \E u \in Upload : Host[u] = p /\ op[u].sweep

\* Fault: the sweep only expires, and leaves a record that a cancelled request
\* left InFlight or Aborted.
SweepExpires(u) ==
    /\ ~SweepWaits(Host[u])
    /\ phase[u] = "Active" /\ age[u] >= Idle
    /\ Discards(u, TRUE)
    /\ UNCHANGED <<accepted, age, slots, jobs, seen, storeVars, crashes>>

\* The sweep gets the lock of a record it has to discard.
SweepDiscards(u) ==
    /\ ~SweepWaits(Host[u])
    /\ phase[u] \in {"InFlight", "Aborted"} \/ (phase[u] = "Active" /\ age[u] >= Idle)
    /\ Discards(u, TRUE)
    /\ UNCHANGED <<accepted, age, slots, jobs, seen, storeVars, crashes>>

\* What the sweep knows of a lease it has just read.
Observation(p, u) ==
    IF seen[p][u] # None /\ seen[p][u].seq = lease[u] THEN seen[p][u]
    ELSE [seq |-> lease[u], age |-> 0]

Expired(p, u) ==
    IF lease[u] = None THEN wall[u] >= Day
    ELSE Observation(p, u).age >= Idle + Margin \/ wall[u] >= Idle + Day

StagedUploads == {u \in Upload : staged[u] # None}

\* sweep_at, sparing the entries it cannot remove, of some of which the staging
\* goes and the lease stays: expired staging goes with its lease, a lease
\* without staging goes.
SweepsStore(p, spared, halved) ==
    LET dead == {u \in StagedUploads : Expired(p, u)} \ (spared \ halved)
    IN  /\ ~SweepWaits(p)
        /\ ~WriteLocked(p)
        /\ staged' = [u \in Upload |-> IF u \in dead THEN None ELSE staged[u]]
        /\ lease' = [u \in Upload |->
                       IF (u \in dead \/ staged[u] = None) /\ u \notin spared
                       THEN None ELSE lease[u]]
        /\ wall' = [u \in Upload |-> IF u \in dead THEN 0 ELSE wall[u]]
        /\ seen' = [q \in Proc |-> [u \in Upload |->
                      IF staged'[u] = None THEN None
                      ELSE IF q = p /\ lease[u] # None THEN Observation(p, u)
                      ELSE seen[q][u]]]
        /\ UNCHANGED <<recordVars, jobs, objects, crashes>>

SweepStore(p) == SweepsStore(p, {}, {})

\* Some entries cannot be removed, or the process dies on the way.  A sweep that
\* cannot read the store at all changes nothing.
SweepStoreFails(p) ==
    \E spared \in SUBSET Upload \ {{}} :
      \E halved \in SUBSET spared : SweepsStore(p, spared, halved)

-----------------------------------------------------------------------------
(* Time and crashes.                                                       *)

Older(n, cap) == IF n < cap THEN n + 1 ELSE n

Tick ==
    /\ age' = [u \in Upload |->
                 IF phase[u] \in {"creating", "created", "Active", "InFlight"}
                 THEN Older(age[u], Idle) ELSE age[u]]
    /\ wall' = [u \in Upload |-> IF staged[u] # None THEN Older(wall[u], Idle + Day) ELSE 0]
    /\ seen' = [p \in Proc |-> [u \in Upload |->
                  IF seen[p][u] = None THEN None
                  ELSE [seen[p][u] EXCEPT !.age = Older(@, Idle + Margin)]]]
    /\ UNCHANGED <<phase, accepted, op, slots, jobs, staged, lease, objects,
                   crashes>>

\* A process dies, in the middle of a job perhaps, and starts again: its
\* records, slots and observations are gone, the files are not.
Crash(p) ==
    LET mine == {u \in Upload : Host[u] = p}
    IN  /\ crashes < MaxCrashes
        /\ crashes' = crashes + 1
        /\ phase' = [u \in Upload |->
                       IF u \in mine /\ phase[u] # "new" THEN "lost" ELSE phase[u]]
        /\ accepted' = [u \in Upload |-> IF u \in mine THEN 0 ELSE accepted[u]]
        /\ age' = [u \in Upload |-> IF u \in mine THEN 0 ELSE age[u]]
        /\ op' = [u \in Upload |-> IF u \in mine THEN Free ELSE op[u]]
        /\ slots' = [slots EXCEPT ![p] = [a \in Actor |-> 0]]
        /\ jobs' = {j \in jobs : j.u \notin mine}
        /\ \/ \E j \in jobs \ jobs' : Leaves(j)
           \/ UNCHANGED storeVars
        /\ seen' = [q \in Proc |-> [u \in Upload |->
                      IF q = p \/ staged'[u] = None THEN None ELSE seen[q][u]]]

-----------------------------------------------------------------------------
\* What the tasks and the blocking threads do by themselves.
System ==
    \/ \E u \in Upload :
         \/ BeginCreates(u) \/ BeginFails(u) \/ BeginRegisters(u)
         \/ JobSpawns(u)
         \/ Accepted(u) \/ Finishes(u) \/ FailsAndDiscards(u) \/ DiscardFails(u)
    \/ \E j \in jobs :
         \/ AppendEnds(j) \/ RenewEnds(j) \/ CommitEnds(j) \/ AbortEnds(j) \/ JobFails(j)

Client(u) ==
    \/ BeginKnown(u) \/ Begin(u)
    \/ PutPart(u) \/ ResendTail(u) \/ Commit(u) \/ Discard(u) \/ Cancel(u)

Sweep ==
    \/ \E u \in Upload : SweepDiscards(u)
    \/ \E p \in Proc : SweepStore(p) \/ SweepStoreFails(p)

Next ==
    \/ \E u \in Upload : Client(u)
    \/ System \/ Sweep \/ Tick
    \/ \E p \in Proc : Crash(p)

Spec == Init /\ [][Next]_vars

(***************************************************************************)
(* Fairness.  The clock goes on, tasks are polled and blocking jobs end.   *)
(* The daemon's sweep loop gets every lock it waits for, since both locks  *)
(* queue their waiters; its aborts and its sweeps of the store, tried      *)
(* again and again, do not fail every time.  One process that sweeps is    *)
(* enough for the store.  Nothing is assumed of clients.                   *)
(***************************************************************************)
Fairness ==
    /\ WF_vars(Tick)
    /\ WF_vars(System)
    /\ SF_vars(\E j \in jobs : op[j.u].sweep /\ op[j.u].st = "running" /\ AbortEnds(j))
    /\ SF_vars(\E u \in Upload : SweepDiscards(u))
    /\ SF_vars(\E p \in Proc : SweepStore(p))

FairSpec == Spec /\ Fairness

-----------------------------------------------------------------------------
(* Properties.                                                             *)

Counted(u) == phase[u] \in {"creating", "created", "Active", "InFlight", "Aborted"}

\* A slot is held for every upload the process knows of and for no other,
\* within both ceilings, and nothing is left of an upload whose slot was given
\* back: no staging, no lease, and no job that a cancelled request left
\* running.
SlotsExact ==
    /\ TypeOK
    /\ \A p \in Proc :
         /\ \A a \in Actor :
              /\ slots[p][a] = Cardinality({u \in Upload : Host[u] = p /\ Owner[u] = a /\ Counted(u)})
              /\ slots[p][a] <= MaxPerActor
         /\ Cardinality(Taken(slots[p])) <= MaxActive
    /\ \A u \in Upload : phase[u] = "Finished" =>
         staged[u] = None /\ lease[u] = None /\ ~\E j \in jobs : j.u = u

\* A live upload has in its staging file exactly the parts that were accepted,
\* whatever requests were cancelled, jobs failed and other processes swept;
\* and what is published under a digest is what the digest is of.
LiveUploadIntact ==
    /\ \A u \in Upload : phase[u] = "Active" /\ age[u] < Idle =>
         staged[u] = Digest(accepted[u]) /\ lease[u] # None
    /\ \A o \in objects : o.parts = o.digest /\ Len(o.parts) = Size

\* Neither staging nor a lease stays, together or alone: the upload is committed
\* or discarded, or, if its client or its process is gone, swept; and its slot
\* comes back.
StagingReclaimed ==
    \A u \in Upload :
      staged[u] # None \/ lease[u] # None \/ Counted(u) ~>
        staged[u] = None /\ lease[u] = None /\ ~Counted(u)

=============================================================================
