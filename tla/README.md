# khive: a TLA+ verification project

khive is a knowledge-graph and task runtime for agents, written in Rust over
SQLite. This directory holds TLA+ models of the part of it that everything else
trusts, how writes, reads and checkpoints share one database file, and of the
parts above it whose correctness depends on the order in which concurrent or
failing steps happen: the audit batch, background jobs, proposals, staged
uploads and outgoing mail. It has the TLC runs that check the models on small
instances and TLAPS proofs of the main properties for every instance.

Source paths below are relative to the repository root. `db/` abbreviates
`crates/khive-db/src/`, `rt/` abbreviates `crates/khive-runtime/src/`. Parts in
bold are modelled.

## 1. Inventory

### Parts of the system

| Part | State it keeps | Operations | Hard behaviour | What makes it correct |
| --- | --- | --- | --- | --- |
| **Writer task** `db/writer_task.rs` | bounded channel, the writer connection, admission gauge, acquisition counters | enqueue (4 kinds, bounded or not), drain loop, BEGIN with retries, capacity check, closure, COMMIT/ROLLBACK, retire, close and drain | enqueue deadlines and cancelled futures, a permit racing `rx.close()`, panics, a lost blocking closure, COMMIT or ROLLBACK of unknown effect | every accepted request answered once; no answer says more than the database shows; the lease covers the transaction |
| **Volume lease** `db/disk_guard.rs` | process registry (holder and FIFO per volume), one condvar, advisory file lock | acquire with deadline, drop | several threads and processes, deadline racing a grant, process death | mutual exclusion, FIFO, no lost wakeup, no leaked entry |
| **Direct write units** `db/pool/write_units.rs`, `db/pool/acquisition.rs`, `db/connection_settlement.rs` | the pooled writer and its mutex, `pooled_writer_retired`, `settlement_unknown` | pooled and standalone transactions and scripts, shared reads, zero-wait checkpoint | panics and early returns with an open transaction, retirement under waiters, a connection that can neither roll back nor close | the connection is handed on clean or not at all; settle before unlock before release; truthful results |
| **Reader pool** `db/pool/*`, `db/sql_bridge/*` | permits, queue of connections, explicit read transactions | checkout, typed and raw reads, return, discard and replace, explicit BEGIN/COMMIT | order of return and release, failed replacement, dropped and evicted handles | a permit means a connection; isolation between borrowers; permits bound snapshots |
| **Checkpoint gate** `db/pool/admission.rs`, `db/pool/pool_impl.rs` | ownership phase, condvar, autocheckpoint setting per connection | claim, join, finish, configure, propagate | a claim racing opens and the writer task's spawn, failed claims with joiners | a claim is atomic for every open; nobody is told Ok wrongly; a failed claim leaves the fallback |
| Checkpoint task `db/checkpoint/*` | pressure episodes, lifecycle queue | tick, claim, truncate, attribute pins | episodes against shutdown | episodes open and close in pairs |
| Migrations, namespace move `db/migrations.rs`, `db/namespace_move.rs` | schema version | apply | crash between versions | all or nothing per version |
| **Audit batch** `rt/audit_batch.rs` | queue of rows, driver flag, generation in flight, abandoned appends, physical reservations | submit, spawn the supervisor, take, append with retries, abandon, shed, answer, drain, physical close | a store that hangs or lands late, a supervisor that dies with rows in hand, a submission between its last look and its exit, a close racing all of it | one driver while rows wait; true answers; a close is a barrier; nobody waits for the store |
| **Background admission** `rt/resource_admission.rs` | start gate, class permits, leases, job counters, coordinator thread | admit, run, finalize, spawn a blocking child, cancel, close, shut down | cancellation while granted, a child that outlives its supervisor, notifications between a look and a wait, bounded shutdown | permits and counts given back exactly once; a closed domain comes to rest |
| Daemon `rt/daemon/*` | boot lock, PID file, socket | boot, serve, drain | two daemons racing, stale sockets | one daemon per socket |
| Streams `rt/streams.rs` | log and cursors | append, read, truncate | truncation under a reader | monotone cursors |
| Runtime operations, curation, retrieval `rt/operations.rs` and others | none of their own | planning of SQL per request | they use the write paths above | per-request validation |
| **KG proposals** `crates/khive-pack-kg` | proposal rows and events | propose, review, withdraw, apply, clean up | approval, withdrawal and a second apply race; a lost acknowledgement of any of three transactions | the graph takes a changeset at most once and as approved; the row is the fold of its events |
| GTD `crates/khive-pack-gtd` | tasks, dependencies | transition, assign, complete | dependency cycles | status machine |
| **Blob uploads** `crates/khive-pack-blob/src/uploads.rs`, `db/stores/blob_upload*.rs` | records and slots per process; staging and lease files in a shared root | begin, put part, commit, abort, renew, sweep | a cancelled request whose job runs on, sweeps of other processes, partial failures, crash and restart | a live upload keeps what it accepted; staging and slots come back |
| **Outbox** `crates/khive-mcp/src/serve_outbox.rs`, `rt/curation/outbound_messages.rs` | message rows (Message-ID, outcome, deadline, hold), loops of overlapping daemons | scan, verify, claim, send, stamp, hold, diagnose | crash between send and stamp, two daemons on one row, domains that change | sent under one Message-ID; a recorded outcome is final; every message settles |
| Schedules `crates/khive-pack-schedule` | scheduled rows | fire, repeat | a missed or doubled firing | each occurrence fires once |
| Search, scoring, query language, merge, transports | indexes, text | pure or I/O | none of concurrency | numeric or textual |

### How the parts interact

All writes to a database file pass through one of two doors: the writer task (a
channel with one consumer) or a direct write unit. Both ask `WriteAdmission`,
which looks at the pool's poison flag and takes the volume lease; the lease
excludes the other threads and processes on the volume. Inside it a pooled unit
takes the pooled writer's mutex, a standalone unit opens its own connection and
the task uses the one it owns. Readers hold permits and connections of their own
and meet the writers only when the pool has no readers: then a read is a guest
of the pooled writer. The checkpoint gate decides the `wal_autocheckpoint`
setting of every writer-capable connection and is consulted whenever one opens.
Everything above (packs, daemon, workers) calls these doors.

The other modelled parts are clients of them and see the store through its
answers only: a call is acknowledged, refused, or lost (done although the caller
was told of an error). Their models therefore take the store as a component that
gives any of these answers at any time, the assumption that `WriteContract`
supports, with `SideEffectsUnknown` as the reason for "lost". The audit batch is
filled by request handlers and drained by the daemon's shutdown; warm-up and
maintenance jobs run in the domain of the background admission; proposals and uploads
are driven by the requests of several clients at once; outbox loops are
components of a daemon whose supervisor restarts them.

`PROJECT.json` lists all components with their status, and all hazards with the
line where each bites and the properties that cover it.

## 2. Modules

| Module | Models | Role |
| --- | --- | --- |
| `WriteContract` | what either door promises a caller | abstract specification |
| `WriterTask` | writer task, its callers, a direct writer beside it | implements `WriteContract` |
| `DirectWriter` | pooled and standalone write units and the guests of the pooled writer | implements `WriteContract` |
| `VolumeLease` | process slot, queue, condvar and file lock of one volume | what both doors use as `lease` |
| `ReaderPool` | permits, queue, checkout, explicit read transactions | |
| `CheckpointGate` | ownership gate, claims, opens, pooled writer | |
| `AuditBatch` | queue, supervisor, append tasks, reapers, closers of the audit batch | |
| `BackgroundAdmission` | admission, leases, supervisors, blocking children and shutdown of a domain | |
| `Proposals` | propose, review, withdraw and the apply worker over row, event log and graph | |
| `BlobUploads` | upload manager of one process, filesystem store and sweeps of several | |
| `Outbox` | delivery loops of overlapping daemons over message rows | |
| `WriterTaskProofs`, `AuditBatchProofs`, `BackgroundAdmissionProofs`, `ProposalsProofs`, `BlobUploadsProofs`, `OutboxProofs` | | theorems about the module of that name |
| `DirectWriterProofs` | | theorems about `DirectWriter` and about `VolumeLease` |
| `ConnectionPoolProofs` | | theorems about `ReaderPool` and about `CheckpointGate` |
| `MC*` | | instances for TLC |

Definitions introduced by "Fault:" in a comment are deliberate errors used to
show that a property can fail. No specification uses them.

### State and actions against the code

**WriterTask.** `waiters`, `queue`, `closed` and the phase `"permit"` are the
tokio bounded channel: `reserve()` waits in arrival order, a permit holds a slot
before its message is sent, and a permit taken before `close()` still delivers.
`Offer` to `CallerCancels` are `enqueue_inner` and the entry points around it;
`depth` and `metricsBad` are `WriterAdmissionMetrics`. `pc` walks
`run_writer_task`: `Recv`, the autocommit check (`Dispatch*`), `acquire`
(`Lease*`), then either the top-level run or span, BEGIN with its two retries,
capacity, body, COMMIT, ROLLBACK, span drop, reply, retirement, release.
`ClosureLost` is the join error. `landed` records how much of a request's writes
the database holds; it is history, as are `ran` and `began`. What SQLite answers
and what a closure does are free choices, constrained only by what `is_autocommit()`
proves: a transaction that is still open has landed nothing. The lease is an
atomic lock here; `VolumeLease` is the detailed one.

**VolumeLease.** One section under the registry mutex is one action. The
`notify_all` after it is a separate action, because the mutex has been dropped by
then. `OtherVolumeNotifies` stands for the other volumes that share the condvar.
`Crash` ends a process in any state; the operating system releases its lock.

**DirectWriter.** `pc` follows `writer_checkout` or `standalone_write_unit`, then
the unit's `transaction` or `autocommit`, then the `Drop`s in field order. The
pooled connection is `"auto"`, `"txn"`, `"tainted"` (state a guest left), `"closed"`
(replaced by the in-memory spare that refuses everything) or `"leaked"`.

**ReaderPool.** `reader_until`, `reader_with_admission`, `ReaderGuard::drop`,
`return_reader` and `replace_discarded_reader_slot` for threads;
`use_explicit_transaction_handle` and `execute_standalone_read` for spans. A
connection is clean, in a transaction, tainted, or closed.

**CheckpointGate.** An opener holds the gate's mutex while it applies its PRAGMA
(`OpenSelects` to `OpenApplies`), which is where a claim could interfere.
Threads waiting on the condvar are `"asleep"`; `NotifyAll` wakes them.

**AuditBatch.** Whatever the code does under the state's mutex is one action.
`Submit*` are `submit`; `sup`, `hand` and `verdict` walk the supervisor's loop
(take a generation, await the child, answer, look again, leave); `appends` are
the child tasks, with the number of the attempt and who awaits them. A supervisor
that has left its loop still owns its physical reservation (`exiting`).
`stored` is the store, `adrift` the appends that reported an error and may yet
land. `active`, `inFlight`, `outstanding` and `physical` are the code's counters.

**BackgroundAdmission.** `Holders(j)` is the `Arc` of a lease: the caller, the
supervisor, the blocking child. `news` is the watch channel: who was notified and
has not looked since. The coordinator thread checks the gate, waits, drains,
drops its runtime and exits; `join` is the reaper's `JoinState`. What a body does
is its own choice.

**Proposals.** A request is its place in `handle_review`, `handle_withdraw` or
`maybe_apply`, with what it read. Each of the three transactions (guarded event,
changeset, finalization) is a store call with an acknowledgement from `Acks`.
`troubled` marks proposals for which one failed or whose request was given up; it
is history, and says when the weaker promises hold.

**BlobUploads.** `op` is the operation that holds a record's lock, with the state
of its store job; `jobs` are the jobs on blocking threads, which go on when the
request is gone. `staged`, `lease` and `wall` are the two files and their age,
`seen` what each process's sweep remembers. Time goes in ticks. `Taken` are the
slots in use, a pair of actor and number for each: its cardinality is the sum over
the actors that `reserve` compares with the ceiling.

**Outbox.** `page` and `snap` are the snapshots a pass works from, `cur`, `id`
and `job` the message in hand, its Message-ID and the change of its row that is
under way. Each change is a load with its checks (`Checked`) and a
compare-and-set (`Replaces`), which `fresh` decides: it is lost when another
worker wrote the row after the load. `used` and `taken` record what the
transport got; `excused` the messages for which a second acceptance is owed to
something the code cannot see, a lost stamp or answer or an overlap of passes.

## 3. Runs

| Run | Checks | States |
| --- | --- | --- |
| `writer_task` | answers are true and stay true; a request is settled in order (the lease covers the open transaction, the span ends before the answer); the pending gauge and busy counters are exact; refinement of `WriteContract` | 2.4 M |
| `writer_task_live` | all four kinds, BEGINs that fail and leave a transaction open: no request starts inside somebody else's transaction; accepted requests are answered and suspended callers resume | 363 k |
| `volume_lease` | exclusion over processes, entry bookkeeping, FIFO, no lost wakeup, with timeouts and crashes; a queued thread gets its turn | 170 k |
| `direct_writer` | the idle pooled writer is clean; what cannot be settled is under the lease, poisons and is reported; a retired writer serves nobody; refinement of `WriteContract`; every write returns although a guest keeps the mutex forever | 870 k |
| `reader_pool` | a permit finds a connection; slots conserved; isolation; snapshots within budget | 358 k |
| `checkpoint_gate` | a claim is atomic for every open; settled postures; honest claims; the task's connection is reached; claims and opens end | 40 k |
| `audit_batch` | one driver, exact reservations, bounded abandonment; true answers; closes are barriers; rows and the drain end without the store | 398 k |
| `background_admission` | permits, counters and missing finalizations are exact and a quiet report stays right; a closed domain comes to rest | 693 k |
| `proposals` | the graph follows the verdict; the row is the fold of the log; the claim excludes and is accounted for; an approval is answered | 819 k |
| `blob_uploads` | slots are exact; a live upload is intact; staging is reclaimed | 155 k |
| `outbox` | one Message-ID per message, and duplicates only where they are owed to a loss or an overlap; rows only move forward and every message settles | 100 k |

One run ends in a violation on purpose. `failed_means_not_committed` states that
a proposal announced as failed is not in the graph. ADR-046 says the worker
"reverts to `'approved'` only when failure is known to precede the durable
changeset commit". The canonical path keeps to that. For other changesets and
merges every error of the transaction counts as a failed apply, also one that
follows a commit whose acknowledgement was lost; the run shows the proposal back
in `approved`, from where it can be withdrawn or proposed again. `proposals`
shows that nothing else leads there: without a lost answer, or for a canonical
changeset, `GraphFollowsVerdict` holds.

### Observations without a run

Smaller disagreements between text and code that the modelling brought up:

* `acquire` looks at the poison flag before it waits for the volume lease and not
  after (`db/pool/write_units.rs:223`), so a request that was already waiting
  when the admission was poisoned still runs, while line 124 says every later
  write is refused before it starts. Nothing untrue is answered in consequence.
* A request refused by the capacity check after its BEGIN succeeded is not
  counted as an acquisition, and a closure that fails to join is not counted
  among the side-effects-unknown outcomes; the descriptions of both counters say
  otherwise.
* `rt/audit_batch.rs:707` logs of a generation whose last attempt failed that
  "its rows were not committed". The attempt may have landed, or land later.
* Merge proposals ignore a failed reindex after the commit, which ADR-046 has
  the worker leave for reconciliation.
* The outbox scan takes the newest 200 pending rows. Rows that wait for the
  suppression mirror are not backed off, so more than 200 of them would hide
  older ones while the mirror is down. A held message whose diagnostic can never
  be written fails every pass before its scan. The models leave the page bound
  out and assume that such failures end.

### Bounds and why they suffice

* `writer_task`: 3 requests, 1 slot, 3 kinds. One request is in service, one holds
  the slot or a permit, one waits; that is every role a request can have. With
  one slot, full and empty alternate at every step. Vacuum differs from a
  top-level request only in its capacity check; the live run includes it.
* `writer_task_live`: 2 requests (one that leaks or fails, the next) of all kinds.
  `BeginMayLeak` is off in the first run, because the leak is a defect of SQLite
  that the code defends against, and is on here.
* `BeginRetries` is the code's 2, not a bound.
* `volume_lease`: three threads of one process (holder, front waiter, one behind
  it) and one thread of another process. Liveness is about the queue inside a
  process: the file lock is polled and promises no order between processes.
* `direct_writer`: 3 units of any combination of the five kinds: a holder, a
  waiter behind it for lease or mutex, an arrival at any moment. Units differ in
  their kind only, so `SortedSpec` takes sorted assignments of kinds.
* `reader_pool`: 2 permits, 3 reads, 2 spans: contention and both kinds waiting.
  4 connections, so two replacements; after that a replacement can only fail.
* `checkpoint_gate`: 3 claimers (one claims, one joins, one takes over after a
  failure), the task's open and another.
* `audit_batch`: 3 rows, generations of 2, a queue of 2, 2 attempts, 1 abandoned
  append: one row hangs in an append, one is in the next generation or shed, one
  meets a full queue, a close or a supervisor on its way out. `OrderedSpec`
  numbers rows by arrival; they differ in nothing else, except that the row in
  conflict with the store is always the second.
* `background_admission`: 1 permit and 2 jobs. The first does all a job can do;
  the second waits for the permit and has a plain body (`PlainSpec`). Two
  unrestricted jobs were checked once for `AdmissionExact` alone (10.6 M states).
* `proposals`: 1 proposal of each kind and proposer, since proposals share no
  state, and 3 requests beside the one that proposes: an approval that applies,
  one that races it, a withdrawal or a second apply after a failure.
  `OrderedSpec` numbers the requests.
* `blob_uploads`: 2 uploads and 2 processes, 1 slot, 2 parts, 1 crash, clocks of 2
  ticks: long enough that an upload is idle, then stale for a sweep, at different
  times. `ReducedSpec` keeps the second upload to what the two share, the slots:
  it begins when no file of the first exists and sends no part. With one slot
  they do not overlap, and with one upload per actor the ceiling per actor
  cannot bind; the theorem `SlotsAreExact` covers both. The renewals of a lease
  stop at `MaxSeq = 2`, where the code's limit is that of a u64: a client that
  sends the same part again for ever is thereby stopped early.
* `outbox`: 1 message (rows are independent), 2 daemons, the later one with
  another domain and the earlier one's as history, 2 crashes. `taken` stops at 2:
  two acceptances are a duplicate, more say nothing new.
* Bounds that the code does not have are the number of requests, rows, jobs and
  crashes, and `MaxSeq` of the uploads. No other counter is capped.

Symmetry is used in `writer_task` (requests) and `reader_pool` (reads, spans and
connections), which have no liveness properties.

### Fairness

* Writer task: weak fairness of the task and of a caller's resumption (the tokio
  runtime polls what is woken; lease wait and BEGIN attempts have deadlines, so
  the closure always has a next step). Nothing is assumed of the direct writer,
  of deadlines, or of cancellation.
* Volume lease: weak fairness of threads that are awake, hold the lease or must
  notify. Deadlines need not fire, so the result is not "it times out in the end".
* Direct writer: weak fairness of writes. Guests get none: one may hold the mutex
  forever, and `checkout_timeout` is what lets the writer out.
* Checkpoint gate: weak fairness, and strong fairness for taking the gate's
  mutex, which other openers take and release in between: parking_lot's mutex is
  eventually fair.
* Audit batch: weak fairness of the supervisor, of its exit, of a caller that is
  to spawn it and of closers. Nothing is assumed of the store: an append may hang
  forever, and the supervisor's own deadline is a step it can take.
* Background admission: weak fairness of tasks that were woken, of timers, of the
  coordinator, the reaper and the shutdown call. Bodies and started blocking
  children may run forever.
* Proposals: weak fairness of a request that was not given up.
* Blob uploads: the clock goes on, tasks are polled, blocking jobs end; strong
  fairness of the sweep's turns, because its two locks queue their waiters and a
  failed sweep or abort is tried again. Nothing is assumed of clients.
* Outbox: weak fairness of loops, boots, restarts and deadlines, and from some
  moment on only `Undisturbed` steps: the store, the policy's sources and the
  transport stop failing, while daemons still crash, and conflicts and lost races
  between two daemons may go on for ever. They keep a message from settling only
  in one way. A claim that conflicts is retried as a transient failure
  (`channel_poll.rs:860`), and the write that records the retry changes the row, so
  it can spoil the claim of the other daemon, whose own retry write can spoil the
  first one's next claim, and so on. This needs a retry write that is still under
  way when the backoff of the row has run out. `Fairness` assumes that from some
  moment on the backoff, which doubles from 5 s to 30 min (`outbound_messages.rs`,
  `outbound_retry_properties`), outlasts a change under way; without that conjunct
  TLC finds the loop. A refused account, or a supervisor out of restarts, ends a
  loop, and if all have ended mail stays.

## 4. Proofs

All proofs hold for every value of the constants under the named assumptions of
the modules (finite sets of threads where they are counted, positive capacities,
distinguished "nobody" values outside the sets).

| Theorem | States |
| --- | --- |
| `WriterTaskProofs!TypeCorrect` | the type invariant |
| `WriterTaskProofs!RepliesAreTruthful` | `TruthfulReplies` |
| `WriterTaskProofs!ContractImplemented` | the writer task implements `WriteContract` |
| `WriterTaskProofs!ClosuresStartClean` | `CleanStart`, an action property |
| `WriterTaskProofs!SettlesInOrder` | `OrderlySettlement`, where a failed BEGIN opens nothing |
| `WriterTaskProofs!MetricsAreExact` | `CountersExact` |
| `DirectWriterProofs!LeaseExcludes`, `SlotIsExact`, `EntriesReclaimed`, `FileFreedBeforeSlot` | exclusion and the bookkeeping it rests on |
| `DirectWriterProofs!WakeupsArrive`, `GrantsFollowArrival` | `NoLostWakeup`; the action property `GrantsInArrivalOrder` |
| `DirectWriterProofs!TypeCorrect`, `IdleWriterIsClean`, `LossStaysContained`, `RetiredWriterServesNobody` | the run's safety properties; the last is an action property |
| `DirectWriterProofs!ContractImplemented` | direct units implement `WriteContract` too |
| `ConnectionPoolProofs!PermitsAreExact`, `SlotsAreConserved`, `ReadersAreIsolated`, `PermitMeansReader`, `SnapshotsAreBounded` | conservation and isolation |
| `ConnectionPoolProofs!PostureSettled`, `ClaimsAreHonest`, `ClaimsExclude`, `TaskIsReached`, `OpensLinearize` | the gate; the last one is an action property |
| `AuditBatchProofs!DriverIsExact`, `AnswersAreTruthful`, `ClosesAreBarriers` | `DriverExact`, `TruthfulAnswers`, `CloseIsBarrier` |
| `ProposalsProofs!TypeCorrect`, `GraphFollows`, `ClaimsAccounted` | `TypeOK`, `GraphFollowsVerdict`, `ClaimIsAccounted` |
| `ProposalsProofs!LogIsConsistent` | no log holds two verdicts that exclude each other |
| `BackgroundAdmissionProofs!AdmissionIsExact` | `AdmissionExact` |
| `BlobUploadsProofs!LiveUploadsIntact`, `SlotsAreExact` | `LiveUploadIntact`, `SlotsExact` |
| `OutboxProofs!TypeCorrect`, `SendsAreAccounted`, `RowsAreFinal` | `TypeOK`, `SendsAccounted`; the action property `RowIsFinal` |

**WriterTask.** `TruthfulReplies` speaks of answers already given, so it is not
inductive. `TruthInv` adds that a request is in one place at a time
(`QueueInv`, `ServiceInv`), that one not yet dequeued is untouched (`ReplyInv`),
and that the outcome the closure holds is already true before it is sent, with
what the open transaction proves at each step (`OutcomeInv`). The callers, the
task and the direct writer each have their lemma, with one step per action. The
refinement reuses `TruthInv`: `cur` is the request in service, `reply` the answer
and `landed` the database; every step is a step of the contract or a stutter.

`CleanStart` needs to know in which state the task's connection is at every step
(`StartInv`). `OrderlySettlement` adds who holds the lease and when the span is
open (`OrderInv`). It has the hypothesis `~BeginMayLeak`, under which the run
checks it as well: after a BEGIN that failed and left a transaction the task
hands the connection back inside it, and the next request's check is what
finds it (`CleanStart` is proved without the hypothesis). The counters are
compared with sets of requests (`AccountInv`); `Counts(S, n)` says that a set has
n members, so that a step only has to add or remove one and the set of all
requests need not be finite.

**VolumeLease.** `LeaseInv` joins exclusion with `SlotMatchesHolder` and
`EntryReclaimed`: the fast path of `acquire_process_slot` is safe only because
an awaited slot always has an entry. `WakeInv` adds that the queue holds each
waiter once and only waiters. With it no wakeup is lost, a grant goes to the
front of the queue, and nobody gets ahead of a queued thread (`OrderKept`: a step
leaves a queue as it is, appends, or takes one thread out).

**DirectWriter.** Lease and mutex are told by where each unit is (`HolderInv`), so
one unit at most is at work. `WorkInv` and `PoolInv` say in which state its
connection, and the pooled one between two units, can be; `LossInv` that what is
given up inside a transaction was reported. The contract needs `OutcomeInv`
beside them: a unit is untouched until its callback runs and its transaction
has ended, and its result is true from the moment it is chosen, not only when it
is handed over. Both doors are thus shown to implement the same specification.

**ReaderPool.** `IInv` joins the counting properties, isolation, and
`LeaseTracked` (what a leased connection carries at each point of its lease).
`PermitFindsReader` follows by counting: with a permit in hand and no recorded
loss, fewer slots are occupied than exist. The set-cardinality steps are in
`CardStep`.

**CheckpointGate.** `GateIInv` adds who holds the gate (`GateHeld`), what a claim in
flight has done (`ClaimProgress`), that connections keep the fallback until the
claim is published (`UnclaimedPages`), and that a connection once reached stays
reached (`TaskReached`).

**AuditBatch.** The appends are a set of records, and the counters compare with
its cardinality, so the first thing to show is that no two of them can become
the same record: no append is without rows and no two share one (`ShapeInv`),
because a row is in the queue once, in hand, or answered (`RowInv`). One append at
most is the supervisor's own and has exactly the rows in hand (`OwnInv`);
`DriverInv` says who drives the queue at each step, `CountInv` adds up the tasks.
Truth needs more than the answers: `FateInv` says that a row that is stored, in an
append or adrift was sent, and hence neither refused nor shed, and `StoreInv` that a
child's outcome, then the verdict, is true before it is answered. The barrier
rests on `Quiet` (not open, nothing queued, no driver and nobody about to spawn
one), which no step leaves again (`CloseInv`).

**BackgroundAdmission.** `CountInv` says of which set of jobs each counter is the
cardinality, and every action of a job is reduced to what it does to that job
(`Moves`): each of the sets gains or loses the one job, or neither. `NothingEarly`
says that nothing of a job exists before its admission, so that admission does
not count it twice; `ExitInv` that the coordinator leaves only a closed gate and
nothing running, from which "no outstanding job", once told, stays true
(`QuietInv`).

**Proposals.** The proof first reduces every action to what the invariant can
see of it: where the apply worker of a proposal is (`Moves`), which event was
added (`Says`), the new status (`Turns`), whether the proposal is troubled.
Proposals are independent, so only the one a step concerns needs an argument
(`OnlyHere`). The invariant is `RowInv` (every resolved status is final, an
approval is given once and by somebody entitled to), `WorkerInv` (the apply
worker is unique because an approval can be recorded only once; the changeset
goes in between its claim and its post-commit step) and `GraphInv`. That the
reviewer of an approval in flight was entitled is remembered from the read to
the record (`EntitledInv`).

**BlobUploads.** A live upload is intact only because of what is true while it is
not live: `JobInv` says that a process runs one job at a time and that a job
whose request is gone keeps its record in flight or aborted, `OpInv` and
`StagedInv` what the file holds at each point of an operation, so that a result
that comes back finds the staging it speaks of. Against the sweeps of other
processes stands `SeenInv`: a sweep has not watched the present renewal of a lease
for longer than it is old, and the lease of a record is no older than the record
thinks (`Fresh`), so that a lease the sweep may take belongs to a record that has
expired. `SlotInv` counts, through `Taken`. The proof needs the constant `None` to
be no number and no sequence of parts (`NoneAssumption`), as the code's `None` is.

**Outbox.** The 24 actions of a worker are reduced to ten kinds of move
(`WorkerMoves`). `FreshInv` is the heart: a compare-and-set that can still succeed
writes what its checks allowed on the very row it replaces, because whoever
wrote in between made it stale. `IdInv` follows the Message-ID from snapshot to
send, `PassInv` says that a message without an excuse is in one pass at most and
in none once its outcome is recorded, `StampInv` and `NoteInv` that what a row
records has happened.

**Model-checked only.** All liveness, and with it the rest of `MailSettles`:
fairness is outside what the prover handles. `RowIsFoldOfLog` of the proposals,
which is about a fold over a sequence of any length and needs induction over
data. Every other safety property of the runs is proved.

## 5. Not modelled

* Latency histograms, slow-write rows, labels, log lines: no control flow reads them.
* The capacity probe and the probing of lock directories: I/O; in the writer
  modules a probe is a refusal that may or may not happen.
* In-memory pools (no lease, no file identity), read-only pools, migration units
  and the error mapping of `execute_direct_transaction`.
* Reads on a standalone writer handle (`sql_bridge`), which also take a permit.
* The claim's release: no code releases a claim. A pool whose checkpoint task
  stopped keeps `wal_autocheckpoint = 0`; listed as a hazard without a property.
* A supervisor of the audit batch that the runtime drops at shutdown before its
  first poll: the process ends with it.
* Temporary lease files that a crash inside `lease::publish` leaves: no sweep
  recognises them, and nothing reads them.
* Of the modelled parts above the store: health counters that nothing reads
  back; hashing, paths and directory durability of uploads; the reconcile command
  for proposals left applying; the outbox's page bound, several mailboxes, the
  Telegram loop (the same loop without claim and policy), deleted messages and
  callers that stamp `delivered_at` themselves.
* Vector and text indexes, scoring, fusion: floating point. Parsers and text.
  Network channels, MCP transport, command line: I/O over the parts above.
* Capability and gate decisions: single-request functions without shared state.

## 6. Plan

Done: the write doors, the lease under them, the readers and the gate; above
them the audit batch, background admission, proposals, uploads and the outbox.
All are model-checked, and all have their safety proved, the fold of the
proposals' log excepted. Left, in this order:

1. `CheckpointTask`: pressure episodes and lifecycle queue, on top of the gate.
2. Composition: one admission shared by a writer task and direct units, with the
   atomic lease of both shown to be implemented by `VolumeLease`.
3. `DaemonBoot`, `Schedules`, `GtdLifecycle`, `Streams` as far as their code has
   behaviour beyond one request.

## 7. Running it

    tlc -workers 2 -config WriterTask.cfg MCWriterTask
    tlapm WriterTaskProofs.tla

`PROJECT.json` names the module and configuration of every run, and maps each
definition to the lines it models.
