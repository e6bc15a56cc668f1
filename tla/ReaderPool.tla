----------------------------- MODULE ReaderPool -----------------------------
(***************************************************************************)
(* The reader side of khive-db's ConnectionPool: a semaphore of admission  *)
(* permits, an array queue of physical reader connections, and the two     *)
(* kinds of reader that share the permits (ADR-165, ADR-005/ADR-091):      *)
(*                                                                         *)
(*  - Thread: an ordinary read.  It takes a permit, pops a connection,     *)
(*    reads, and its ReaderGuard gives both back: the connection is reset  *)
(*    and requeued, or closed and replaced, and only then is the permit    *)
(*    released;                                                            *)
(*  - Span: an explicit deferred read transaction on a connection of its   *)
(*    own (sql_bridge).  It holds a permit while it opens the connection   *)
(*    and, once BEGIN succeeded, until the transaction is over.            *)
(*                                                                         *)
(* The degraded mode max_readers = 0 (one shared connection) is not here.  *)
(* When a deadline fires, what SQLite leaves on a connection and whether   *)
(* an open succeeds are nondeterministic.                                  *)
(***************************************************************************)
EXTENDS Naturals, Sequences, FiniteSets

CONSTANTS
    Thread,      \* ordinary reads
    Span,        \* explicit read transactions
    Conn,        \* physical reader connections a behaviour may open
    NoConn,      \* no connection is leased
    MaxReaders,  \* permits, and slots of the reader queue
    FirstConns   \* the connections opened by ConnectionPool::new

ASSUME MaxReadersAssumption == MaxReaders \in Nat \ {0}
ASSUME ThreadAssumption == IsFiniteSet(Thread) /\ IsFiniteSet(Span)
ASSUME ConnAssumption ==
    /\ NoConn \notin Conn
    /\ FirstConns \in Seq(Conn)
    /\ Len(FirstConns) = MaxReaders
    /\ \A i, j \in 1 .. MaxReaders : FirstConns[i] = FirstConns[j] => i = j

VARIABLES
    pc,        \* where each ordinary read is
    lease,     \* the connection its guard holds
    dirty,     \* ReaderGuard::dirty
    reusable,  \* ReaderGuard::reusable
    span,      \* where each explicit read transaction is
    permits,   \* sql_bridge_reader_slots.available_permits()
    readers,   \* the queue of idle reader connections
    conn,      \* what each connection carries
    discards,  \* counter reader_discards
    shrunk     \* counter reader_replacement_open_failures

threadVars == <<pc, lease, dirty, reusable>>
poolVars   == <<readers, conn, discards, shrunk>>
vars == <<threadVars, span, permits, poolVars>>

PCs == {"idle", "admission", "picking", "reading", "returning", "refilling",
        "releasing"}
SpanPCs == {"none", "openWait", "opening", "beginWait", "beginning", "open",
            "discarding", "closing"}

\* What a connection carries: nothing, an open transaction, or TEMP objects,
\* attachments, changed settings or a leftover progress handler.
ConnStates == {"unopened", "clean", "inTxn", "tainted", "closed"}

TypeOK ==
    /\ pc \in [Thread -> PCs]
    /\ lease \in [Thread -> Conn \cup {NoConn}]
    /\ dirty \in [Thread -> BOOLEAN]
    /\ reusable \in [Thread -> BOOLEAN]
    /\ span \in [Span -> SpanPCs]
    /\ permits \in Nat
    /\ readers \in Seq(Conn)
    /\ conn \in [Conn -> ConnStates]
    /\ discards \in Nat
    /\ shrunk \in Nat

\* ConnectionPool::new fills the queue; a failed open fails construction.
Init ==
    /\ pc = [t \in Thread |-> "idle"]
    /\ lease = [t \in Thread |-> NoConn]
    /\ dirty = [t \in Thread |-> FALSE]
    /\ reusable = [t \in Thread |-> TRUE]
    /\ span = [s \in Span |-> "none"]
    /\ permits = MaxReaders
    /\ readers = FirstConns
    /\ conn = [c \in Conn |-> IF \E i \in 1 .. MaxReaders : FirstConns[i] = c
                                THEN "clean" ELSE "unopened"]
    /\ discards = 0
    /\ shrunk = 0

Goto(t, l) == pc' = [pc EXCEPT ![t] = l]
SpanGoto(s, l) == span' = [span EXCEPT ![s] = l]

-----------------------------------------------------------------------------
(* Ordinary reads: reader_until, acquire_reader_admission.                 *)

AskForReader(t) ==
    /\ pc[t] = "idle"
    /\ Goto(t, "admission")
    /\ UNCHANGED <<lease, dirty, reusable, span, permits, poolVars>>

\* The permit loop of reader_until, or acquire_owned: a permit is taken.
Admit(t) ==
    /\ pc[t] = "admission"
    /\ permits > 0
    /\ permits' = permits - 1
    /\ Goto(t, "picking")
    /\ UNCHANGED <<lease, dirty, reusable, span, poolVars>>

\* The request stops, or checkout_timeout elapses, before a permit is taken.
AdmissionEnds(t) ==
    /\ pc[t] = "admission"
    /\ Goto(t, "idle")
    /\ UNCHANGED <<lease, dirty, reusable, span, permits, poolVars>>

\* reader_with_admission: a connection is popped.
Pick(t) ==
    /\ pc[t] = "picking"
    /\ readers # <<>>
    /\ lease' = [lease EXCEPT ![t] = Head(readers)]
    /\ readers' = Tail(readers)
    /\ dirty' = [dirty EXCEPT ![t] = FALSE]
    /\ reusable' = [reusable EXCEPT ![t] = TRUE]
    /\ Goto(t, "reading")
    /\ UNCHANGED <<span, permits, conn, discards, shrunk>>

\* The request stopped before a connection was popped.
PickStopped(t) ==
    /\ pc[t] = "picking"
    /\ permits' = permits + 1
    /\ Goto(t, "idle")
    /\ UNCHANGED <<lease, dirty, reusable, span, poolVars>>

\* The rest of checkout_timeout elapses with the queue empty: exhausted.
PickTimesOut(t) ==
    /\ pc[t] = "picking"
    /\ readers = <<>>
    /\ permits' = permits + 1
    /\ Goto(t, "idle")
    /\ UNCHANGED <<lease, dirty, reusable, span, poolVars>>

\* A typed store read: it may be cut off inside a transaction, and never
\* leaves connection-local state.
TypedRead(t) ==
    /\ pc[t] = "reading"
    /\ \E left \in {"clean", "inTxn"} : conn' = [conn EXCEPT ![lease[t]] = left]
    /\ Goto(t, "returning")
    /\ UNCHANGED <<lease, dirty, reusable, span, permits, readers, discards, shrunk>>

\* Raw SQL: run_pool_reader_query and query_row mark the checkout dirty before
\* the statement, which may leave anything behind.
RawRead(t) ==
    /\ pc[t] = "reading"
    /\ dirty' = [dirty EXCEPT ![t] = TRUE]
    /\ \E left \in {"clean", "inTxn", "tainted"} :
         conn' = [conn EXCEPT ![lease[t]] = left]
    /\ Goto(t, "returning")
    /\ UNCHANGED <<lease, reusable, span, permits, readers, discards, shrunk>>

\* The progress handler of a read could not be removed, or a stateful store
\* read ended inside its transaction: the lease is not reusable (discard).
ReadQuarantined(t) ==
    /\ pc[t] = "reading"
    /\ reusable' = [reusable EXCEPT ![t] = FALSE]
    /\ conn' = [conn EXCEPT ![lease[t]] = "tainted"]
    /\ Goto(t, "returning")
    /\ UNCHANGED <<lease, dirty, span, permits, readers, discards, shrunk>>

-----------------------------------------------------------------------------
(* ReaderGuard::drop.                                                      *)

\* enqueue_reader_slot: a full queue drops the connection it is given.
Enqueue(c, put) ==
    IF Len(readers) < MaxReaders
      THEN readers' = Append(readers, c) /\ conn' = [conn EXCEPT ![c] = put]
      ELSE UNCHANGED readers /\ conn' = [conn EXCEPT ![c] = "closed"]

\* Fault: the pristine scan is skipped.
ResetPassesUnscanned(t) == TRUE

\* reset_reader_connection on what the read left: an open transaction can be
\* rolled back, and a dirty checkout pays the pristine scan.
ResetPasses(t) == dirty[t] => conn[lease[t]] # "tainted"

\* return_reader: reset, healthy and within its limits, back to the queue.
ReturnReader(t) ==
    /\ pc[t] = "returning"
    /\ reusable[t]
    /\ ResetPasses(t)
    /\ Enqueue(lease[t], IF conn[lease[t]] = "inTxn" THEN "clean" ELSE conn[lease[t]])
    /\ lease' = [lease EXCEPT ![t] = NoConn]
    /\ Goto(t, "releasing")
    /\ UNCHANGED <<dirty, reusable, span, permits, discards, shrunk>>

\* Fault: a non-reusable lease is closed and its slot is not refilled.
DiscardWithoutRefill(t) ==
    /\ pc[t] = "returning"
    /\ conn' = [conn EXCEPT ![lease[t]] = "closed"]
    /\ lease' = [lease EXCEPT ![t] = NoConn]
    /\ discards' = discards + 1
    /\ Goto(t, IF reusable[t] THEN "refilling" ELSE "releasing")
    /\ UNCHANGED <<dirty, reusable, span, permits, readers, shrunk>>

\* Fault: the permit is returned before the replacement is attempted.
DiscardReaderReleasing(t) ==
    /\ pc[t] = "returning"
    /\ conn' = [conn EXCEPT ![lease[t]] = "closed"]
    /\ lease' = [lease EXCEPT ![t] = NoConn]
    /\ discards' = discards + 1
    /\ permits' = permits + 1
    /\ Goto(t, "refilling")
    /\ UNCHANGED <<dirty, reusable, span, readers, shrunk>>

\* Not reusable, past its age or use limit, not resettable or not healthy:
\* closed, and counted before the replacement is attempted.
DiscardReader(t) ==
    /\ pc[t] = "returning"
    /\ conn' = [conn EXCEPT ![lease[t]] = "closed"]
    /\ lease' = [lease EXCEPT ![t] = NoConn]
    /\ discards' = discards + 1
    /\ Goto(t, "refilling")
    /\ UNCHANGED <<dirty, reusable, span, permits, readers, shrunk>>

\* replace_discarded_reader_slot: a fresh connection takes the slot.
Refill(t) ==
    /\ pc[t] = "refilling"
    /\ \E c \in Conn : conn[c] = "unopened" /\ Enqueue(c, "clean")
    /\ Goto(t, "releasing")
    /\ UNCHANGED <<lease, dirty, reusable, span, permits, discards, shrunk>>

\* ... or the open fails, and the physical pool has one slot less for good.
RefillFails(t) ==
    /\ pc[t] = "refilling"
    /\ shrunk' = shrunk + 1
    /\ Goto(t, "releasing")
    /\ UNCHANGED <<lease, dirty, reusable, span, permits, readers, conn, discards>>

\* drop(self.admission_slot.take()), then the completed-hold bookkeeping.
ReleasePermit(t) ==
    /\ pc[t] = "releasing"
    /\ permits' = permits + 1
    /\ Goto(t, "idle")
    /\ UNCHANGED <<lease, dirty, reusable, span, poolVars>>

-----------------------------------------------------------------------------
(* Explicit read transactions: SqliteReader and execute_standalone_read.   *)

SpanAsks(s) ==
    /\ span[s] = "none"
    /\ SpanGoto(s, "openWait")
    /\ UNCHANGED <<threadVars, permits, poolVars>>

\* acquire_reader_handle_slot, for the open and again for the BEGIN.
SpanAdmitted(s) ==
    /\ span[s] \in {"openWait", "beginWait"}
    /\ permits > 0
    /\ permits' = permits - 1
    /\ SpanGoto(s, IF span[s] = "openWait" THEN "opening" ELSE "beginning")
    /\ UNCHANGED <<threadVars, poolVars>>

\* The deadline or the request's cancellation ends the wait; a handle without
\* a transaction is closed.
SpanWaitEnds(s) ==
    /\ span[s] \in {"openWait", "beginWait"}
    /\ SpanGoto(s, "none")
    /\ UNCHANGED <<threadVars, permits, poolVars>>

\* open_explicit_read_transaction_handle: the open permit is dropped, whether
\* the connection opened (its BEGIN must be admitted anew) or not.
SpanOpened(s) ==
    /\ span[s] = "opening"
    /\ permits' = permits + 1
    /\ \E l \in {"beginWait", "none"} : SpanGoto(s, l)
    /\ UNCHANGED <<threadVars, poolVars>>

\* Fault: the operation permit is returned when BEGIN's call ends.
SpanBeginsReleasing(s) ==
    /\ span[s] = "beginning"
    /\ permits' = permits + 1
    /\ SpanGoto(s, "open")
    /\ UNCHANGED <<threadVars, poolVars>>

\* BEGIN opened a transaction: the operation permit moves into the handle.
SpanBegins(s) ==
    /\ span[s] = "beginning"
    /\ SpanGoto(s, "open")
    /\ UNCHANGED <<threadVars, permits, poolVars>>

\* BEGIN failed, opened nothing, or was interrupted and rolled back.
SpanBeginFails(s) ==
    /\ span[s] = "beginning"
    /\ SpanGoto(s, "closing")
    /\ UNCHANGED <<threadVars, permits, poolVars>>

\* A later call observes autocommit again: COMMIT or ROLLBACK, age eviction,
\* an interrupted statement rolled back, a transaction SQLite ended itself.
SpanEnds(s) ==
    /\ span[s] = "open"
    /\ SpanGoto(s, "closing")
    /\ UNCHANGED <<threadVars, permits, poolVars>>

\* The rollback proves nothing, the callback cleanup failed, or the caller
\* dropped the handle: the connection is dropped with its transaction open.
SpanDiscarded(s) ==
    /\ span[s] \in {"beginning", "open"}
    /\ SpanGoto(s, "discarding")
    /\ UNCHANGED <<threadVars, permits, poolVars>>

\* StandaloneHandle's field order: the connection closes first ...
SpanConnCloses(s) ==
    /\ span[s] = "discarding"
    /\ SpanGoto(s, "closing")
    /\ UNCHANGED <<threadVars, permits, poolVars>>

\* ... and the permit is returned after SQLite let go of the snapshot.
SpanReleases(s) ==
    /\ span[s] = "closing"
    /\ permits' = permits + 1
    /\ SpanGoto(s, "none")
    /\ UNCHANGED <<threadVars, poolVars>>

-----------------------------------------------------------------------------
ThreadStep(t) ==
    \/ AskForReader(t) \/ Admit(t) \/ AdmissionEnds(t)
    \/ Pick(t) \/ PickStopped(t) \/ PickTimesOut(t)
    \/ TypedRead(t) \/ RawRead(t) \/ ReadQuarantined(t)
    \/ ReturnReader(t) \/ DiscardReader(t)
    \/ Refill(t) \/ RefillFails(t) \/ ReleasePermit(t)

SpanStep(s) ==
    \/ SpanAsks(s) \/ SpanAdmitted(s) \/ SpanWaitEnds(s) \/ SpanOpened(s)
    \/ SpanBegins(s) \/ SpanBeginFails(s) \/ SpanEnds(s)
    \/ SpanDiscarded(s) \/ SpanConnCloses(s) \/ SpanReleases(s)

Next == (\E t \in Thread : ThreadStep(t)) \/ (\E s \in Span : SpanStep(s))

Spec == Init /\ [][Next]_vars

-----------------------------------------------------------------------------
(* Properties.                                                             *)

\* The reads that hold an admission permit, and the spans that do.
Admitted == {t \in Thread : pc[t] \notin {"idle", "admission"}}
SpanAdmissions == {s \in Span : span[s] \in {"opening", "beginning", "open",
                                              "discarding", "closing"}}

\* The reads that keep one physical slot of the pool out of the queue.
Occupied == {t \in Thread : pc[t] \in {"reading", "returning", "refilling"}}

\* A permit means a connection: whoever holds one and still looks for a
\* connection finds the queue non-empty, unless a failed replacement shrank
\* the pool.  ReaderGuard::drop gives the connection back before the permit,
\* and explicit transactions use up permits but no pooled connection.
PermitFindsReader ==
    \A t \in Thread : pc[t] = "picking" => readers # <<>> \/ shrunk > 0

\* No physical slot is lost or invented: queue, leases and replacements in
\* progress always make up max_readers less the recorded failures, and the
\* queue never has to drop a connection because it is full.
SlotsConserved == Len(readers) + Cardinality(Occupied) + shrunk = MaxReaders

\* A connection never reaches a second reader with the first one's state, and
\* never reaches two readers: what is queued is clean, and queued or leased once.
ReadersIsolated ==
    /\ \A i \in 1 .. Len(readers) : conn[readers[i]] = "clean"
    /\ \A i, j \in 1 .. Len(readers) : readers[i] = readers[j] => i = j
    /\ \A t \in Thread : lease[t] # NoConn =>
         /\ \A i \in 1 .. Len(readers) : readers[i] # lease[t]
         /\ \A u \in Thread : lease[u] = lease[t] => u = t

\* Permits are neither lost nor returned twice, on any path: stopped or timed
\* out checkouts, discarded leases, failed BEGINs, evictions, dropped handles.
PermitsExact ==
    permits + Cardinality(Admitted) + Cardinality(SpanAdmissions) = MaxReaders

\* The budget bounds what can pin the WAL: leased readers and explicit
\* transactions together never hold more than max_readers snapshots.
SnapshotBudget ==
    Cardinality({t \in Thread : pc[t] \in {"reading", "returning"}})
      + Cardinality({s \in Span : span[s] \in {"open", "discarding"}}) <= MaxReaders
=============================================================================
