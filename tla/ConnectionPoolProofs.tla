------------------------ MODULE ConnectionPoolProofs ------------------------
(***************************************************************************)
(* Proofs about the two components of ConnectionPool: first ReaderPool,    *)
(* for any number of permits, reads and explicit transactions, and then    *)
(* CheckpointGate.  ReaderPool's inductive invariant adds to the           *)
(* properties of the model what a leased connection carries at each point  *)
(* of its lease.                                                           *)
(***************************************************************************)
EXTENDS ReaderPool, CheckpointGate, FiniteSetTheorems, TLAPS

\* A guard holds a connection exactly while it reads or returns it; it starts
\* on a clean one, and taints it only on paths that Drop will not requeue.
LeaseTracked ==
    \A t \in Thread :
      /\ lease[t] # NoConn <=> pc[t] \in {"reading", "returning"}
      /\ lease[t] # NoConn => conn[lease[t]] \in {"clean", "inTxn", "tainted"}
      /\ pc[t] = "reading" => conn[lease[t]] = "clean" /\ ~dirty[t] /\ reusable[t]
      /\ pc[t] = "returning" /\ conn[lease[t]] = "tainted" => dirty[t] \/ ~reusable[t]

IInv ==
    /\ TypeOK
    /\ PermitsExact
    /\ SlotsConserved
    /\ ReadersIsolated
    /\ LeaseTracked

-----------------------------------------------------------------------------
\* Counting the members of a finite set as one of them comes or goes.
LEMMA CardStep ==
    ASSUME NEW T, IsFiniteSet(T), NEW A \in SUBSET T, NEW t \in T
    PROVE  /\ IsFiniteSet(A)
           /\ Cardinality(A) \in Nat
           /\ t \notin A => Cardinality(A \cup {t}) = Cardinality(A) + 1
           /\ t \in A => Cardinality(A \ {t}) = Cardinality(A) - 1
           /\ t \in A => Cardinality(A) > 0
<1>1. IsFiniteSet(A)
  BY FS_Subset
<1>2. Cardinality(A) \in Nat
  BY <1>1, FS_CardinalityType
<1>3. t \notin A => Cardinality(A \cup {t}) = Cardinality(A) + 1
  BY <1>1, FS_AddElement
<1>4. t \in A => Cardinality(A \ {t}) = Cardinality(A) - 1
  BY <1>1, FS_RemoveElement
<1>5. ASSUME t \in A PROVE Cardinality(A) > 0
  <2>1. Cardinality(A \ {t}) \in Nat
    BY <1>1, FS_Subset, FS_CardinalityType
  <2> QED
    BY <1>2, <1>4, <1>5, <2>1
<1> QED
  BY <1>1, <1>2, <1>3, <1>4, <1>5

\* The sets the counting properties are about are finite.
LEMMA CountedSets ==
    /\ Admitted \in SUBSET Thread
    /\ Occupied \in SUBSET Thread
    /\ SpanAdmissions \in SUBSET Span
    /\ Cardinality(Admitted) \in Nat
    /\ Cardinality(Occupied) \in Nat
    /\ Cardinality(SpanAdmissions) \in Nat
  BY ThreadAssumption, FS_Subset, FS_CardinalityType DEF Admitted, Occupied, SpanAdmissions

\* The initial states satisfy the invariant.
LEMMA InitIInv == ASSUME Init PROVE IInv
<1>1. Admitted = {} /\ Occupied = {} /\ SpanAdmissions = {}
  BY DEF Init, Admitted, Occupied, SpanAdmissions
<1>2. Cardinality({}) = 0
  BY FS_EmptySet
<1>3. TypeOK
  BY MaxReadersAssumption, ConnAssumption DEF Init, TypeOK, PCs, SpanPCs, ConnStates
<1>4. PermitsExact
  BY <1>1, <1>2, MaxReadersAssumption DEF Init, PermitsExact
<1>5. SlotsConserved
  BY <1>1, <1>2, ConnAssumption, MaxReadersAssumption DEF Init, SlotsConserved
<1>6. ReadersIsolated
  BY ConnAssumption DEF Init, ReadersIsolated
<1>7. LeaseTracked
  BY DEF Init, LeaseTracked
<1> QED
  BY <1>3, <1>4, <1>5, <1>6, <1>7 DEF IInv

-----------------------------------------------------------------------------
(* Types.                                                                  *)

LEMMA EnqueueType ==
    ASSUME TypeOK, NEW c \in Conn, NEW put \in ConnStates, Enqueue(c, put)
    PROVE  readers' \in Seq(Conn) /\ conn' \in [Conn -> ConnStates]
<1>1. readers \in Seq(Conn) /\ conn \in [Conn -> ConnStates] /\ "closed" \in ConnStates
  BY DEF TypeOK, ConnStates
<1>2. CASE Len(readers) < MaxReaders
  BY <1>1, <1>2 DEF Enqueue
<1>3. CASE ~(Len(readers) < MaxReaders)
  BY <1>1, <1>3 DEF Enqueue
<1> QED
  BY <1>2, <1>3

LEMMA ThreadType ==
    ASSUME IInv, NEW t \in Thread, ThreadStep(t)
    PROVE  TypeOK'
<1> USE DEF IInv, TypeOK, PCs, Goto, poolVars, threadVars
<1>1. CASE AskForReader(t) \/ Admit(t) \/ AdmissionEnds(t)
  BY <1>1 DEF AskForReader, Admit, AdmissionEnds
<1>2. CASE Pick(t)
  BY <1>2 DEF Pick
<1>3. CASE PickStopped(t) \/ PickTimesOut(t) \/ ReleasePermit(t)
  BY <1>3 DEF PickStopped, PickTimesOut, ReleasePermit
<1>4. CASE TypedRead(t) \/ RawRead(t) \/ ReadQuarantined(t)
  BY <1>4 DEF TypedRead, RawRead, ReadQuarantined, ConnStates
<1>5. CASE ReturnReader(t)
  <2>1. lease[t] \in Conn
    BY <1>5 DEF ReturnReader, LeaseTracked
  <2>2. (IF conn[lease[t]] = "inTxn" THEN "clean" ELSE conn[lease[t]]) \in ConnStates
    BY <2>1 DEF ConnStates
  <2>3. readers' \in Seq(Conn) /\ conn' \in [Conn -> ConnStates]
    BY <1>5, <2>1, <2>2, EnqueueType DEF ReturnReader
  <2> QED
    BY <1>5, <2>3 DEF ReturnReader
<1>6. CASE DiscardReader(t)
  <2>1. conn' \in [Conn -> ConnStates]
    BY <1>6 DEF DiscardReader, ConnStates
  <2>2. lease' \in [Thread -> Conn \cup {NoConn}]
    BY <1>6 DEF DiscardReader
  <2> QED
    BY <1>6, <2>1, <2>2 DEF DiscardReader
<1>7. CASE Refill(t)
  <2>1. readers' \in Seq(Conn) /\ conn' \in [Conn -> ConnStates]
    BY <1>7, EnqueueType DEF Refill, ConnStates
  <2> QED
    BY <1>7, <2>1 DEF Refill
<1>8. CASE RefillFails(t)
  BY <1>8 DEF RefillFails
<1> QED
  BY <1>1, <1>2, <1>3, <1>4, <1>5, <1>6, <1>7, <1>8 DEF ThreadStep

-----------------------------------------------------------------------------
(* Permits.                                                                *)

\* A step of one read moves it into or out of the admitted ones, or neither.
LEMMA ThreadPermits ==
    ASSUME IInv, NEW t \in Thread, ThreadStep(t)
    PROVE  PermitsExact'
<1> DEFINE n == Cardinality(Admitted)
           m == Cardinality(SpanAdmissions)
<1>1. /\ n \in Nat /\ m \in Nat /\ permits \in Nat
      /\ permits + n + m = MaxReaders
  BY CountedSets DEF IInv, TypeOK, PermitsExact
<1>2. SpanAdmissions' = SpanAdmissions
  BY DEF ThreadStep, AskForReader, Admit, AdmissionEnds, Pick, PickStopped, PickTimesOut,
         TypedRead, RawRead, ReadQuarantined, ReturnReader, DiscardReader, Refill,
         RefillFails, ReleasePermit, SpanAdmissions
<1>3. CASE Admit(t)
  <2>1. Admitted' = Admitted \cup {t} /\ t \notin Admitted
    BY <1>3 DEF Admit, Goto, Admitted, IInv, TypeOK
  <2>2. Cardinality(Admitted') = n + 1
    BY <2>1, CardStep, CountedSets, ThreadAssumption
  <2> QED
    BY <1>1, <1>2, <1>3, <2>2 DEF Admit, PermitsExact
<1>4. CASE PickStopped(t) \/ PickTimesOut(t) \/ ReleasePermit(t)
  <2>1. Admitted' = Admitted \ {t} /\ t \in Admitted
    BY <1>4 DEF PickStopped, PickTimesOut, ReleasePermit, Goto, Admitted, IInv, TypeOK
  <2>2. Cardinality(Admitted') = n - 1
    BY <2>1, CardStep, CountedSets, ThreadAssumption
  <2>3. permits' = permits + 1
    BY <1>4 DEF PickStopped, PickTimesOut, ReleasePermit
  <2> QED
    BY <1>1, <1>2, <2>2, <2>3 DEF PermitsExact
<1>5. CASE ~(Admit(t) \/ PickStopped(t) \/ PickTimesOut(t) \/ ReleasePermit(t))
  <2>1. Admitted' = Admitted /\ permits' = permits
    BY <1>5 DEF ThreadStep, AskForReader, AdmissionEnds, Pick, TypedRead, RawRead,
                ReadQuarantined, ReturnReader, DiscardReader, Refill, RefillFails,
                Goto, Admitted, IInv, TypeOK
  <2> QED
    BY <1>1, <1>2, <2>1 DEF PermitsExact
<1> QED
  BY <1>3, <1>4, <1>5

\* A step of one explicit transaction does the same to the spans.
LEMMA SpanPermits ==
    ASSUME IInv, NEW s \in Span, SpanStep(s)
    PROVE  PermitsExact'
<1> DEFINE n == Cardinality(Admitted)
           m == Cardinality(SpanAdmissions)
<1>1. /\ n \in Nat /\ m \in Nat /\ permits \in Nat
      /\ permits + n + m = MaxReaders
  BY CountedSets DEF IInv, TypeOK, PermitsExact
<1>2. Admitted' = Admitted
  BY DEF SpanStep, SpanAsks, SpanAdmitted, SpanWaitEnds, SpanOpened, SpanBegins,
         SpanBeginFails, SpanEnds, SpanDiscarded, SpanConnCloses, SpanReleases,
         threadVars, Admitted
<1>3. CASE SpanAdmitted(s)
  <2>1. SpanAdmissions' = SpanAdmissions \cup {s} /\ s \notin SpanAdmissions
    BY <1>3 DEF SpanAdmitted, SpanGoto, SpanAdmissions, IInv, TypeOK
  <2>2. Cardinality(SpanAdmissions') = m + 1
    BY <2>1, CardStep, CountedSets, ThreadAssumption
  <2> QED
    BY <1>1, <1>2, <1>3, <2>2 DEF SpanAdmitted, PermitsExact
<1>4. CASE SpanOpened(s) \/ SpanReleases(s)
  <2>1. SpanAdmissions' = SpanAdmissions \ {s} /\ s \in SpanAdmissions
    BY <1>4 DEF SpanOpened, SpanReleases, SpanGoto, SpanAdmissions, IInv, TypeOK
  <2>2. Cardinality(SpanAdmissions') = m - 1
    BY <2>1, CardStep, CountedSets, ThreadAssumption
  <2>3. permits' = permits + 1
    BY <1>4 DEF SpanOpened, SpanReleases
  <2> QED
    BY <1>1, <1>2, <2>2, <2>3 DEF PermitsExact
<1>5. CASE ~(SpanAdmitted(s) \/ SpanOpened(s) \/ SpanReleases(s))
  <2>1. SpanAdmissions' = SpanAdmissions /\ permits' = permits
    BY <1>5 DEF SpanStep, SpanAsks, SpanWaitEnds, SpanBegins, SpanBeginFails, SpanEnds,
                SpanDiscarded, SpanConnCloses, SpanGoto, SpanAdmissions, IInv, TypeOK
  <2> QED
    BY <1>1, <1>2, <2>1 DEF PermitsExact
<1> QED
  BY <1>3, <1>4, <1>5

-----------------------------------------------------------------------------
(* Slots and connections.                                                  *)

\* Popping the queue.
LEMMA Dequeued ==
    ASSUME NEW q \in Seq(Conn), q # <<>>
    PROVE  /\ Len(q) \in Nat \ {0}
           /\ Head(q) \in Conn /\ Head(q) = q[1]
           /\ Len(Tail(q)) = Len(q) - 1
           /\ \A i \in 1 .. Len(Tail(q)) : Tail(q)[i] = q[i + 1]
  OBVIOUS

\* Pushing on the queue.
LEMMA Requeued ==
    ASSUME NEW q \in Seq(Conn), NEW c \in Conn
    PROVE  /\ Len(q) \in Nat
           /\ Len(Append(q, c)) = Len(q) + 1
           /\ \A i \in 1 .. Len(q) : Append(q, c)[i] = q[i]
           /\ Append(q, c)[Len(q) + 1] = c
  OBVIOUS

\* The queue has room for whoever has a slot to give back.
LEMMA RoomToReturn ==
    ASSUME IInv, NEW t \in Occupied
    PROVE  Len(readers) < MaxReaders
<1>1. Cardinality(Occupied) > 0
  BY CardStep, CountedSets, ThreadAssumption
<1> QED
  BY <1>1, CountedSets, MaxReadersAssumption DEF IInv, SlotsConserved, TypeOK

\* A step of one read moves a slot between queue and lease, or loses it to a
\* counted failure.
LEMMA ThreadSlots ==
    ASSUME IInv, NEW t \in Thread, ThreadStep(t)
    PROVE  SlotsConserved'
<1> DEFINE n == Cardinality(Occupied)
<1>1. /\ n \in Nat /\ Len(readers) \in Nat /\ shrunk \in Nat
      /\ Len(readers) + n + shrunk = MaxReaders
  BY CountedSets DEF IInv, TypeOK, SlotsConserved
<1>2. CASE Pick(t)
  <2>1. Occupied' = Occupied \cup {t} /\ t \notin Occupied
    BY <1>2 DEF Pick, Goto, Occupied, IInv, TypeOK
  <2>2. Cardinality(Occupied') = n + 1
    BY <2>1, CardStep, CountedSets, ThreadAssumption
  <2>3. Len(readers') = Len(readers) - 1 /\ shrunk' = shrunk
    BY <1>2, Dequeued DEF Pick, IInv, TypeOK
  <2> QED
    BY <1>1, <2>2, <2>3 DEF SlotsConserved
<1>3. CASE ReturnReader(t) \/ Refill(t)
  <2>1. Occupied' = Occupied \ {t} /\ t \in Occupied
    BY <1>3 DEF ReturnReader, Refill, Goto, Occupied, IInv, TypeOK
  <2>2. Cardinality(Occupied') = n - 1
    BY <2>1, CardStep, CountedSets, ThreadAssumption
  <2>3. PICK c \in Conn : \E put : Enqueue(c, put)
    BY <1>3 DEF ReturnReader, Refill, LeaseTracked, IInv, TypeOK
  <2>4. readers' = Append(readers, c)
    BY <2>1, <2>3, RoomToReturn DEF Enqueue
  <2>5. Len(readers') = Len(readers) + 1 /\ shrunk' = shrunk
    BY <1>3, <2>4, Requeued DEF ReturnReader, Refill, IInv, TypeOK
  <2> QED
    BY <1>1, <2>2, <2>5 DEF SlotsConserved
<1>4. CASE RefillFails(t)
  <2>1. Occupied' = Occupied \ {t} /\ t \in Occupied
    BY <1>4 DEF RefillFails, Goto, Occupied, IInv, TypeOK
  <2>2. Cardinality(Occupied') = n - 1
    BY <2>1, CardStep, CountedSets, ThreadAssumption
  <2> QED
    BY <1>1, <1>4, <2>2 DEF RefillFails, SlotsConserved
<1>5. CASE ~(Pick(t) \/ ReturnReader(t) \/ Refill(t) \/ RefillFails(t))
  <2>1. Occupied' = Occupied /\ readers' = readers /\ shrunk' = shrunk
    BY <1>5 DEF ThreadStep, AskForReader, Admit, AdmissionEnds, PickStopped, PickTimesOut,
                TypedRead, RawRead, ReadQuarantined, DiscardReader, ReleasePermit,
                Goto, Occupied, poolVars, IInv, TypeOK
  <2> QED
    BY <1>1, <2>1 DEF SlotsConserved
<1> QED
  BY <1>2, <1>3, <1>4, <1>5

\* A clean connection that is neither queued nor leased joins the queue.
LEMMA QueueIsolated ==
    ASSUME IInv, NEW c \in Conn, NEW t \in Thread,
           \A i \in 1 .. Len(readers) : readers[i] # c,
           \A u \in Thread : u # t => lease[u] # c,
           readers' = Append(readers, c),
           conn' = [conn EXCEPT ![c] = "clean"],
           lease' = [lease EXCEPT ![t] = NoConn]
    PROVE  ReadersIsolated'
<1>1. /\ Len(readers) \in Nat
      /\ Len(readers') = Len(readers) + 1
      /\ \A i \in 1 .. Len(readers) : readers'[i] = readers[i]
      /\ readers'[Len(readers) + 1] = c
      /\ \A i \in 1 .. Len(readers) : readers[i] \in Conn
  BY Requeued DEF IInv, TypeOK
<1>2. \A i \in 1 .. Len(readers') : i \in 1 .. Len(readers) \/ i = Len(readers) + 1
  BY <1>1
<1>3. \A i \in 1 .. Len(readers') : conn'[readers'[i]] = "clean"
  BY <1>1, <1>2 DEF IInv, ReadersIsolated, TypeOK
<1>4. \A i, j \in 1 .. Len(readers') : readers'[i] = readers'[j] => i = j
  BY <1>1, <1>2 DEF IInv, ReadersIsolated
<1>5. \A u \in Thread : lease'[u] # NoConn => u # t /\ lease'[u] = lease[u]
  BY DEF IInv, TypeOK
<1>6. \A u \in Thread : lease'[u] # NoConn =>
        /\ \A i \in 1 .. Len(readers') : readers'[i] # lease'[u]
        /\ \A v \in Thread : lease'[v] = lease'[u] => v = u
  BY <1>1, <1>2, <1>5 DEF IInv, ReadersIsolated
<1> QED
  BY <1>3, <1>4, <1>6 DEF ReadersIsolated

\* What is queued stays clean and unshared, and what is leased is tracked.
LEMMA ThreadIsolated ==
    ASSUME IInv, NEW t \in Thread, ThreadStep(t)
    PROVE  ReadersIsolated' /\ LeaseTracked'
<1> USE DEF IInv, TypeOK, PCs, ConnStates
<1>1. CASE \/ AskForReader(t) \/ Admit(t) \/ AdmissionEnds(t) \/ PickStopped(t)
           \/ PickTimesOut(t) \/ RefillFails(t) \/ ReleasePermit(t)
  <2>1. UNCHANGED <<lease, dirty, reusable, readers, conn>>
    BY <1>1 DEF AskForReader, Admit, AdmissionEnds, PickStopped, PickTimesOut,
                RefillFails, ReleasePermit, poolVars
  <2>2. /\ pc[t] \notin {"reading", "returning"}
        /\ \E l \in PCs \ {"reading", "returning"} : pc' = [pc EXCEPT ![t] = l]
    BY <1>1 DEF AskForReader, Admit, AdmissionEnds, PickStopped, PickTimesOut,
                RefillFails, ReleasePermit, Goto
  <2> QED
    BY <2>1, <2>2 DEF ReadersIsolated, LeaseTracked
<1>2. CASE Pick(t)
  <2>1. /\ Len(readers) \in Nat \ {0}
        /\ lease' = [lease EXCEPT ![t] = readers[1]]
        /\ readers[1] \in Conn
        /\ Len(readers') = Len(readers) - 1
        /\ \A i \in 1 .. Len(readers') : i + 1 \in 1 .. Len(readers)
                                        /\ readers'[i] = readers[i + 1]
    BY <1>2, Dequeued DEF Pick
  <2>2. /\ conn' = conn /\ conn[readers[1]] = "clean"
        /\ \A u \in Thread : lease[u] # readers[1]
    <3>1. 1 \in 1 .. Len(readers)
      BY <2>1
    <3>2. conn[readers[1]] = "clean"
      BY <3>1 DEF ReadersIsolated
    <3>3. \A u \in Thread : lease[u] # readers[1]
      BY <2>1, <3>1, ConnAssumption DEF ReadersIsolated
    <3> QED
      BY <1>2, <3>2, <3>3 DEF Pick
  <2>3. ASSUME NEW i \in 1 .. Len(readers') PROVE readers'[i] # readers[1]
    <3>1. 1 \in 1 .. Len(readers) /\ i + 1 \in 1 .. Len(readers) /\ i + 1 # 1
      BY <2>1
    <3>2. readers[i + 1] # readers[1]
      BY <3>1 DEF ReadersIsolated
    <3> QED
      BY <2>1, <3>2
  <2>4. ReadersIsolated'
    <3>1. \A i \in 1 .. Len(readers') : conn'[readers'[i]] = "clean"
      BY <2>1, <2>2 DEF ReadersIsolated
    <3>2. ASSUME NEW i \in 1 .. Len(readers'), NEW j \in 1 .. Len(readers'),
                 readers'[i] = readers'[j]
          PROVE  i = j
      <4>1. /\ i + 1 \in 1 .. Len(readers) /\ j + 1 \in 1 .. Len(readers)
            /\ readers[i + 1] = readers[j + 1]
        BY <2>1, <3>2
      <4>2. i + 1 = j + 1
        BY <4>1 DEF ReadersIsolated
      <4> QED
        BY <4>2
    <3>3. lease'[t] = readers[1] /\ \A u \in Thread \ {t} : lease'[u] = lease[u]
      BY <2>1
    <3>4. ASSUME NEW u \in Thread, lease'[u] # NoConn
          PROVE  /\ \A i \in 1 .. Len(readers') : readers'[i] # lease'[u]
                 /\ \A v \in Thread : lease'[v] = lease'[u] => v = u
      <4>1. CASE u = t
        BY <2>2, <2>3, <3>3, <4>1
      <4>2. CASE u # t
        BY <2>1, <2>2, <3>3, <3>4, <4>2 DEF ReadersIsolated
      <4> QED
        BY <4>1, <4>2
    <3> QED
      BY <3>1, <3>2, <3>4 DEF ReadersIsolated
  <2>5. LeaseTracked'
    BY <1>2, <2>1, <2>2, ConnAssumption DEF Pick, Goto, LeaseTracked
  <2> QED
    BY <2>4, <2>5
<1>3. CASE TypedRead(t) \/ RawRead(t) \/ ReadQuarantined(t)
  <2>1. PICK left \in {"clean", "inTxn", "tainted"} :
           conn' = [conn EXCEPT ![lease[t]] = left]
    BY <1>3 DEF TypedRead, RawRead, ReadQuarantined
  <2>2. /\ lease' = lease /\ readers' = readers /\ pc[t] = "reading"
        /\ pc' = [pc EXCEPT ![t] = "returning"]
        /\ lease[t] \in Conn
        /\ \A u \in Thread : u # t => lease[u] # lease[t]
    BY <1>3 DEF TypedRead, RawRead, ReadQuarantined, Goto, ReadersIsolated, LeaseTracked
  <2>3. /\ left = "tainted" => dirty'[t] \/ ~reusable'[t]
        /\ \A u \in Thread : u # t => dirty'[u] = dirty[u] /\ reusable'[u] = reusable[u]
    BY <1>3, <2>1, <2>2 DEF TypedRead, RawRead, ReadQuarantined
  <2>4. ReadersIsolated'
    <3>1. ASSUME NEW i \in 1 .. Len(readers) PROVE conn'[readers[i]] = "clean"
      <4>1. readers[i] \in Conn /\ readers[i] # lease[t] /\ conn[readers[i]] = "clean"
        BY <2>2, ConnAssumption DEF ReadersIsolated
      <4> QED
        BY <2>1, <4>1
    <3> QED
      BY <2>2, <3>1 DEF ReadersIsolated
  <2>5. ASSUME NEW u \in Thread, u # t
        PROVE  lease[u] # NoConn => conn'[lease[u]] = conn[lease[u]]
    BY <2>1, <2>2, <2>5
  <2>6. LeaseTracked'
    BY <2>1, <2>2, <2>3, <2>5 DEF LeaseTracked
  <2> QED
    BY <2>4, <2>6
<1>4. CASE ReturnReader(t)
  <2>1. /\ t \in Occupied /\ lease[t] \in Conn
        /\ conn[lease[t]] \in {"clean", "inTxn"}
    BY <1>4 DEF ReturnReader, ResetPasses, Occupied, LeaseTracked
  <2>2. /\ readers' = Append(readers, lease[t])
        /\ conn' = [conn EXCEPT ![lease[t]] = "clean"]
    BY <1>4, <2>1, RoomToReturn DEF ReturnReader, Enqueue
  <2>3. lease' = [lease EXCEPT ![t] = NoConn] /\ UNCHANGED <<dirty, reusable>>
    BY <1>4 DEF ReturnReader
  <2>4. \A u \in Thread : u # t => lease[u] # lease[t]
    BY <2>1, ConnAssumption DEF ReadersIsolated
  <2>5. ReadersIsolated'
    <3>1. \A i \in 1 .. Len(readers) : readers[i] # lease[t]
      BY <2>1, ConnAssumption DEF ReadersIsolated
    <3>2. IInv
      OBVIOUS
    <3> QED
      BY <2>1, <2>2, <2>3, <2>4, <3>1, <3>2, QueueIsolated
  <2>6. LeaseTracked'
    BY <1>4, <2>1, <2>2, <2>3, <2>4 DEF ReturnReader, Goto, LeaseTracked
  <2> QED
    BY <2>5, <2>6
<1>5. CASE DiscardReader(t)
  <2>1. lease[t] \in Conn /\ \A u \in Thread : u # t => lease[u] # lease[t]
    BY <1>5, ConnAssumption DEF DiscardReader, ReadersIsolated, LeaseTracked
  <2>2. /\ readers' = readers
        /\ conn' = [conn EXCEPT ![lease[t]] = "closed"]
        /\ lease' = [lease EXCEPT ![t] = NoConn]
        /\ UNCHANGED <<dirty, reusable>>
        /\ pc' = [pc EXCEPT ![t] = "refilling"]
    BY <1>5 DEF DiscardReader, Goto
  <2>3. ReadersIsolated'
    <3>1. lease'[t] = NoConn /\ \A u \in Thread \ {t} : lease'[u] = lease[u]
      BY <2>2
    <3>2. \A i \in 1 .. Len(readers) : readers[i] # lease[t]
      BY <2>1, ConnAssumption DEF ReadersIsolated
    <3>3. \A i \in 1 .. Len(readers) : conn'[readers[i]] = conn[readers[i]]
      BY <2>2, <3>2
    <3> QED
      BY <2>2, <3>1, <3>3 DEF ReadersIsolated
  <2>4. LeaseTracked'
    BY <2>1, <2>2 DEF LeaseTracked
  <2> QED
    BY <2>3, <2>4
<1>6. CASE Refill(t)
  <2>1. t \in Occupied /\ pc[t] = "refilling" /\ lease[t] = NoConn
    BY <1>6 DEF Refill, Occupied, LeaseTracked
  <2>2. PICK c \in Conn : conn[c] = "unopened" /\ Enqueue(c, "clean")
    BY <1>6 DEF Refill
  <2>3. /\ readers' = Append(readers, c)
        /\ conn' = [conn EXCEPT ![c] = "clean"]
    BY <2>1, <2>2, RoomToReturn DEF Enqueue
  <2>4. /\ \A i \in 1 .. Len(readers) : readers[i] # c
        /\ \A u \in Thread : lease[u] # c
    <3>1. \A i \in 1 .. Len(readers) : readers[i] # c
      BY <2>2 DEF ReadersIsolated
    <3>2. \A u \in Thread : lease[u] # c
      BY <2>2, ConnAssumption DEF LeaseTracked
    <3> QED
      BY <3>1, <3>2
  <2>5. UNCHANGED <<lease, dirty, reusable>> /\ lease' = [lease EXCEPT ![t] = NoConn]
    BY <1>6, <2>1 DEF Refill
  <2>6. ReadersIsolated'
    BY <2>3, <2>4, <2>5, QueueIsolated
  <2>7. LeaseTracked'
    BY <1>6, <2>1, <2>3, <2>4, <2>5 DEF Refill, Goto, LeaseTracked
  <2> QED
    BY <2>6, <2>7
<1> QED
  BY <1>1, <1>2, <1>3, <1>4, <1>5, <1>6 DEF ThreadStep

-----------------------------------------------------------------------------
\* A step of an explicit transaction touches its own place and the permits.
LEMMA SpanIInv ==
    ASSUME IInv, NEW s \in Span, SpanStep(s)
    PROVE  IInv'
<1>1. UNCHANGED <<threadVars, poolVars>>
  BY DEF SpanStep, SpanAsks, SpanAdmitted, SpanWaitEnds, SpanOpened, SpanBegins,
         SpanBeginFails, SpanEnds, SpanDiscarded, SpanConnCloses, SpanReleases
<1>2. TypeOK'
  BY <1>1 DEF SpanStep, SpanAsks, SpanAdmitted, SpanWaitEnds, SpanOpened, SpanBegins,
              SpanBeginFails, SpanEnds, SpanDiscarded, SpanConnCloses, SpanReleases,
              SpanGoto, SpanPCs, IInv, TypeOK, threadVars, poolVars
<1>3. SlotsConserved' /\ ReadersIsolated' /\ LeaseTracked'
  BY <1>1 DEF threadVars, poolVars, IInv, SlotsConserved, Occupied, ReadersIsolated,
              LeaseTracked
<1> QED
  BY <1>2, <1>3, SpanPermits DEF IInv

\* IInv is inductive.
LEMMA NextIInv == IInv /\ [Next]_vars => IInv'
<1>1. ASSUME IInv, UNCHANGED vars PROVE IInv'
  BY <1>1 DEF vars, threadVars, poolVars, IInv, TypeOK, PermitsExact, Admitted,
              SpanAdmissions, SlotsConserved, Occupied, ReadersIsolated, LeaseTracked
<1>2. ASSUME IInv, NEW t \in Thread, ThreadStep(t) PROVE IInv'
  BY <1>2, ThreadType, ThreadPermits, ThreadSlots, ThreadIsolated DEF IInv
<1> QED
  BY <1>1, <1>2, SpanIInv DEF Next

-----------------------------------------------------------------------------
\* Every path of a checkout or of an explicit transaction returns its permit
\* once, whatever its order with the others.
THEOREM PermitsAreExact == Spec => []PermitsExact
<1>1. IInv => PermitsExact
  BY DEF IInv
<1> QED
  BY <1>1, InitIInv, NextIInv, PTL DEF Spec

\* return_reader and replace_discarded_reader_slot keep the physical pool at
\* its size, less the failures they count.
THEOREM SlotsAreConserved == Spec => []SlotsConserved
<1>1. IInv => SlotsConserved
  BY DEF IInv
<1> QED
  BY <1>1, InitIInv, NextIInv, PTL DEF Spec

\* What one read leaves on its connection reaches no other read.
THEOREM ReadersAreIsolated == Spec => []ReadersIsolated
<1>1. IInv => ReadersIsolated
  BY DEF IInv
<1> QED
  BY <1>1, InitIInv, NextIInv, PTL DEF Spec

\* reader_with_admission finds a connection whenever it holds a permit, unless
\* a replacement failed: the permit is released after the connection.
THEOREM PermitMeansReader == Spec => []PermitFindsReader
<1>1. IInv => PermitFindsReader
  <2> SUFFICES ASSUME IInv, NEW t \in Thread, pc[t] = "picking", readers = <<>>
               PROVE  shrunk > 0
    BY DEF PermitFindsReader
  <2>1. t \notin Occupied /\ Occupied \cup {t} \in SUBSET Admitted
    BY DEF Occupied, Admitted
  <2>2. Cardinality(Occupied \cup {t}) = Cardinality(Occupied) + 1
    BY <2>1, CardStep, CountedSets, ThreadAssumption
  <2>3. IsFiniteSet(Admitted)
    BY CountedSets, ThreadAssumption, FS_Subset
  <2>4. Cardinality(Occupied) + 1 <= Cardinality(Admitted)
    BY <2>1, <2>2, <2>3, FS_Subset
  <2> QED
    BY <2>4, CountedSets, MaxReadersAssumption
    DEF IInv, TypeOK, PermitsExact, SlotsConserved
<1> QED
  BY <1>1, InitIInv, NextIInv, PTL DEF Spec

\* No more than max_readers snapshots pin the WAL, pooled reads and explicit
\* transactions together.
THEOREM SnapshotsAreBounded == Spec => []SnapshotBudget
<1>1. IInv => SnapshotBudget
  <2> SUFFICES ASSUME IInv PROVE SnapshotBudget
    OBVIOUS
  <2> DEFINE A == {t \in Thread : pc[t] \in {"reading", "returning"}}
             B == {s \in Span : span[s] \in {"open", "discarding"}}
  <2>1. A \in SUBSET Admitted /\ B \in SUBSET SpanAdmissions
    BY DEF Admitted, SpanAdmissions
  <2>2. IsFiniteSet(Admitted) /\ IsFiniteSet(SpanAdmissions)
    BY CountedSets, ThreadAssumption, FS_Subset
  <2>3. /\ IsFiniteSet(A) /\ Cardinality(A) <= Cardinality(Admitted)
        /\ IsFiniteSet(B) /\ Cardinality(B) <= Cardinality(SpanAdmissions)
    BY <2>1, <2>2, FS_Subset
  <2>4. Cardinality(A) \in Nat /\ Cardinality(B) \in Nat
    BY <2>3, FS_CardinalityType
  <2>5. Cardinality(A) + Cardinality(B) <= MaxReaders
    BY <2>3, <2>4, CountedSets, MaxReadersAssumption DEF IInv, TypeOK, PermitsExact
  <2> QED
    BY <2>5 DEF SnapshotBudget
<1> QED
  BY <1>1, InitIInv, NextIInv, PTL DEF Spec
-----------------------------------------------------------------------------
(* CheckpointGate, for any number of checkpoint tasks and of threads that  *)
(* open connections.  Its inductive invariant adds to the properties of    *)
(* the model who holds the gate and what a claim in flight has done so     *)
(* far.                                                                    *)

\* The gate is held by exactly the opener that is applying its PRAGMA, and
\* the phase does not change under it.
GateHeld ==
    \A o \in Opener :
      /\ opening[o] = "applying" <=> gate = o
      /\ opening[o] = "applying" => phase # "Claiming" /\ selected[o] = Posture(phase)

\* Until the claim is published the connections in service keep the fallback.
UnclaimedPages ==
    phase # "Claimed" => \A o \in Opener : opening[o] = "open" => pages[o] = "fallback"

\* What a claim in flight has done to the pooled writer.
ClaimProgress ==
    \A c \in Claimer :
      /\ claim[c] \in {"locking", "applying", "refused"} => pooled # "off"
      /\ claim[c] = "applied" => pooled # "fallback"

\* The writer task's connection, once a claim reached it, stays in service
\* and off the fallback.
TaskReached ==
    (\E c \in Claimer : claim[c] = "propagated") =>
      \/ opening[TaskOpener] = "failed"
      \/ opening[TaskOpener] = "open" /\ pages[TaskOpener] = "off"

GateIInv ==
    /\ GateTypeOK
    /\ OneClaimInFlight
    /\ PostureIsSettled
    /\ ClaimIsHonest
    /\ GateHeld
    /\ UnclaimedPages
    /\ ClaimProgress
    /\ TaskReached

\* notify_all moves the sleepers to the entrance and changes nothing else.
LEMMA NotifyAllEffect ==
    ASSUME GateTypeOK, NEW c \in Claimer, NEW l \in ClaimPCs, NotifyAll(c, l)
    PROVE  /\ claim' \in [Claimer -> ClaimPCs]
           /\ opening' \in [Opener -> OpenPCs]
           /\ \A d \in Claimer : claim'[d] =
                IF d = c THEN l ELSE IF claim[d] = "asleep" THEN "entering" ELSE claim[d]
           /\ \A o \in Opener : opening'[o] =
                IF opening[o] = "asleep" THEN "entering" ELSE opening[o]
  BY DEF GateTypeOK, NotifyAll, Wake, ClaimPCs, OpenPCs

\* The initial states satisfy the invariant.
LEMMA GateInitInv == GateInit => GateIInv
  BY OpenerAssumption, NobodyAssumption
  DEF GateInit, GateIInv, GateTypeOK, OneClaimInFlight, Configuring, PostureIsSettled,
      ClaimIsHonest, GateHeld, UnclaimedPages, ClaimProgress, TaskReached,
      ClaimPCs, OpenPCs, Settings, Posture

\* A claimer's step preserves the invariant.
LEMMA GateClaimStep ==
    ASSUME GateIInv, NEW c \in Claimer, ClaimStep(c)
    PROVE  GateIInv'
<1> USE OpenerAssumption, NobodyAssumption
    DEF GateIInv, GateTypeOK, OneClaimInFlight, Configuring, PostureIsSettled,
        ClaimIsHonest, GateHeld, UnclaimedPages, ClaimProgress, TaskReached,
        ClaimPCs, OpenPCs, Settings, Posture
<1>1. CASE ClaimCalled(c)
  BY <1>1 DEF ClaimCalled
<1>2. CASE ClaimStarts(c)
  <2>1. NotifyAll(c, "locking")
    BY <1>2 DEF ClaimStarts
  <2> QED
    BY <1>2, <2>1, NotifyAllEffect DEF ClaimStarts
<1>3. CASE ClaimJoins(c)
  BY <1>3 DEF ClaimJoins
<1>4. CASE ClaimKnown(c)
  BY <1>4 DEF ClaimKnown
<1>5. CASE ClaimLocks(c)
  BY <1>5 DEF ClaimLocks
<1>6. CASE ClaimRefused(c)
  BY <1>6 DEF ClaimRefused
<1>7. CASE ClaimApplies(c)
  BY <1>7 DEF ClaimApplies
<1>8. CASE ClaimFinishes(c)
  <2>1. CASE claim[c] = "applied"
    <3>1. NotifyAll(c, "claimed") /\ phase' = "Claimed" /\ phase = "Claiming"
      BY <1>8, <2>1 DEF ClaimFinishes
    <3> QED
      BY <1>8, <2>1, <3>1, NotifyAllEffect DEF ClaimFinishes
  <2>2. CASE claim[c] = "refused"
    <3>1. NotifyAll(c, "failed") /\ phase' = "Unclaimed" /\ phase = "Claiming"
      BY <1>8, <2>2 DEF ClaimFinishes
    <3> QED
      BY <1>8, <2>2, <3>1, NotifyAllEffect DEF ClaimFinishes
  <2> QED
    BY <1>8, <2>1, <2>2 DEF ClaimFinishes
<1>9. CASE PropagateSpawns(c)
  BY <1>9 DEF PropagateSpawns
<1>10. CASE Propagate(c)
  BY <1>10 DEF Propagate
<1>11. CASE PropagateFails(c)
  BY <1>11 DEF PropagateFails
<1> QED
  BY <1>1, <1>2, <1>3, <1>4, <1>5, <1>6, <1>7, <1>8, <1>9, <1>10, <1>11 DEF ClaimStep

\* An opener's step preserves the invariant.
LEMMA GateOpenStep ==
    ASSUME GateIInv, NEW o \in Opener, OpenStep(o)
    PROVE  GateIInv'
<1> USE OpenerAssumption, NobodyAssumption
    DEF GateIInv, GateTypeOK, OneClaimInFlight, Configuring, PostureIsSettled,
        ClaimIsHonest, GateHeld, UnclaimedPages, ClaimProgress, TaskReached,
        ClaimPCs, OpenPCs, Settings, Posture
<1>1. CASE OpenCalled(o)
  BY <1>1 DEF OpenCalled
<1>2. CASE OpenWaits(o)
  BY <1>2 DEF OpenWaits
<1>3. CASE OpenSelects(o)
  BY <1>3 DEF OpenSelects
<1>4. CASE OpenApplies(o)
  BY <1>4 DEF OpenApplies
<1>5. CASE OpenerReturns(o)
  BY <1>5 DEF OpenerReturns
<1> QED
  BY <1>1, <1>2, <1>3, <1>4, <1>5 DEF OpenStep

\* A step of the pooled writer's user preserves the invariant, and so does
\* stuttering.
LEMMA GateOtherStep ==
    ASSUME GateIInv, UserLocks \/ UserReleases \/ UNCHANGED gateVars
    PROVE  GateIInv'
<1> USE NobodyAssumption
    DEF GateIInv, GateTypeOK, OneClaimInFlight, Configuring, PostureIsSettled,
        ClaimIsHonest, GateHeld, UnclaimedPages, ClaimProgress, TaskReached,
        ClaimPCs, OpenPCs, Settings, Posture
<1>1. CASE UserLocks
  BY <1>1 DEF UserLocks
<1>2. CASE UserReleases
  BY <1>2 DEF UserReleases
<1>3. CASE UNCHANGED gateVars
  BY <1>3 DEF gateVars
<1> QED
  BY <1>1, <1>2, <1>3

\* GateIInv is inductive.
LEMMA GateNextInv == GateIInv /\ [GateNext]_gateVars => GateIInv'
  BY GateClaimStep, GateOpenStep, GateOtherStep DEF GateNext

\* No settled posture leaves a connection without reclamation of the WAL, or
\* the claimed pool's writer with it (claim_checkpoint_ownership).
THEOREM PostureSettled == GateSpec => []PostureIsSettled
<1>1. GateIInv => PostureIsSettled
  BY DEF GateIInv
<1> QED
  BY <1>1, GateInitInv, GateNextInv, PTL DEF GateSpec

\* begin_claim and finish_claim tell every caller the truth, for any number of
\* concurrent claims, failed ones included.
THEOREM ClaimsAreHonest == GateSpec => []ClaimIsHonest
<1>1. GateIInv => ClaimIsHonest
  BY DEF GateIInv
<1> QED
  BY <1>1, GateInitInv, GateNextInv, PTL DEF GateSpec

\* finish_claim's debug_assert holds, and a claim is configured by one caller.
THEOREM ClaimsExclude == GateSpec => []OneClaimInFlight
<1>1. GateIInv => OneClaimInFlight
  BY DEF GateIInv
<1> QED
  BY <1>1, GateInitInv, GateNextInv, PTL DEF GateSpec

\* propagate_checkpoint_claim_to_writer_task leaves no task connection behind,
\* whenever it was opened.
THEOREM TaskIsReached == GateSpec => []TaskConnectionReached
<1>1. GateIInv => TaskConnectionReached
  BY DEF GateIInv, TaskReached, TaskConnectionReached
<1> QED
  BY <1>1, GateInitInv, GateNextInv, PTL DEF GateSpec

\* configure_wal_autocheckpoint is atomic with respect to claims, although it
\* samples the phase and applies it in two steps.
THEOREM OpensLinearize == GateSpec => OpenLinearized
<1> DEFINE A == \A o \in Opener : opening[o] # "open" /\ opening'[o] = "open" =>
                  phase # "Claiming" /\ pages'[o] = Posture(phase')
<1>1. GateIInv /\ [GateNext]_gateVars => [A]_gateVars
  <2> SUFFICES ASSUME GateIInv, GateNext, NEW o \in Opener,
                      opening[o] # "open", opening'[o] = "open"
               PROVE  phase # "Claiming" /\ pages'[o] = Posture(phase')
    OBVIOUS
  <2>1. ASSUME NEW c \in Claimer, ClaimStep(c) PROVE FALSE
    <3>1. ASSUME NEW l \in ClaimPCs, NotifyAll(c, l) PROVE FALSE
      BY <3>1, NotifyAllEffect DEF GateIInv
    <3> QED
      BY <2>1, <3>1, OpenerAssumption
      DEF ClaimStep, ClaimCalled, ClaimStarts, ClaimJoins, ClaimKnown, ClaimLocks,
          ClaimRefused, ClaimApplies, ClaimFinishes, PropagateSpawns, Propagate,
          PropagateFails, GateIInv, GateTypeOK, ClaimPCs, OpenPCs
  <2>2. ASSUME NEW p \in Opener, OpenStep(p) PROVE OpenApplies(o)
    BY <2>2 DEF OpenStep, OpenCalled, OpenWaits, OpenSelects, OpenApplies,
                OpenerReturns, GateIInv, GateTypeOK
  <2>3. CASE OpenApplies(o)
    BY <2>3 DEF OpenApplies, GateIInv, GateHeld, GateTypeOK
  <2> QED
    BY <2>1, <2>2, <2>3 DEF GateNext, UserLocks, UserReleases
<1> QED
  BY <1>1, GateInitInv, GateNextInv, PTL DEF GateSpec, OpenLinearized
=============================================================================
