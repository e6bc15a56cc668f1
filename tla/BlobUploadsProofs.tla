-------------------------- MODULE BlobUploadsProofs -------------------------
(***************************************************************************)
(* Proofs about BlobUploads, for any number of uploads, processes, actors, *)
(* parts and crashes, and any of the bounds on time.                       *)
(***************************************************************************)
EXTENDS BlobUploads, FiniteSetTheorems, SequenceTheorems, TLAPS

\* A process runs one store job at a time.  A request that waits for one is
\* known to it, and nothing about its record moves under it.
JobKept(j) ==
    /\ phase[j.u] \in {"InFlight", "Aborted"}
    /\ op[j.u].st \notin {"ok", "err"}
    /\ phase[j.u] = "InFlight" => op[j.u].st # "queued"
    /\ j.kind = "append" => accepted[j.u] < Size
    /\ j.kind = "commit" => accepted[j.u] = Size /\ staged[j.u] \in {None, Digest(Size)}

JobInv ==
    /\ \A j, k \in jobs : Host[j.u] = Host[k.u] => j = k
    /\ \A u \in Upload : op[u].st = "running" => [u |-> u, kind |-> op[u].job] \in jobs
    /\ \A j \in jobs : JobKept(j)

\* What the operation that holds a record says of its phase and its parts.
OpKept(u) ==
    /\ op[u].job \in {"append", "renew", "commit"} => phase[u] = "InFlight"
    /\ op[u].job = "abort" => phase[u] = "Aborted"
    /\ op[u].job = "append" => accepted[u] < Size
    /\ op[u].job = "commit" => accepted[u] = Size
    /\ phase[u] \in {"new", "creating"} => accepted[u] = 0 /\ staged[u] = None /\ lease[u] = None
    /\ phase[u] = "created" => accepted[u] = 0

OpInv == \A u \in Upload : OpKept(u)

\* While the record's clock runs the first n parts are staged, under a lease
\* that is no older than the record thinks.
Fresh(u, n) == age[u] < Idle => staged[u] = Digest(n) /\ lease[u] # None /\ wall[u] <= age[u]

\* What is in the staging file of an upload.
StagedKept(u) ==
    /\ phase[u] \in {"created", "Active"} => Fresh(u, accepted[u])
    /\ op[u].st = "ok" /\ op[u].job = "append" => Fresh(u, accepted[u] + 1)
    /\ op[u].st = "ok" /\ op[u].job = "renew" => Fresh(u, accepted[u])
    /\ phase[u] = "InFlight" /\ op[u].st \in {"queued", "running"} =>
         staged[u] \in {None, Digest(accepted[u])}
    /\ (op[u].st = "ok" /\ op[u].job \in {"commit", "abort"}) \/ phase[u] = "Finished" =>
         staged[u] = None /\ lease[u] = None

StagedInv == \A u \in Upload : StagedKept(u)

\* A sweep has seen no renewal that has not happened, and has not watched the
\* last one for longer than it is old.
SeenKept(p, u) ==
    seen[p][u] # None =>
      /\ staged[u] # None /\ lease[u] # None
      /\ seen[p][u].seq <= lease[u]
      /\ seen[p][u].seq = lease[u] /\ wall[u] < Idle => seen[p][u].age <= wall[u]

SeenInv == \A p \in Proc : \A u \in Upload : SeenKept(p, u)

\* What is published is what the digest is of.
ObjectInv == \A o \in objects : o.parts = o.digest /\ o.digest = Digest(Size)

\* The slots a process holds for an actor.
Holding(p, a) == {u \in Upload : Host[u] = p /\ Owner[u] = a /\ Counted(u)}
SlotInv ==
    \A p \in Proc :
      /\ \A a \in Actor : slots[p][a] = Cardinality(Holding(p, a)) /\ slots[p][a] <= MaxPerActor
      /\ Cardinality(Taken(slots[p])) <= MaxActive

IInv == TypeOK /\ JobInv /\ OpInv /\ StagedInv /\ SeenInv /\ ObjectInv /\ SlotInv

-----------------------------------------------------------------------------
(* Parts and slots.                                                        *)

\* What the client sent so far.
LEMMA DigestFacts ==
    ASSUME NEW n \in 0..Size
    PROVE  /\ Digest(n) \in Seq(0..Size)
           /\ Len(Digest(n)) = n
           /\ Digest(n) # None
           /\ Digest(0) = <<>>
           /\ n < Size => Append(Digest(n), n + 1) = Digest(n + 1)
<1>1. Size \in Nat
  BY PolicyAssumption
<1>2. Digest(n) \in [1..n -> 0..Size]
  BY <1>1 DEF Digest
<1>3. Digest(n) \in Seq(0..Size) /\ Len(Digest(n)) = n
  BY <1>1, <1>2 DEF Digest
<1>4. Digest(0) = <<>>
  BY DEF Digest
<1>5. ASSUME n < Size PROVE Append(Digest(n), n + 1) = Digest(n + 1)
  <2>1. /\ Append(Digest(n), n + 1) \in Seq(0..Size)
        /\ Len(Append(Digest(n), n + 1)) = n + 1
        /\ \A i \in 1..(n + 1) : Append(Digest(n), n + 1)[i] = i
    BY <1>1, <1>3, <1>5 DEF Digest
  <2>2. /\ Digest(n + 1) \in Seq(0..Size)
        /\ Len(Digest(n + 1)) = n + 1
        /\ \A i \in 1..(n + 1) : Digest(n + 1)[i] = i
    BY <1>1, <1>5 DEF Digest
  <2> QED
    BY <1>1, <2>1, <2>2, SeqEqual
<1> QED
  BY <1>3, <1>4, <1>5, NoneAssumption

\* A slot is held for as many uploads as before.
LEMMA SlotsSame ==
    ASSUME SlotInv, slots' = slots, \A u \in Upload : Counted(u)' <=> Counted(u)
    PROVE  SlotInv'
<1>1. \A p \in Proc : \A a \in Actor : Holding(p, a)' = Holding(p, a)
  BY DEF Holding
<1> QED
  BY <1>1 DEF SlotInv

\* The count of an upload that comes or goes.
LEMMA HoldingStep ==
    ASSUME NEW p, NEW a, NEW u \in Upload, Host[u] = p, Owner[u] = a,
           \A v \in Upload \ {u} : Counted(v)' <=> Counted(v)
    PROVE  /\ Cardinality(Holding(p, a)) \in Nat
           /\ Counted(u)' /\ ~Counted(u) =>
                Cardinality(Holding(p, a)') = Cardinality(Holding(p, a)) + 1
           /\ ~Counted(u)' /\ Counted(u) =>
                /\ Cardinality(Holding(p, a)') = Cardinality(Holding(p, a)) - 1
                /\ Cardinality(Holding(p, a)') \in Nat
<1>1. IsFiniteSet(Holding(p, a)) /\ IsFiniteSet(Holding(p, a)')
  BY UploadAssumption, FS_Subset DEF Holding
<1>2. Cardinality(Holding(p, a)) \in Nat /\ Cardinality(Holding(p, a)') \in Nat
  BY <1>1, FS_CardinalityType
<1>3. ASSUME Counted(u)', ~Counted(u)
      PROVE  Cardinality(Holding(p, a)') = Cardinality(Holding(p, a)) + 1
  <2>1. Holding(p, a)' = Holding(p, a) \cup {u} /\ u \notin Holding(p, a)
    BY <1>3 DEF Holding
  <2> QED
    BY <1>1, <2>1, FS_AddElement
<1>4. ASSUME ~Counted(u)', Counted(u)
      PROVE  Cardinality(Holding(p, a)') = Cardinality(Holding(p, a)) - 1
  <2>1. Holding(p, a)' = Holding(p, a) \ {u} /\ u \in Holding(p, a)
    BY <1>4 DEF Holding
  <2> QED
    BY <1>1, <2>1, FS_RemoveElement
<1> QED
  BY <1>2, <1>3, <1>4

\* The slots taken, as one actor takes one more.
LEMMA TakenStep ==
    ASSUME NEW h \in [Actor -> Nat], NEW g \in [Actor -> Nat], NEW o \in Actor,
           \A a \in Actor : h[a] <= MaxPerActor, g = [h EXCEPT ![o] = @ + 1]
    PROVE  /\ Cardinality(Taken(h)) \in Nat
           /\ Cardinality(Taken(g)) = Cardinality(Taken(h)) + 1
<1>1. MaxPerActor \in Nat
  BY PolicyAssumption
<1>2. Taken(h) \subseteq Actor \X (1..MaxPerActor)
  BY <1>1 DEF Taken
<1>3. IsFiniteSet(Taken(h))
  <2>1. IsFiniteSet(1..MaxPerActor)
    BY <1>1, FS_Interval
  <2>2. IsFiniteSet(Actor \X (1..MaxPerActor))
    BY <2>1, UploadAssumption, FS_Product
  <2> QED
    BY <1>2, <2>2, FS_Subset
<1>4. \A a : \A n : <<a, n>> \in Taken(h) <=> a \in Actor /\ n \in 1..h[a]
  BY DEF Taken
<1>5. \A a : \A n : <<a, n>> \in Taken(g) <=> a \in Actor /\ n \in 1..g[a]
  BY DEF Taken
<1>6. <<o, h[o] + 1>> \notin Taken(h)
  BY <1>4
<1>7. Taken(g) = Taken(h) \cup {<<o, h[o] + 1>>}
  <2>1. ASSUME NEW a \in Actor, NEW n \in Nat
        PROVE  <<a, n>> \in Taken(g) <=> <<a, n>> \in Taken(h) \/ (a = o /\ n = h[o] + 1)
    <3>1. n \in 1..g[a] <=> n \in 1..h[a] \/ (a = o /\ n = h[o] + 1)
      OBVIOUS
    <3> QED
      BY <1>4, <1>5, <3>1
  <2>2. \A x \in Taken(g) \cup Taken(h) : \E a \in Actor, n \in Nat : x = <<a, n>>
    BY DEF Taken
  <2>3. ASSUME NEW x \in Taken(g) PROVE x \in Taken(h) \cup {<<o, h[o] + 1>>}
    <3>1. PICK a \in Actor, n \in Nat : x = <<a, n>>
      BY <2>2
    <3> QED
      BY <2>1, <3>1
  <2>4. ASSUME NEW x \in Taken(h) PROVE x \in Taken(g)
    <3>1. PICK a \in Actor, n \in Nat : x = <<a, n>>
      BY <2>2
    <3> QED
      BY <2>1, <3>1
  <2>5. <<o, h[o] + 1>> \in Taken(g)
    BY <2>1
  <2> QED
    BY <2>3, <2>4, <2>5
<1> QED
  BY <1>3, <1>6, <1>7, FS_AddElement, FS_CardinalityType

\* An upload that takes a slot, or gives one back.
LEMMA SlotTaken ==
    ASSUME TypeOK, SlotInv, NEW u \in Upload, Reserve(u),
           slots[Host[u]][Owner[u]] < MaxPerActor,
           Cardinality(Taken(slots[Host[u]])) < MaxActive,
           Counted(u)', ~Counted(u), \A v \in Upload \ {u} : Counted(v)' <=> Counted(v)
    PROVE  SlotInv' /\ slots' \in [Proc -> [Actor -> Nat]]
<1> DEFINE h == Host[u]
           o == Owner[u]
<1>1. h \in Proc /\ o \in Actor /\ MaxPerActor \in Nat /\ MaxActive \in Nat
  BY UploadAssumption, PolicyAssumption
<1>2. slots' \in [Proc -> [Actor -> Nat]]
  BY <1>1 DEF Reserve, TypeOK
<1>3. /\ slots'[h][o] = slots[h][o] + 1
      /\ \A p \in Proc : \A a \in Actor : p # h \/ a # o => slots'[p][a] = slots[p][a]
  BY <1>1 DEF Reserve, TypeOK
<1>4. \A p \in Proc : \A a \in Actor : p # h \/ a # o => Holding(p, a)' = Holding(p, a)
  BY DEF Holding
<1>5. Cardinality(Holding(h, o)') = Cardinality(Holding(h, o)) + 1
  BY HoldingStep
<1>6. slots'[h][o] = Cardinality(Holding(h, o)') /\ slots'[h][o] <= MaxPerActor
  BY <1>1, <1>3, <1>5 DEF SlotInv, TypeOK
<1>7. \A p \in Proc : p # h => slots'[p] = slots[p]
  BY <1>1 DEF Reserve, TypeOK
<1>8. Cardinality(Taken(slots'[h])) <= MaxActive
  <2>1. /\ slots[h] \in [Actor -> Nat] /\ slots'[h] \in [Actor -> Nat]
        /\ slots'[h] = [slots[h] EXCEPT ![o] = @ + 1]
        /\ \A a \in Actor : slots[h][a] <= MaxPerActor
    BY <1>1, <1>2 DEF Reserve, SlotInv, TypeOK
  <2>2. /\ Cardinality(Taken(slots[h])) \in Nat
        /\ Cardinality(Taken(slots'[h])) = Cardinality(Taken(slots[h])) + 1
    BY <1>1, <2>1, TakenStep
  <2>3. Cardinality(Taken(slots[h])) < MaxActive
    OBVIOUS
  <2> DEFINE before == Cardinality(Taken(slots[h]))
             after == Cardinality(Taken(slots'[h]))
  <2>4. before \in Nat /\ before < MaxActive /\ after = before + 1
    BY <2>2, <2>3
  <2> HIDE DEF before, after
  <2>5. after <= MaxActive
    BY <1>1, <2>4
  <2> QED
    BY <2>5 DEF after
<1> HIDE DEF h, o
<1> QED
  BY <1>2, <1>3, <1>4, <1>6, <1>7, <1>8 DEF SlotInv

LEMMA SlotGiven ==
    ASSUME TypeOK, SlotInv, NEW u \in Upload, Release(u),
           ~Counted(u)', Counted(u), \A v \in Upload \ {u} : Counted(v)' <=> Counted(v)
    PROVE  SlotInv' /\ slots' \in [Proc -> [Actor -> Nat]]
<1> DEFINE h == Host[u]
           o == Owner[u]
<1>1. h \in Proc /\ o \in Actor /\ MaxPerActor \in Nat /\ MaxActive \in Nat
  BY UploadAssumption, PolicyAssumption
<1>3. /\ slots'[h][o] = slots[h][o] - 1
      /\ \A p \in Proc : \A a \in Actor : p # h \/ a # o => slots'[p][a] = slots[p][a]
  BY <1>1 DEF Release, TypeOK
<1>4. \A p \in Proc : \A a \in Actor : p # h \/ a # o => Holding(p, a)' = Holding(p, a)
  BY DEF Holding
<1>5. /\ Cardinality(Holding(h, o)') = Cardinality(Holding(h, o)) - 1
      /\ Cardinality(Holding(h, o)') \in Nat
  BY HoldingStep
<1>6. slots'[h][o] = Cardinality(Holding(h, o)') /\ slots'[h][o] <= MaxPerActor
  BY <1>1, <1>3, <1>5 DEF SlotInv, TypeOK
<1>2. slots' \in [Proc -> [Actor -> Nat]]
  BY <1>1, <1>5, <1>6 DEF Release, TypeOK
<1>7. \A p \in Proc : p # h => slots'[p] = slots[p]
  BY <1>1 DEF Release, TypeOK
<1>8. Cardinality(Taken(slots'[h])) <= MaxActive
  <2>0. slots[h] \in [Actor -> Nat] /\ slots'[h] \in [Actor -> Nat]
    BY <1>1, <1>2 DEF TypeOK
  <2>a. slots[h][o] = slots'[h][o] + 1 /\ \A a \in Actor \ {o} : slots'[h][a] = slots[h][a]
    BY <1>1, <1>3, <2>0
  <2>b. slots[h] = [slots'[h] EXCEPT ![o] = @ + 1]
    BY <1>1, <2>0, <2>a
  <2>c. \A a \in Actor : slots'[h][a] <= MaxPerActor
    BY <1>1, <1>6, <2>a DEF SlotInv
  <2>1. /\ slots[h] \in [Actor -> Nat] /\ slots'[h] \in [Actor -> Nat]
        /\ slots[h] = [slots'[h] EXCEPT ![o] = @ + 1]
        /\ \A a \in Actor : slots'[h][a] <= MaxPerActor
    BY <2>0, <2>b, <2>c
  <2>2. /\ Cardinality(Taken(slots'[h])) \in Nat
        /\ Cardinality(Taken(slots[h])) = Cardinality(Taken(slots'[h])) + 1
        /\ Cardinality(Taken(slots[h])) <= MaxActive
    BY <1>1, <2>1, TakenStep DEF SlotInv
  <2> QED
    BY <1>1, <2>2
<1> HIDE DEF h, o
<1> QED
  BY <1>2, <1>3, <1>4, <1>6, <1>7, <1>8 DEF SlotInv
-----------------------------------------------------------------------------
(* The steps of a record that leave the files alone.                       *)

\* The other records are left alone.
OthersKept(u) ==
    \A v \in Upload \ {u} :
      /\ phase'[v] = phase[v] /\ accepted'[v] = accepted[v]
      /\ age'[v] = age[v] /\ op'[v] = op[v]

\* A step of one record, with the files and the observations as they were.
RecordStep(u) ==
    /\ OthersKept(u)
    /\ phase' \in [Upload -> {"new", "creating", "created", "refused", "Active", "InFlight",
                              "Aborted", "Finished", "lost"}]
    /\ accepted' \in [Upload -> 0..Size]
    /\ age' \in [Upload -> 0..Idle]
    /\ op' \in [Upload -> {Free} \cup [job : Kinds, st : {"queued", "running", "ok", "err"},
                                      sweep : BOOLEAN]]
    /\ UNCHANGED <<seen, storeVars, crashes>>
    /\ jobs' = jobs \/ (jobs' = jobs \cup {[u |-> u, kind |-> op[u].job]} /\ op[u] # Free)

\* What is left to show of such a step is about its own record.
LEMMA RecordStepIInv ==
    ASSUME IInv, NEW u \in Upload, RecordStep(u), OpKept(u)', StagedKept(u)', SlotInv',
           slots' \in [Proc -> [Actor -> Nat]],
           \A j \in jobs' : j.u = u => JobKept(j)',
           \A j, k \in jobs' : Host[j.u] = Host[k.u] => j = k,
           op'[u].st = "running" => [u |-> u, kind |-> op'[u].job] \in jobs'
    PROVE  IInv'
<1> USE DEF IInv, RecordStep, OthersKept
<1>1. jobs' \subseteq [u : Upload, kind : Kinds]
  BY DEF TypeOK, Free, Kinds
<1>2. TypeOK'
  BY <1>1 DEF TypeOK, storeVars
<1>3. \A v \in Upload \ {u} : OpKept(v)' /\ StagedKept(v)'
  BY DEF OpInv, StagedInv, OpKept, StagedKept, Fresh, storeVars
<1>4. \A j \in jobs' : j.u # u => JobKept(j)'
  <2> SUFFICES ASSUME NEW j \in jobs', j.u # u PROVE JobKept(j)'
    OBVIOUS
  <2>1. j \in jobs /\ j.u \in Upload
    BY DEF TypeOK
  <2> QED
    BY <2>1 DEF JobInv, JobKept, storeVars
<1>5. \A v \in Upload \ {u} : op'[v].st = "running" => [u |-> v, kind |-> op'[v].job] \in jobs'
  BY DEF JobInv
<1>6. JobInv'
  BY <1>4, <1>5 DEF JobInv
<1>7. SeenInv'
  BY DEF SeenInv, SeenKept, storeVars
<1>8. ObjectInv'
  BY DEF ObjectInv, storeVars
<1> QED
  BY <1>2, <1>3, <1>6, <1>7, <1>8 DEF OpInv, StagedInv

\* The steps of a record without its slot.
LEMMA RecordActionIInv ==
    ASSUME IInv, NEW u \in Upload,
           \/ BeginKnown(u) \/ PutPart(u) \/ ResendTail(u) \/ Commit(u) \/ Discard(u)
           \/ Cancel(u) \/ BeginRegisters(u) \/ JobSpawns(u) \/ Accepted(u)
           \/ FailsAndDiscards(u) \/ DiscardFails(u) \/ SweepDiscards(u)
    PROVE  IInv'
<1>0. Size \in Nat /\ Idle \in Nat \ {0}
  BY PolicyAssumption
<1>a. TypeOK /\ OpKept(u) /\ StagedKept(u) /\ \A j \in jobs : j.u = u => JobKept(j)
  BY DEF IInv, OpInv, StagedInv, JobInv
<1>b. /\ \A j, k \in jobs : Host[j.u] = Host[k.u] => j = k
      /\ op[u].st = "running" => [u |-> u, kind |-> op[u].job] \in jobs
  BY DEF IInv, JobInv
<1>1. CASE BeginKnown(u)
  <2>1. RecordStep(u) /\ slots' = slots
    BY <1>1, <1>a, <1>0 DEF RecordStep, OthersKept, TypeOK, Free, Kinds, BeginKnown
  <2>2. OpKept(u)'
    BY <1>1, <1>a, <1>0 DEF OpKept, TypeOK, Free, Kinds, storeVars, BeginKnown
  <2>3. StagedKept(u)'
    BY <1>1, <1>a, <1>0 DEF OpKept, StagedKept, Fresh, TypeOK, Free, Kinds, storeVars,
       BeginKnown
  <2>4. \A j \in jobs' : j.u = u => JobKept(j)'
    BY <1>1, <1>a, <1>0 DEF JobKept, OpKept, StagedKept, TypeOK, Free, Kinds, storeVars,
       BeginKnown
  <2>5. /\ \A j, k \in jobs' : Host[j.u] = Host[k.u] => j = k
        /\ op'[u].st = "running" => [u |-> u, kind |-> op'[u].job] \in jobs'
    BY <1>1, <1>a, <1>b DEF TypeOK, Free, Kinds, BeginKnown
  <2>6. \A v \in Upload : Counted(v)' <=> Counted(v)
    BY <1>1, <1>a DEF TypeOK, OpKept, Counted, Free, Kinds, BeginKnown
  <2>7. SlotInv' /\ slots' \in [Proc -> [Actor -> Nat]]
    BY <2>1, <2>6, SlotsSame DEF IInv, TypeOK
  <2> QED
    BY <2>1, <2>2, <2>3, <2>4, <2>5, <2>7, RecordStepIInv
<1>2. CASE PutPart(u)
  <2>1. RecordStep(u) /\ slots' = slots
    BY <1>2, <1>a, <1>0 DEF RecordStep, OthersKept, TypeOK, Free, Kinds, PutPart, Live, Queue
  <2>2. OpKept(u)'
    BY <1>2, <1>a, <1>0 DEF OpKept, TypeOK, Free, Kinds, storeVars, PutPart, Live, Queue
  <2>3. StagedKept(u)'
    BY <1>2, <1>a, <1>0 DEF OpKept, StagedKept, Fresh, TypeOK, Free, Kinds, storeVars,
       PutPart, Live, Queue
  <2>4. \A j \in jobs' : j.u = u => JobKept(j)'
    BY <1>2, <1>a, <1>0 DEF JobKept, OpKept, StagedKept, TypeOK, Free, Kinds, storeVars,
       PutPart, Live, Queue
  <2>5. /\ \A j, k \in jobs' : Host[j.u] = Host[k.u] => j = k
        /\ op'[u].st = "running" => [u |-> u, kind |-> op'[u].job] \in jobs'
    BY <1>2, <1>a, <1>b DEF TypeOK, Free, Kinds, PutPart, Live, Queue
  <2>6. \A v \in Upload : Counted(v)' <=> Counted(v)
    BY <1>2, <1>a DEF TypeOK, OpKept, Counted, Free, Kinds, PutPart, Live, Queue
  <2>7. SlotInv' /\ slots' \in [Proc -> [Actor -> Nat]]
    BY <2>1, <2>6, SlotsSame DEF IInv, TypeOK
  <2> QED
    BY <2>1, <2>2, <2>3, <2>4, <2>5, <2>7, RecordStepIInv
<1>3. CASE ResendTail(u)
  <2>1. RecordStep(u) /\ slots' = slots
    BY <1>3, <1>a, <1>0 DEF RecordStep, OthersKept, TypeOK, Free, Kinds, ResendTail, Live, Queue
  <2>2. OpKept(u)'
    BY <1>3, <1>a, <1>0 DEF OpKept, TypeOK, Free, Kinds, storeVars, ResendTail, Live, Queue
  <2>3. StagedKept(u)'
    BY <1>3, <1>a, <1>0 DEF OpKept, StagedKept, Fresh, TypeOK, Free, Kinds, storeVars,
       ResendTail, Live, Queue
  <2>4. \A j \in jobs' : j.u = u => JobKept(j)'
    BY <1>3, <1>a, <1>0 DEF JobKept, OpKept, StagedKept, TypeOK, Free, Kinds, storeVars,
       ResendTail, Live, Queue
  <2>5. /\ \A j, k \in jobs' : Host[j.u] = Host[k.u] => j = k
        /\ op'[u].st = "running" => [u |-> u, kind |-> op'[u].job] \in jobs'
    BY <1>3, <1>a, <1>b DEF TypeOK, Free, Kinds, ResendTail, Live, Queue
  <2>6. \A v \in Upload : Counted(v)' <=> Counted(v)
    BY <1>3, <1>a DEF TypeOK, OpKept, Counted, Free, Kinds, ResendTail, Live, Queue
  <2>7. SlotInv' /\ slots' \in [Proc -> [Actor -> Nat]]
    BY <2>1, <2>6, SlotsSame DEF IInv, TypeOK
  <2> QED
    BY <2>1, <2>2, <2>3, <2>4, <2>5, <2>7, RecordStepIInv
<1>4. CASE Commit(u)
  <2>1. RecordStep(u) /\ slots' = slots
    BY <1>4, <1>a, <1>0 DEF RecordStep, OthersKept, TypeOK, Free, Kinds, Commit, Live, Queue
  <2>2. OpKept(u)'
    BY <1>4, <1>a, <1>0 DEF OpKept, TypeOK, Free, Kinds, storeVars, Commit, Live, Queue
  <2>3. StagedKept(u)'
    BY <1>4, <1>a, <1>0 DEF OpKept, StagedKept, Fresh, TypeOK, Free, Kinds, storeVars,
       Commit, Live, Queue
  <2>4. \A j \in jobs' : j.u = u => JobKept(j)'
    BY <1>4, <1>a, <1>0 DEF JobKept, OpKept, StagedKept, TypeOK, Free, Kinds, storeVars,
       Commit, Live, Queue
  <2>5. /\ \A j, k \in jobs' : Host[j.u] = Host[k.u] => j = k
        /\ op'[u].st = "running" => [u |-> u, kind |-> op'[u].job] \in jobs'
    BY <1>4, <1>a, <1>b DEF TypeOK, Free, Kinds, Commit, Live, Queue
  <2>6. \A v \in Upload : Counted(v)' <=> Counted(v)
    BY <1>4, <1>a DEF TypeOK, OpKept, Counted, Free, Kinds, Commit, Live, Queue
  <2>7. SlotInv' /\ slots' \in [Proc -> [Actor -> Nat]]
    BY <2>1, <2>6, SlotsSame DEF IInv, TypeOK
  <2> QED
    BY <2>1, <2>2, <2>3, <2>4, <2>5, <2>7, RecordStepIInv
<1>5. CASE Discard(u)
  <2>1. RecordStep(u) /\ slots' = slots
    BY <1>5, <1>a, <1>0 DEF RecordStep, OthersKept, TypeOK, Free, Kinds, Discard,
       Discards, Queue
  <2>2. OpKept(u)'
    BY <1>5, <1>a, <1>0 DEF OpKept, TypeOK, Free, Kinds, storeVars, Discard, Discards, Queue
  <2>3. StagedKept(u)'
    BY <1>5, <1>a, <1>0 DEF OpKept, StagedKept, Fresh, TypeOK, Free, Kinds, storeVars,
       Discard, Discards, Queue
  <2>4. \A j \in jobs' : j.u = u => JobKept(j)'
    BY <1>5, <1>a, <1>0 DEF JobKept, OpKept, StagedKept, TypeOK, Free, Kinds, storeVars,
       Discard, Discards, Queue
  <2>5. /\ \A j, k \in jobs' : Host[j.u] = Host[k.u] => j = k
        /\ op'[u].st = "running" => [u |-> u, kind |-> op'[u].job] \in jobs'
    BY <1>5, <1>a, <1>b DEF TypeOK, Free, Kinds, Discard, Discards, Queue
  <2>6. \A v \in Upload : Counted(v)' <=> Counted(v)
    BY <1>5, <1>a DEF TypeOK, OpKept, Counted, Free, Kinds, Discard, Discards, Queue
  <2>7. SlotInv' /\ slots' \in [Proc -> [Actor -> Nat]]
    BY <2>1, <2>6, SlotsSame DEF IInv, TypeOK
  <2> QED
    BY <2>1, <2>2, <2>3, <2>4, <2>5, <2>7, RecordStepIInv
<1>6. CASE Cancel(u)
  <2>1. RecordStep(u) /\ slots' = slots
    BY <1>6, <1>a, <1>0 DEF RecordStep, OthersKept, TypeOK, Free, Kinds, Cancel
  <2>2. OpKept(u)'
    BY <1>6, <1>a, <1>0 DEF OpKept, TypeOK, Free, Kinds, storeVars, Cancel
  <2>3. StagedKept(u)'
    BY <1>6, <1>a, <1>0 DEF OpKept, StagedKept, Fresh, TypeOK, Free, Kinds, storeVars, Cancel
  <2>4. \A j \in jobs' : j.u = u => JobKept(j)'
    BY <1>6, <1>a, <1>0 DEF JobKept, OpKept, StagedKept, TypeOK, Free, Kinds, storeVars, Cancel
  <2>5. /\ \A j, k \in jobs' : Host[j.u] = Host[k.u] => j = k
        /\ op'[u].st = "running" => [u |-> u, kind |-> op'[u].job] \in jobs'
    BY <1>6, <1>a, <1>b DEF TypeOK, Free, Kinds, Cancel
  <2>6. \A v \in Upload : Counted(v)' <=> Counted(v)
    BY <1>6, <1>a DEF TypeOK, OpKept, Counted, Free, Kinds, Cancel
  <2>7. SlotInv' /\ slots' \in [Proc -> [Actor -> Nat]]
    BY <2>1, <2>6, SlotsSame DEF IInv, TypeOK
  <2> QED
    BY <2>1, <2>2, <2>3, <2>4, <2>5, <2>7, RecordStepIInv
<1>7. CASE BeginRegisters(u)
  <2>1. RecordStep(u) /\ slots' = slots
    BY <1>7, <1>a, <1>0 DEF RecordStep, OthersKept, TypeOK, Free, Kinds, BeginRegisters
  <2>2. OpKept(u)'
    BY <1>7, <1>a, <1>0 DEF OpKept, TypeOK, Free, Kinds, storeVars, BeginRegisters
  <2>3. StagedKept(u)'
    BY <1>7, <1>a, <1>0 DEF OpKept, StagedKept, Fresh, TypeOK, Free, Kinds, storeVars,
       BeginRegisters
  <2>4. \A j \in jobs' : j.u = u => JobKept(j)'
    BY <1>7, <1>a, <1>0 DEF JobKept, OpKept, StagedKept, TypeOK, Free, Kinds, storeVars,
       BeginRegisters
  <2>5. /\ \A j, k \in jobs' : Host[j.u] = Host[k.u] => j = k
        /\ op'[u].st = "running" => [u |-> u, kind |-> op'[u].job] \in jobs'
    BY <1>7, <1>a, <1>b DEF TypeOK, Free, Kinds, BeginRegisters
  <2>6. \A v \in Upload : Counted(v)' <=> Counted(v)
    BY <1>7, <1>a DEF TypeOK, OpKept, Counted, Free, Kinds, BeginRegisters
  <2>7. SlotInv' /\ slots' \in [Proc -> [Actor -> Nat]]
    BY <2>1, <2>6, SlotsSame DEF IInv, TypeOK
  <2> QED
    BY <2>1, <2>2, <2>3, <2>4, <2>5, <2>7, RecordStepIInv
<1>8. CASE JobSpawns(u)
  <2>1. RecordStep(u) /\ slots' = slots
    <3>1. op[u] \in [job : Kinds, st : {"queued", "running", "ok", "err"}, sweep : BOOLEAN]
      BY <1>8, <1>a DEF TypeOK, Free, JobSpawns
    <3>2. /\ op[u] # Free
          /\ [op[u] EXCEPT !.st = "running"] \in
               [job : Kinds, st : {"queued", "running", "ok", "err"}, sweep : BOOLEAN]
      BY <1>8, <3>1 DEF Free, JobSpawns
    <3>3. op' \in [Upload -> {Free} \cup [job : Kinds, st : {"queued", "running", "ok", "err"},
                                          sweep : BOOLEAN]]
      BY <1>8, <1>a, <3>2 DEF TypeOK, JobSpawns
    <3> QED
      BY <1>8, <1>a, <3>2, <3>3 DEF RecordStep, OthersKept, TypeOK, JobSpawns
  <2>2. OpKept(u)'
    BY <1>8, <1>a, <1>0 DEF OpKept, TypeOK, Free, Kinds, storeVars, JobSpawns, WriteLocked
  <2>3. StagedKept(u)'
    BY <1>8, <1>a, <1>0 DEF OpKept, StagedKept, Fresh, TypeOK, Free, Kinds, storeVars,
       JobSpawns, WriteLocked
  <2>4. \A j \in jobs' : j.u = u => JobKept(j)'
    BY <1>8, <1>a, <1>0 DEF JobKept, OpKept, StagedKept, TypeOK, Free, Kinds, storeVars,
       JobSpawns, WriteLocked
  <2>5. /\ \A j, k \in jobs' : Host[j.u] = Host[k.u] => j = k
        /\ op'[u].st = "running" => [u |-> u, kind |-> op'[u].job] \in jobs'
    BY <1>8, <1>a, <1>b DEF TypeOK, Free, Kinds, JobSpawns, WriteLocked
  <2>6. \A v \in Upload : Counted(v)' <=> Counted(v)
    BY <1>8, <1>a DEF TypeOK, OpKept, Counted, Free, Kinds, JobSpawns, WriteLocked
  <2>7. SlotInv' /\ slots' \in [Proc -> [Actor -> Nat]]
    BY <2>1, <2>6, SlotsSame DEF IInv, TypeOK
  <2> QED
    BY <2>1, <2>2, <2>3, <2>4, <2>5, <2>7, RecordStepIInv
<1>9. CASE Accepted(u)
  <2>1. RecordStep(u) /\ slots' = slots
    <3>1. accepted' \in [Upload -> 0..Size]
      BY <1>9, <1>a, <1>0 DEF TypeOK, OpKept, Accepted
    <3> QED
      BY <1>9, <1>a, <1>0, <3>1
      DEF RecordStep, OthersKept, TypeOK, Free, Kinds, Accepted, Succeeds
  <2>2. OpKept(u)'
    BY <1>9, <1>a, <1>0 DEF OpKept, TypeOK, Free, Kinds, storeVars, Accepted, Succeeds
  <2>3. StagedKept(u)'
    BY <1>9, <1>a, <1>0 DEF OpKept, StagedKept, Fresh, TypeOK, Free, Kinds, storeVars,
       Accepted, Succeeds
  <2>4. \A j \in jobs' : j.u = u => JobKept(j)'
    BY <1>9, <1>a, <1>0 DEF JobKept, OpKept, StagedKept, TypeOK, Free, Kinds, storeVars,
       Accepted, Succeeds
  <2>5. /\ \A j, k \in jobs' : Host[j.u] = Host[k.u] => j = k
        /\ op'[u].st = "running" => [u |-> u, kind |-> op'[u].job] \in jobs'
    BY <1>9, <1>a, <1>b DEF TypeOK, Free, Kinds, Accepted, Succeeds
  <2>6. \A v \in Upload : Counted(v)' <=> Counted(v)
    BY <1>9, <1>a DEF TypeOK, OpKept, Counted, Free, Kinds, Accepted, Succeeds
  <2>7. SlotInv' /\ slots' \in [Proc -> [Actor -> Nat]]
    BY <2>1, <2>6, SlotsSame DEF IInv, TypeOK
  <2> QED
    BY <2>1, <2>2, <2>3, <2>4, <2>5, <2>7, RecordStepIInv
<1>10. CASE FailsAndDiscards(u)
  <2>1. RecordStep(u) /\ slots' = slots
    BY <1>10, <1>a, <1>0 DEF RecordStep, OthersKept, TypeOK, Free, Kinds,
       FailsAndDiscards, Queue
  <2>2. OpKept(u)'
    BY <1>10, <1>a, <1>0 DEF OpKept, TypeOK, Free, Kinds, storeVars, FailsAndDiscards, Queue
  <2>3. StagedKept(u)'
    BY <1>10, <1>a, <1>0 DEF OpKept, StagedKept, Fresh, TypeOK, Free, Kinds, storeVars,
       FailsAndDiscards, Queue
  <2>4. \A j \in jobs' : j.u = u => JobKept(j)'
    BY <1>10, <1>a, <1>0 DEF JobKept, OpKept, StagedKept, TypeOK, Free, Kinds, storeVars,
       FailsAndDiscards, Queue
  <2>5. /\ \A j, k \in jobs' : Host[j.u] = Host[k.u] => j = k
        /\ op'[u].st = "running" => [u |-> u, kind |-> op'[u].job] \in jobs'
    BY <1>10, <1>a, <1>b DEF TypeOK, Free, Kinds, FailsAndDiscards, Queue
  <2>6. \A v \in Upload : Counted(v)' <=> Counted(v)
    BY <1>10, <1>a DEF TypeOK, OpKept, Counted, Free, Kinds, FailsAndDiscards, Queue
  <2>7. SlotInv' /\ slots' \in [Proc -> [Actor -> Nat]]
    BY <2>1, <2>6, SlotsSame DEF IInv, TypeOK
  <2> QED
    BY <2>1, <2>2, <2>3, <2>4, <2>5, <2>7, RecordStepIInv
<1>11. CASE DiscardFails(u)
  <2>1. RecordStep(u) /\ slots' = slots
    BY <1>11, <1>a, <1>0 DEF RecordStep, OthersKept, TypeOK, Free, Kinds, DiscardFails
  <2>2. OpKept(u)'
    BY <1>11, <1>a, <1>0 DEF OpKept, TypeOK, Free, Kinds, storeVars, DiscardFails
  <2>3. StagedKept(u)'
    BY <1>11, <1>a, <1>0 DEF OpKept, StagedKept, Fresh, TypeOK, Free, Kinds, storeVars,
       DiscardFails
  <2>4. \A j \in jobs' : j.u = u => JobKept(j)'
    BY <1>11, <1>a, <1>0 DEF JobKept, OpKept, StagedKept, TypeOK, Free, Kinds, storeVars,
       DiscardFails
  <2>5. /\ \A j, k \in jobs' : Host[j.u] = Host[k.u] => j = k
        /\ op'[u].st = "running" => [u |-> u, kind |-> op'[u].job] \in jobs'
    BY <1>11, <1>a, <1>b DEF TypeOK, Free, Kinds, DiscardFails
  <2>6. \A v \in Upload : Counted(v)' <=> Counted(v)
    BY <1>11, <1>a DEF TypeOK, OpKept, Counted, Free, Kinds, DiscardFails
  <2>7. SlotInv' /\ slots' \in [Proc -> [Actor -> Nat]]
    BY <2>1, <2>6, SlotsSame DEF IInv, TypeOK
  <2> QED
    BY <2>1, <2>2, <2>3, <2>4, <2>5, <2>7, RecordStepIInv
<1>12. CASE SweepDiscards(u)
  <2>1. RecordStep(u) /\ slots' = slots
    BY <1>12, <1>a, <1>0 DEF RecordStep, OthersKept, TypeOK, Free, Kinds, SweepDiscards,
       Discards, Queue
  <2>2. OpKept(u)'
    BY <1>12, <1>a, <1>0 DEF OpKept, TypeOK, Free, Kinds, storeVars, SweepDiscards,
       Discards, Queue
  <2>3. StagedKept(u)'
    BY <1>12, <1>a, <1>0 DEF OpKept, StagedKept, Fresh, TypeOK, Free, Kinds, storeVars,
       SweepDiscards, Discards, Queue
  <2>4. \A j \in jobs' : j.u = u => JobKept(j)'
    BY <1>12, <1>a, <1>0 DEF JobKept, OpKept, StagedKept, TypeOK, Free, Kinds, storeVars,
       SweepDiscards, Discards, Queue
  <2>5. /\ \A j, k \in jobs' : Host[j.u] = Host[k.u] => j = k
        /\ op'[u].st = "running" => [u |-> u, kind |-> op'[u].job] \in jobs'
    BY <1>12, <1>a, <1>b DEF TypeOK, Free, Kinds, SweepDiscards, Discards, Queue
  <2>6. \A v \in Upload : Counted(v)' <=> Counted(v)
    BY <1>12, <1>a DEF TypeOK, OpKept, Counted, Free, Kinds, SweepDiscards, Discards, Queue
  <2>7. SlotInv' /\ slots' \in [Proc -> [Actor -> Nat]]
    BY <2>1, <2>6, SlotsSame DEF IInv, TypeOK
  <2> QED
    BY <2>1, <2>2, <2>3, <2>4, <2>5, <2>7, RecordStepIInv
<1> QED
  BY <1>1, <1>2, <1>3, <1>4, <1>5, <1>6, <1>7, <1>8, <1>9, <1>10, <1>11, <1>12

\* The steps of a record that take its slot or give it back.
LEMMA SlotActionIInv ==
    ASSUME IInv, NEW u \in Upload, Begin(u) \/ Finishes(u)
    PROVE  IInv'
<1>0. Size \in Nat /\ Idle \in Nat \ {0}
  BY PolicyAssumption
<1>a. TypeOK /\ OpKept(u) /\ StagedKept(u) /\ \A j \in jobs : j.u = u => JobKept(j)
  BY DEF IInv, OpInv, StagedInv, JobInv
<1>b. /\ \A j, k \in jobs : Host[j.u] = Host[k.u] => j = k
      /\ op[u].st = "running" => [u |-> u, kind |-> op[u].job] \in jobs
  BY DEF IInv, JobInv
<1>1. CASE Begin(u)
  <2>1. RecordStep(u)
    BY <1>1, <1>a, <1>0 DEF RecordStep, OthersKept, TypeOK, Begin
  <2>2. OpKept(u)' /\ StagedKept(u)' /\ \A j \in jobs' : j.u = u => JobKept(j)'
    BY <1>1, <1>a, <1>0 DEF OpKept, StagedKept, JobKept, Fresh, TypeOK, Free, Kinds, storeVars,
       Begin
  <2>3. /\ \A j, k \in jobs' : Host[j.u] = Host[k.u] => j = k
        /\ op'[u].st = "running" => [u |-> u, kind |-> op'[u].job] \in jobs'
    BY <1>1, <1>b DEF Begin
  <2>4. /\ Counted(u)' /\ ~Counted(u)
        /\ \A v \in Upload \ {u} : Counted(v)' <=> Counted(v)
        /\ Reserve(u) /\ slots[Host[u]][Owner[u]] < MaxPerActor
        /\ Cardinality(Taken(slots[Host[u]])) < MaxActive
    BY <1>1, <1>a DEF Counted, TypeOK, Begin
  <2>5. SlotInv' /\ slots' \in [Proc -> [Actor -> Nat]]
    BY <1>a, <2>4, SlotTaken DEF IInv
  <2> QED
    BY <2>1, <2>2, <2>3, <2>5, RecordStepIInv
<1>2. CASE Finishes(u)
  <2>1. RecordStep(u)
    BY <1>2, <1>a, <1>0 DEF RecordStep, OthersKept, TypeOK, Finishes, Succeeds, Forget
  <2>2. OpKept(u)' /\ StagedKept(u)' /\ \A j \in jobs' : j.u = u => JobKept(j)'
    BY <1>2, <1>a, <1>0 DEF OpKept, StagedKept, JobKept, Fresh, TypeOK, Free, Kinds, storeVars,
       Finishes, Succeeds, Forget
  <2>3. /\ \A j, k \in jobs' : Host[j.u] = Host[k.u] => j = k
        /\ op'[u].st = "running" => [u |-> u, kind |-> op'[u].job] \in jobs'
    BY <1>2, <1>a, <1>b DEF TypeOK, Free, Finishes, Succeeds
  <2>4. /\ Counted(u) /\ ~Counted(u)'
        /\ \A v \in Upload \ {u} : Counted(v)' <=> Counted(v)
        /\ Release(u)
    BY <1>2, <1>a DEF Counted, OpKept, TypeOK, Finishes, Succeeds, Forget
  <2>5. SlotInv' /\ slots' \in [Proc -> [Actor -> Nat]]
    BY <1>a, <2>4, SlotGiven DEF IInv
  <2> QED
    BY <2>1, <2>2, <2>3, <2>5, RecordStepIInv
<1> QED
  BY <1>1, <1>2

-----------------------------------------------------------------------------
(* What happens to the files of one upload.                                *)

FilesTyped ==
    /\ staged' \in [Upload -> Seq(0..Size) \cup {None}]
    /\ lease' \in [Upload -> Nat \cup {None}]
    /\ wall' \in [Upload -> 0..(Idle + Day)]

OtherFilesKept(u) ==
    \A v \in Upload \ {u} :
      staged'[v] = staged[v] /\ lease'[v] = lease[v] /\ wall'[v] = wall[v]

\* They go, or stay with the lease they have, or with the next one.
FilesMove(u) ==
    /\ FilesTyped
    /\ OtherFilesKept(u)
    /\ \/ staged'[u] = None
       \/ /\ staged[u] # None
          /\ \/ lease'[u] = lease[u] /\ wall'[u] = wall[u]
             \/ lease[u] \in Nat /\ lease'[u] = lease[u] + 1 /\ wall'[u] = 0

\* An observation goes when the staging does, and before perhaps.
SeenShrinks ==
    /\ seen' \in [Proc -> [Upload -> [seq : Nat, age : 0..(Idle + Margin)] \cup {None}]]
    /\ \A p \in Proc : \A u \in Upload :
         /\ seen'[p][u] \in {None, seen[p][u]}
         /\ staged'[u] = None => seen'[p][u] = None

\* The observations of the sweeps stay true.
LEMMA SeenAfterFiles ==
    ASSUME IInv, NEW u \in Upload, FilesMove(u), SeenShrinks
    PROVE  SeenInv'
<1> SUFFICES ASSUME NEW p \in Proc, NEW v \in Upload, seen'[p][v] # None
             PROVE  SeenKept(p, v)'
  BY DEF SeenInv, SeenKept
<1>1. seen'[p][v] = seen[p][v] /\ staged'[v] # None /\ SeenKept(p, v)
  BY DEF SeenShrinks, IInv, SeenInv
<1>2. seen[p][v] \in [seq : Nat, age : 0..(Idle + Margin)]
  BY <1>1 DEF IInv, TypeOK
<1>3. CASE v # u
  BY <1>1, <1>3 DEF SeenKept, FilesMove, OtherFilesKept
<1>4. CASE v = u
  <2>1. lease[u] \in Nat
    BY <1>1, <1>4 DEF SeenKept, IInv, TypeOK
  <2>2. CASE lease'[u] = lease[u] /\ wall'[u] = wall[u]
    BY <1>1, <1>4, <2>2 DEF SeenKept
  <2>3. CASE lease'[u] = lease[u] + 1 /\ wall'[u] = 0
    BY <1>1, <1>2, <1>4, <2>1, <2>3, NoneAssumption DEF SeenKept
  <2> QED
    BY <1>1, <1>4, <2>2, <2>3 DEF FilesMove
<1> QED
  BY <1>3, <1>4

\* A file that was just written is not old.
LEMMA JustNow == 0 \in 0..(Idle + Day) /\ Size \in Nat /\ Idle \in Nat \ {0}
<1>1. Idle \in Nat /\ Day \in Nat /\ Size \in Nat /\ Idle # 0
  BY PolicyAssumption
<1> QED
  BY <1>1

\* What a renewal, an unlink and a publication do.
LEMMA RenewsMoves ==
    ASSUME TypeOK, NEW u \in Upload, Renews(u),
           staged' \in [Upload -> Seq(0..Size) \cup {None}],
           \A v \in Upload \ {u} : staged'[v] = staged[v]
    PROVE  FilesMove(u) /\ lease'[u] # None /\ wall'[u] = 0 /\ objects' = objects
<1>1. lease[u] \in Nat /\ staged[u] # None
  BY DEF TypeOK, Renews, Renewable
<1>2. lease'[u] = lease[u] + 1 /\ wall'[u] = 0 /\ FilesTyped /\ OtherFilesKept(u)
  <2>1. lease' = [lease EXCEPT ![u] = @ + 1] /\ wall' = [wall EXCEPT ![u] = 0]
    BY DEF Renews
  <2>2. lease' \in [Upload -> Nat \cup {None}] /\ lease'[u] = lease[u] + 1
    BY <1>1, <2>1 DEF TypeOK
  <2>3. wall' \in [Upload -> 0..(Idle + Day)] /\ wall'[u] = 0
    BY <2>1, JustNow DEF TypeOK
  <2> QED
    BY <2>1, <2>2, <2>3 DEF TypeOK, FilesTyped, OtherFilesKept
<1> QED
  BY <1>1, <1>2, NoneAssumption DEF FilesMove, Renews

LEMMA AppendTyped ==
    ASSUME IInv, NEW j \in jobs, j.kind = "append", staged[j.u] # None,
           NEW part \in {Torn, accepted[j.u] + 1},
           staged' = [staged EXCEPT ![j.u] = Append(@, part)]
    PROVE  /\ staged' \in [Upload -> Seq(0..Size) \cup {None}]
           /\ staged'[j.u] = Append(staged[j.u], part)
           /\ staged'[j.u] # None
           /\ \A v \in Upload \ {j.u} : staged'[v] = staged[v]
<1>1. j.u \in Upload /\ accepted[j.u] \in 0..Size /\ accepted[j.u] < Size /\ Size \in Nat
  BY PolicyAssumption DEF IInv, TypeOK, JobInv, JobKept
<1>2. part \in 0..Size
  BY <1>1 DEF Torn
<1>3. Append(staged[j.u], part) \in Seq(0..Size)
  BY <1>1, <1>2 DEF IInv, TypeOK
<1> QED
  BY <1>1, <1>3, NoneAssumption DEF IInv, TypeOK

LEMMA UnstagesMoves ==
    ASSUME TypeOK, NEW u \in Upload, Unstages(u), lease' = lease \/ CleansUp(u)
    PROVE  FilesMove(u) /\ staged'[u] = None
<1>1. wall' \in [Upload -> 0..(Idle + Day)]
  BY JustNow DEF TypeOK, Unstages
<1>2. staged' \in [Upload -> Seq(0..Size) \cup {None}] /\ staged'[u] = None
  BY DEF TypeOK, Unstages
<1>3. lease' \in [Upload -> Nat \cup {None}]
  BY DEF TypeOK, CleansUp
<1> QED
  BY <1>1, <1>2, <1>3 DEF TypeOK, Unstages, CleansUp, FilesMove, FilesTyped, OtherFilesKept

\* A job that publishes has all the parts that were declared.
LEMMA PublishesObject ==
    ASSUME IInv, NEW j \in jobs, j.kind = "commit", Publishes(j.u)
    PROVE  ObjectInv'
<1>1. accepted[j.u] = Size /\ staged[j.u] = Digest(Size)
  BY DEF IInv, JobInv, JobKept, Publishes
<1> QED
  BY <1>1 DEF IInv, ObjectInv, Publishes

\* What a job leaves behind, however far it got.
LEMMA LeavesMoves ==
    ASSUME IInv, NEW j \in jobs, Leaves(j)
    PROVE  FilesMove(j.u) /\ ObjectInv'
<1>0. j.u \in Upload /\ TypeOK
  BY DEF IInv, TypeOK
<1>1. CASE UNCHANGED storeVars
  BY <1>0, <1>1 DEF IInv, TypeOK, storeVars, FilesMove, FilesTyped, OtherFilesKept, ObjectInv
<1>2. ASSUME j.kind = "append", Renewable(j.u), NEW part \in {Torn, accepted[j.u] + 1},
             staged' = [staged EXCEPT ![j.u] = Append(@, part)],
             UNCHANGED <<lease, wall, objects>>
      PROVE  FilesMove(j.u) /\ ObjectInv'
  <2>1. staged[j.u] # None
    BY <1>2 DEF Renewable
  <2>2. /\ staged' \in [Upload -> Seq(0..Size) \cup {None}]
        /\ \A v \in Upload \ {j.u} : staged'[v] = staged[v]
    BY <1>2, <2>1, AppendTyped
  <2> QED
    BY <1>0, <1>2, <2>1, <2>2
    DEF IInv, TypeOK, FilesMove, FilesTyped, OtherFilesKept, ObjectInv
<1>3. CASE j.kind = "append" /\ Appended(j.u)
  <2>1. Renews(j.u) /\ staged[j.u] # None
    BY <1>3 DEF Appended, Renews, Renewable
  <2>2. /\ staged' \in [Upload -> Seq(0..Size) \cup {None}]
        /\ \A v \in Upload \ {j.u} : staged'[v] = staged[v]
    BY <1>3, <2>1, AppendTyped DEF Appended
  <2> QED
    BY <1>0, <2>1, <2>2, RenewsMoves DEF IInv, ObjectInv
<1>4. CASE j.kind = "renew" /\ Renews(j.u) /\ UNCHANGED staged
  BY <1>0, <1>4, RenewsMoves DEF IInv, TypeOK, ObjectInv
<1>5. CASE j.kind = "commit" /\ Publishes(j.u) /\ (UNCHANGED lease \/ CleansUp(j.u))
  BY <1>0, <1>5, UnstagesMoves, PublishesObject DEF Publishes
<1>6. CASE /\ j.kind = "abort" /\ Unstages(j.u) /\ UNCHANGED objects
           /\ UNCHANGED lease \/ CleansUp(j.u)
  BY <1>0, <1>6, UnstagesMoves DEF IInv, ObjectInv
<1>7. CASE j.kind = "commit" /\ LosesStaging(j.u)
  BY <1>0, <1>7, UnstagesMoves DEF LosesStaging, IInv, ObjectInv
<1> QED
  BY <1>1, <1>2, <1>3, <1>4, <1>5, <1>6, <1>7 DEF Leaves

-----------------------------------------------------------------------------
(* The end of a job.                                                       *)

\* The request that waits for a job is the one that started it.
LEMMA WaiterKnown ==
    ASSUME IInv, NEW j \in jobs, op[j.u].st = "running"
    PROVE  op[j.u].job = j.kind
<1>1. j.u \in Upload /\ [u |-> j.u, kind |-> op[j.u].job] \in jobs
  BY DEF IInv, TypeOK, JobInv
<1>2. [u |-> j.u, kind |-> op[j.u].job] = j
  BY <1>1 DEF IInv, JobInv
<1> QED
  BY <1>2

\* No other job is about the same upload.
LEMMA JobAlone ==
    ASSUME IInv, NEW j \in jobs, NEW k \in jobs, j.u = k.u
    PROVE  j = k
  BY DEF IInv, JobInv

\* What a request that is told of success may rely on.
TruthTold(j, st) ==
    st = "ok" /\ op[j.u].st = "running" =>
      /\ j.kind = "append" => Fresh(j.u, accepted[j.u] + 1)'
      /\ j.kind = "renew" => Fresh(j.u, accepted[j.u])'
      /\ j.kind \in {"commit", "abort"} => staged'[j.u] = None /\ lease'[j.u] = None

\* Whatever a job has done to the files, and told its request, was in order.
LEMMA JobEndIInv ==
    ASSUME IInv, NEW j \in jobs, FilesMove(j.u), ObjectInv', NEW st \in {"ok", "err"},
           Answers(j, st), TruthTold(j, st)
    PROVE  IInv'
<1> DEFINE u == j.u
<1>0. u \in Upload /\ j.kind \in Kinds /\ TypeOK /\ JobKept(j) /\ OpKept(u) /\ StagedKept(u)
  BY DEF IInv, TypeOK, JobInv, OpInv, StagedInv
<1>1. /\ UNCHANGED <<phase, accepted, age, slots, crashes>>
      /\ jobs' = jobs \ {j}
      /\ FilesTyped /\ OtherFilesKept(u)
  BY DEF Answers, FilesMove
<1>2. SeenShrinks
  BY <1>0 DEF Answers, ForgetSeen, SeenShrinks, TypeOK
<1>3. SeenInv'
  BY <1>0, <1>2, SeenAfterFiles
<1>4. IF op[u].st = "running" THEN op' = [op EXCEPT ![u].st = st] ELSE op' = op
  BY WaiterKnown DEF Answers
<1>5. op' \in [Upload -> {Free} \cup [job : Kinds, st : {"queued", "running", "ok", "err"},
                                     sweep : BOOLEAN]]
  <2>1. CASE op[u].st = "running"
    <3>1. op[u] \in [job : Kinds, st : {"queued", "running", "ok", "err"}, sweep : BOOLEAN]
      BY <1>0, <2>1 DEF TypeOK, Free
    <3>2. [op[u] EXCEPT !.st = st] \in
            [job : Kinds, st : {"queued", "running", "ok", "err"}, sweep : BOOLEAN]
      BY <3>1
    <3> QED
      BY <1>0, <1>4, <2>1, <3>2 DEF TypeOK
  <2> QED
    BY <1>0, <1>4, <2>1 DEF TypeOK
<1>6. TypeOK'
  BY <1>0, <1>1, <1>2, <1>5 DEF TypeOK, FilesTyped, SeenShrinks
<1>7. /\ op'[u].job = op[u].job
      /\ op'[u].st = IF op[u].st = "running" THEN st ELSE op[u].st
      /\ \A v \in Upload \ {u} : op'[v] = op[v]
  <2>1. CASE op[u].st = "running"
    <3>1. op[u] \in [job : Kinds, st : {"queued", "running", "ok", "err"}, sweep : BOOLEAN]
      BY <1>0, <2>1 DEF TypeOK, Free
    <3>2. /\ op'[u] = [op[u] EXCEPT !.st = st]
          /\ \A v \in Upload \ {u} : op'[v] = op[v]
      BY <1>0, <1>4, <2>1 DEF TypeOK
    <3> QED
      BY <2>1, <3>1, <3>2
  <2> QED
    BY <1>4, <2>1
<1>8. \A v \in Upload \ {u} : OpKept(v)' /\ StagedKept(v)'
  BY <1>1, <1>7 DEF IInv, OpInv, StagedInv, OpKept, StagedKept, Fresh, OtherFilesKept
<1>9. OpKept(u)'
  BY <1>0, <1>1, <1>7 DEF OpKept, JobKept
<1>10. StagedKept(u)'
  <2>1. CASE op[u].st = "running"
    BY <1>0, <1>1, <1>7, <2>1, WaiterKnown DEF JobKept, OpKept, StagedKept, TruthTold, Kinds
  <2>2. CASE op[u].st # "running"
    BY <1>0, <1>1, <1>7, <2>2 DEF JobKept, StagedKept
  <2> QED
    BY <2>1, <2>2
<1>11. JobInv'
  <2>1. ASSUME NEW k \in jobs' PROVE JobKept(k)'
    <3>1. k \in jobs /\ k.u \in Upload \ {u}
      BY <1>0, <1>1, JobAlone DEF TypeOK
    <3> QED
      BY <1>1, <1>7, <3>1 DEF IInv, JobInv, JobKept, OtherFilesKept
  <2>2. ASSUME NEW v \in Upload, op'[v].st = "running"
        PROVE  [u |-> v, kind |-> op'[v].job] \in jobs'
    BY <1>1, <1>7, <2>2 DEF IInv, JobInv
  <2> QED
    BY <1>1, <2>1, <2>2 DEF IInv, JobInv
<1>12. SlotInv'
  BY <1>1, SlotsSame DEF IInv, Counted
<1> QED
  BY <1>3, <1>6, <1>8, <1>9, <1>10, <1>11, <1>12 DEF IInv, OpInv, StagedInv

\* Every end of a job.
LEMMA JobActionIInv ==
    ASSUME IInv, NEW j \in jobs,
           AppendEnds(j) \/ RenewEnds(j) \/ CommitEnds(j) \/ AbortEnds(j) \/ JobFails(j)
    PROVE  IInv'
<1> DEFINE u == j.u
<1>0. /\ u \in Upload /\ TypeOK /\ JobKept(j) /\ OpKept(u) /\ StagedKept(u)
      /\ accepted[u] \in 0..Size /\ age[u] \in 0..Idle
      /\ op[u].st = "running" => op[u].job = j.kind
  BY WaiterKnown DEF IInv, TypeOK, JobInv, OpInv, StagedInv
<1>1. CASE AppendEnds(j)
  <2>1. j.kind = "append" /\ Renews(u) /\ staged[u] # None
    BY <1>1 DEF AppendEnds, Appended, Renews, Renewable
  <2>2. Leaves(j)
    BY <1>1 DEF AppendEnds, Leaves
  <2>3. FilesMove(u) /\ ObjectInv'
    BY <2>2, LeavesMoves
  <2>4. /\ staged' \in [Upload -> Seq(0..Size) \cup {None}]
        /\ staged'[u] = Append(staged[u], accepted[u] + 1)
        /\ \A v \in Upload \ {u} : staged'[v] = staged[v]
    BY <1>1, <2>1, AppendTyped DEF AppendEnds, Appended
  <2>5. lease'[u] # None /\ wall'[u] = 0
    BY <1>0, <2>1, <2>4, RenewsMoves
  <2>6. ASSUME op[u].st = "running" PROVE Fresh(u, accepted[u] + 1)'
    <3>1. staged[u] = Digest(accepted[u]) /\ accepted[u] < Size
      BY <1>0, <2>1, <2>6 DEF StagedKept, OpKept, JobKept
    <3>2. staged'[u] = Digest(accepted[u] + 1)
      BY <1>0, <2>4, <3>1, DigestFacts
    <3>3. accepted' = accepted /\ age' = age
      BY <1>1 DEF AppendEnds, Answers
    <3> QED
      BY <1>0, <2>5, <3>2, <3>3, JustNow DEF Fresh, Digest
  <2>7. TruthTold(j, "ok") /\ TruthTold(j, "err")
    BY <2>1, <2>6 DEF TruthTold
  <2> DEFINE st == IF Len(staged'[u]) = accepted[u] + 1 THEN "ok" ELSE "err"
  <2>8. Answers(j, st) /\ TruthTold(j, st) /\ st \in {"ok", "err"}
    BY <1>1, <2>7 DEF AppendEnds
  <2> HIDE DEF st
  <2> QED
    BY <2>3, <2>8, JobEndIInv
<1>2. CASE RenewEnds(j)
  <2>1. j.kind = "renew" /\ Renews(u) /\ staged' = staged /\ staged[u] # None /\ Answers(j, "ok")
    BY <1>2 DEF RenewEnds, Renews, Renewable
  <2>2. FilesMove(u) /\ ObjectInv'
    BY <1>2, LeavesMoves DEF RenewEnds, Leaves
  <2>3. lease'[u] # None /\ wall'[u] = 0
    BY <1>0, <2>1, RenewsMoves DEF TypeOK
  <2>4. ASSUME op[u].st = "running" PROVE Fresh(u, accepted[u])'
    <3>1. staged[u] = Digest(accepted[u])
      BY <1>0, <2>1, <2>4 DEF StagedKept, OpKept, JobKept
    <3>2. accepted' = accepted /\ age' = age
      BY <2>1 DEF Answers
    <3> QED
      BY <1>0, <2>1, <2>3, <3>1, <3>2, JustNow DEF Fresh, Digest
  <2>5. TruthTold(j, "ok")
    BY <2>1, <2>4 DEF TruthTold
  <2> QED
    BY <2>1, <2>2, <2>5, JobEndIInv
<1>3. CASE CommitEnds(j) \/ AbortEnds(j)
  <2>1. FilesMove(u) /\ ObjectInv'
    BY <1>3, LeavesMoves DEF CommitEnds, AbortEnds, Leaves
  <2>2. /\ staged'[u] = None /\ lease'[u] = None /\ Answers(j, "ok")
        /\ j.kind \in {"commit", "abort"}
    BY <1>0, <1>3 DEF CommitEnds, AbortEnds, Publishes, Unstages, CleansUp, TypeOK
  <2>3. TruthTold(j, "ok")
    BY <2>2 DEF TruthTold
  <2> QED
    BY <2>1, <2>2, <2>3, JobEndIInv
<1>4. CASE JobFails(j)
  <2>1. FilesMove(u) /\ ObjectInv' /\ Answers(j, "err")
    BY <1>4, LeavesMoves DEF JobFails
  <2>2. TruthTold(j, "err")
    BY DEF TruthTold
  <2> QED
    BY <2>1, <2>2, JobEndIInv
<1> QED
  BY <1>1, <1>2, <1>3, <1>4

-----------------------------------------------------------------------------
(* The files of a new upload.                                              *)

LEMMA BeginFilesIInv ==
    ASSUME IInv, NEW u \in Upload, BeginCreates(u) \/ BeginFails(u)
    PROVE  IInv'
<1>0. /\ TypeOK /\ OpKept(u) /\ StagedKept(u) /\ phase[u] = "creating"
      /\ accepted[u] = 0 /\ staged[u] = None /\ lease[u] = None
      /\ op[u] = Free /\ age[u] \in 0..Idle
  BY DEF IInv, TypeOK, OpInv, StagedInv, OpKept, BeginCreates, BeginFails, Kinds
<1>1. /\ UNCHANGED <<accepted, age, op, jobs, seen, objects, crashes>>
      /\ phase' = [phase EXCEPT ![u] = IF BeginCreates(u) THEN "created" ELSE "refused"]
      /\ OtherFilesKept(u)
  BY <1>0 DEF BeginCreates, BeginFails, TypeOK, OtherFilesKept
<1>2. FilesTyped
  <2>1. <<>> \in Seq(0..Size) \cup {None}
    OBVIOUS
  <2>2. wall' \in [Upload -> 0..(Idle + Day)]
    BY <1>0, JustNow DEF BeginCreates, BeginFails, TypeOK
  <2>3. staged' \in [Upload -> Seq(0..Size) \cup {None}]
    <3>1. \/ staged' = staged
          \/ staged' = [staged EXCEPT ![u] = <<>>]
          \/ staged' = [staged EXCEPT ![u] = None]
      BY DEF BeginCreates, BeginFails
    <3> QED
      BY <1>0, <2>1, <3>1 DEF TypeOK
  <2>4. lease' \in [Upload -> Nat \cup {None}]
    <3>1. \/ lease' = lease
          \/ \E l \in {None, 0} : lease' = [lease EXCEPT ![u] = l]
      BY DEF BeginCreates, BeginFails
    <3> QED
      BY <1>0, <3>1 DEF TypeOK
  <2> QED
    BY <2>2, <2>3, <2>4 DEF FilesTyped
<1>3. SlotInv' /\ slots' \in [Proc -> [Actor -> Nat]]
  <2>1. CASE BeginCreates(u)
    <3>1. slots' = slots /\ \A v \in Upload : Counted(v)' <=> Counted(v)
      BY <1>0, <2>1 DEF BeginCreates, Counted, TypeOK
    <3> QED
      BY <1>0, <3>1, SlotsSame DEF IInv, TypeOK
  <2>2. CASE BeginFails(u)
    <3>1. /\ Release(u) /\ Counted(u) /\ ~Counted(u)'
          /\ \A v \in Upload \ {u} : Counted(v)' <=> Counted(v)
      BY <1>0, <2>2 DEF BeginFails, Counted, TypeOK
    <3> QED
      BY <1>0, <3>1, SlotGiven DEF IInv
  <2> QED
    BY <2>1, <2>2
<1>4. TypeOK'
  BY <1>0, <1>1, <1>2, <1>3 DEF TypeOK, FilesTyped
<1>5. \A v \in Upload \ {u} : OpKept(v)' /\ StagedKept(v)'
  BY <1>0, <1>1 DEF IInv, TypeOK, OpInv, StagedInv, OpKept, StagedKept, Fresh, OtherFilesKept
<1>6. OpKept(u)'
  BY <1>0, <1>1 DEF OpKept, TypeOK, Free
<1>7. StagedKept(u)'
  <2>1. CASE BeginCreates(u)
    <3>1. staged'[u] = Digest(0) /\ lease'[u] # None /\ wall'[u] = 0
      BY <1>0, <2>1, NoneAssumption, DigestFacts, JustNow DEF BeginCreates, TypeOK
    <3> QED
      BY <1>0, <1>1, <3>1, JustNow DEF StagedKept, Fresh, Digest, Free, TypeOK
  <2>2. CASE ~BeginCreates(u)
    BY <1>0, <1>1, <2>2 DEF StagedKept, Free, TypeOK
  <2> QED
    BY <2>1, <2>2
<1>8. JobInv'
  <2>1. ASSUME NEW j \in jobs PROVE JobKept(j)'
    <3>1. j.u \in Upload \ {u} /\ JobKept(j)
      BY <1>0 DEF IInv, TypeOK, JobInv, JobKept
    <3> QED
      BY <1>0, <1>1, <3>1 DEF JobKept, TypeOK, OtherFilesKept
  <2> QED
    BY <1>1, <2>1 DEF IInv, JobInv
<1>9. SeenInv'
  BY <1>0, <1>1 DEF IInv, SeenInv, SeenKept, OtherFilesKept
<1>10. ObjectInv'
  BY <1>1 DEF IInv, ObjectInv
<1> QED
  BY <1>3, <1>4, <1>5, <1>6, <1>7, <1>8, <1>9, <1>10 DEF IInv, OpInv, StagedInv

-----------------------------------------------------------------------------
(* The sweep of the store.                                                 *)

\* A lease that is young by the wall clock is young by every observation.
LEMMA NotExpired ==
    ASSUME IInv, NEW p \in Proc, NEW u \in Upload, lease[u] # None, wall[u] < Idle
    PROVE  ~Expired(p, u)
<1>1. /\ Idle \in Nat \ {0} /\ Margin \in Nat /\ Day \in Nat
      /\ wall[u] \in Nat /\ lease[u] \in Nat /\ SeenKept(p, u)
  BY PolicyAssumption DEF IInv, TypeOK, SeenInv
<1>2. Observation(p, u).age < Idle
  <2>1. CASE seen[p][u] # None /\ seen[p][u].seq = lease[u]
    <3>1. seen[p][u] \in [seq : Nat, age : 0..(Idle + Margin)]
      BY <2>1 DEF IInv, TypeOK
    <3>2. seen[p][u].age \in Nat /\ seen[p][u].age <= wall[u]
      BY <1>1, <2>1, <3>1 DEF SeenKept
    <3> QED
      BY <1>1, <2>1, <3>2 DEF Observation
  <2>2. CASE ~(seen[p][u] # None /\ seen[p][u].seq = lease[u])
    BY <1>1, <2>2 DEF Observation
  <2> QED
    BY <2>1, <2>2
<1>3. Observation(p, u).age \in Nat
  <2>1. seen[p][u] # None => seen[p][u] \in [seq : Nat, age : 0..(Idle + Margin)]
    BY DEF IInv, TypeOK
  <2> QED
    BY <1>1, <2>1 DEF Observation
<1>4. ~(Observation(p, u).age >= Idle + Margin) /\ ~(wall[u] >= Idle + Day)
  BY <1>1, <1>2, <1>3
<1> QED
  BY <1>4 DEF Expired

\* Expired staging goes with its lease, and nothing else does.
LEMMA SweepsStoreIInv ==
    ASSUME IInv, NEW p \in Proc, NEW spared \in SUBSET Upload, NEW halved \in SUBSET spared,
           SweepsStore(p, spared, halved)
    PROVE  IInv'
<1> DEFINE dead == {u \in StagedUploads : Expired(p, u)} \ (spared \ halved)
<1>0. TypeOK /\ UNCHANGED <<recordVars, jobs, objects, crashes>>
  BY DEF IInv, SweepsStore
<1>1. \A u \in Upload :
        /\ staged'[u] = IF u \in dead THEN None ELSE staged[u]
        /\ lease'[u] = IF (u \in dead \/ staged[u] = None) /\ u \notin spared
                       THEN None ELSE lease[u]
        /\ wall'[u] = IF u \in dead THEN 0 ELSE wall[u]
  BY DEF SweepsStore
<1>2. FilesTyped
  <2>1. staged' \in [Upload -> Seq(0..Size) \cup {None}] /\ lease' \in [Upload -> Nat \cup {None}]
    BY <1>0 DEF SweepsStore, TypeOK
  <2>2. wall' \in [Upload -> 0..(Idle + Day)]
    BY <1>0, JustNow DEF SweepsStore, TypeOK
  <2> QED
    BY <2>1, <2>2 DEF FilesTyped
<1>3. \A u \in Upload :
        /\ staged'[u] \in {None, staged[u]} /\ lease'[u] \in {None, lease[u]}
        /\ staged'[u] # None => /\ staged'[u] = staged[u] /\ lease'[u] = lease[u]
                                /\ wall'[u] = wall[u]
  BY <1>1 DEF StagedUploads
<1>4. ASSUME NEW u \in Upload, staged[u] # None, lease[u] # None, wall[u] < Idle
      PROVE  staged'[u] = staged[u] /\ lease'[u] = lease[u] /\ wall'[u] = wall[u]
  BY <1>1, <1>4, NotExpired
<1> HIDE DEF dead
<1>5. \A u \in Upload : OpKept(u)'
  BY <1>0, <1>3 DEF IInv, OpInv, OpKept, recordVars
<1>6. ASSUME NEW u \in Upload, NEW n \in 0..Size, Fresh(u, n)
      PROVE  age[u] < Idle => staged'[u] = Digest(n) /\ lease'[u] # None /\ wall'[u] <= age[u]
  <2> SUFFICES ASSUME age[u] < Idle
               PROVE  staged'[u] = Digest(n) /\ lease'[u] # None /\ wall'[u] <= age[u]
    OBVIOUS
  <2>1. staged[u] = Digest(n) /\ lease[u] # None /\ wall[u] <= age[u] /\ staged[u] # None
    BY <1>6, DigestFacts DEF Fresh
  <2>2. wall[u] < Idle
    BY <1>0, <2>1, JustNow DEF TypeOK
  <2> QED
    BY <1>4, <2>1, <2>2
<1>7. ASSUME NEW u \in Upload PROVE StagedKept(u)'
  <2>0. StagedKept(u) /\ OpKept(u) /\ accepted[u] \in 0..Size
    BY <1>0 DEF IInv, StagedInv, OpInv, TypeOK
  <2>1. phase[u] \in {"created", "Active"} => Fresh(u, accepted[u])'
    BY <1>0, <1>6, <2>0 DEF StagedKept, Fresh, Digest, recordVars
  <2>2. op[u].st = "ok" /\ op[u].job = "append" => Fresh(u, accepted[u] + 1)'
    <3> SUFFICES ASSUME op[u].st = "ok", op[u].job = "append" PROVE Fresh(u, accepted[u] + 1)'
      OBVIOUS
    <3>1. accepted[u] + 1 \in 0..Size /\ Fresh(u, accepted[u] + 1)
      BY <2>0, JustNow DEF StagedKept, OpKept
    <3>2. age[u] < Idle =>
            staged'[u] = Digest(accepted[u] + 1) /\ lease'[u] # None /\ wall'[u] <= age[u]
      BY <1>6, <3>1
    <3> QED
      BY <1>0, <3>2 DEF Fresh, Digest, recordVars
  <2>3. op[u].st = "ok" /\ op[u].job = "renew" => Fresh(u, accepted[u])'
    BY <1>0, <1>6, <2>0 DEF StagedKept, Fresh, Digest, recordVars
  <2> QED
    BY <1>0, <1>3, <2>0, <2>1, <2>2, <2>3 DEF StagedKept, Digest, recordVars
<1>8. JobInv'
  <2>1. ASSUME NEW j \in jobs PROVE JobKept(j)'
    <3>1. j.u \in Upload /\ JobKept(j)
      BY <1>0 DEF IInv, TypeOK, JobInv
    <3> QED
      BY <1>0, <1>3, <3>1 DEF JobKept, Digest, recordVars
  <2> QED
    BY <1>0, <2>1 DEF IInv, JobInv, recordVars
<1>9. ASSUME NEW q \in Proc, NEW u \in Upload
      PROVE  /\ seen'[q][u] \in [seq : Nat, age : 0..(Idle + Margin)] \cup {None}
             /\ SeenKept(q, u)'
  <2>0. SeenKept(q, u) /\ SeenKept(p, u)
    BY DEF IInv, SeenInv
  <2>1. seen'[q][u] = IF staged'[u] = None THEN None
                     ELSE IF q = p /\ lease[u] # None THEN Observation(p, u)
                     ELSE seen[q][u]
    BY DEF SweepsStore
  <2>2. CASE staged'[u] = None
    <3>1. seen'[q][u] = None
      BY <2>1, <2>2
    <3> QED
      BY <3>1 DEF SeenKept
  <2>3. CASE staged'[u] # None /\ q = p /\ lease[u] # None
    <3>1. seen'[q][u] = Observation(p, u) /\ lease[u] \in Nat
      BY <1>0, <2>1, <2>3 DEF TypeOK
    <3>2. CASE Observation(p, u) = seen[p][u]
      BY <1>0, <1>3, <2>0, <2>3, <3>1, <3>2 DEF SeenKept, TypeOK
    <3>3. CASE Observation(p, u) = [seq |-> lease[u], age |-> 0]
      <4>1. 0 \in 0..(Idle + Margin) /\ wall'[u] \in Nat /\ 0 <= wall'[u]
        BY <1>2, PolicyAssumption DEF FilesTyped
      <4> QED
        BY <1>3, <2>3, <3>1, <3>3, <4>1 DEF SeenKept
    <3> QED
      BY <3>2, <3>3 DEF Observation
  <2>4. CASE staged'[u] # None /\ ~(q = p /\ lease[u] # None)
    <3>1. seen'[q][u] = seen[q][u]
      BY <2>1, <2>4
    <3> QED
      BY <1>0, <1>3, <2>0, <2>4, <3>1 DEF SeenKept, TypeOK
  <2> QED
    BY <2>2, <2>3, <2>4
<1>10. seen' \in [Proc -> [Upload -> [seq : Nat, age : 0..(Idle + Margin)] \cup {None}]]
  BY <1>9 DEF SweepsStore
<1>11. TypeOK'
  BY <1>0, <1>2, <1>10 DEF TypeOK, FilesTyped, recordVars
<1>12. SlotInv'
  BY <1>0, SlotsSame DEF IInv, Counted, recordVars
<1>13. ObjectInv'
  BY <1>0 DEF IInv, ObjectInv
<1> QED
  BY <1>5, <1>7, <1>8, <1>9, <1>11, <1>12, <1>13 DEF IInv, OpInv, StagedInv, SeenInv

-----------------------------------------------------------------------------
(* Time.                                                                   *)

\* A clock that is capped goes on by at most one.
LEMMA OlderFacts ==
    ASSUME NEW cap \in Nat, NEW n \in 0..cap
    PROVE  /\ Older(n, cap) \in 0..cap
           /\ n <= Older(n, cap) /\ Older(n, cap) <= n + 1
           /\ Older(n, cap) < cap => Older(n, cap) = n + 1
           /\ n < cap => Older(n, cap) = n + 1
  BY DEF Older

\* The clocks go on together.
LEMMA TickIInv ==
    ASSUME IInv, Tick
    PROVE  IInv'
<1>0. /\ TypeOK
      /\ UNCHANGED <<phase, accepted, op, slots, jobs, staged, lease, objects, crashes>>
  BY DEF IInv, Tick
<1>1. Idle \in Nat /\ Day \in Nat /\ Margin \in Nat /\ Idle + Day \in Nat /\ Idle + Margin \in Nat
  BY PolicyAssumption
<1>2. ASSUME NEW u \in Upload
      PROVE  /\ age[u] \in 0..Idle /\ wall[u] \in 0..(Idle + Day)
             /\ age'[u] \in 0..Idle /\ wall'[u] \in 0..(Idle + Day)
             /\ phase[u] \in {"creating", "created", "Active", "InFlight"} =>
                  age'[u] = Older(age[u], Idle)
             /\ wall'[u] = IF staged[u] # None THEN Older(wall[u], Idle + Day) ELSE 0
  <2>1. age[u] \in 0..Idle /\ wall[u] \in 0..(Idle + Day)
    BY <1>0 DEF TypeOK
  <2>2. /\ age'[u] = IF phase[u] \in {"creating", "created", "Active", "InFlight"}
                     THEN Older(age[u], Idle) ELSE age[u]
        /\ wall'[u] = IF staged[u] # None THEN Older(wall[u], Idle + Day) ELSE 0
    BY DEF Tick
  <2>3. Older(age[u], Idle) \in 0..Idle /\ Older(wall[u], Idle + Day) \in 0..(Idle + Day)
    BY <1>1, <2>1, OlderFacts
  <2> QED
    BY <2>1, <2>2, <2>3, JustNow
<1>3. age' \in [Upload -> 0..Idle] /\ wall' \in [Upload -> 0..(Idle + Day)]
  BY <1>2 DEF Tick
<1>4. ASSUME NEW u \in Upload, NEW n, Fresh(u, n),
             phase[u] \in {"creating", "created", "Active", "InFlight"}
      PROVE  age'[u] < Idle => staged'[u] = Digest(n) /\ lease'[u] # None /\ wall'[u] <= age'[u]
  <2> SUFFICES ASSUME age'[u] < Idle
               PROVE  staged'[u] = Digest(n) /\ lease'[u] # None /\ wall'[u] <= age'[u]
    OBVIOUS
  <2>1. age'[u] = age[u] + 1 /\ age[u] < Idle
    <3>1. age[u] \in 0..Idle /\ age'[u] = Older(age[u], Idle)
      BY <1>2, <1>4
    <3> QED
      BY <1>1, <3>1 DEF Older
  <2>2. staged[u] = Digest(n) /\ lease[u] # None /\ wall[u] <= age[u]
    BY <1>4, <2>1 DEF Fresh
  <2>3. wall'[u] <= wall[u] + 1
    <3>1. wall[u] \in 0..(Idle + Day) /\ Older(wall[u], Idle + Day) <= wall[u] + 1
      BY <1>1, <1>2, OlderFacts
    <3> QED
      BY <1>2, <3>1
  <2> QED
    BY <1>0, <1>2, <2>1, <2>2, <2>3
<1>5. ASSUME NEW u \in Upload PROVE OpKept(u)' /\ StagedKept(u)'
  <2>0. StagedKept(u) /\ OpKept(u)
    BY DEF IInv, StagedInv, OpInv
  <2>1. OpKept(u)'
    BY <1>0, <2>0 DEF OpKept
  <2>2. phase[u] \in {"created", "Active"} => Fresh(u, accepted[u])'
    BY <1>0, <1>4, <2>0 DEF StagedKept, Fresh, Digest
  <2>3. op[u].st = "ok" /\ op[u].job = "append" => Fresh(u, accepted[u] + 1)'
    BY <1>0, <1>4, <2>0 DEF StagedKept, OpKept, Fresh, Digest
  <2>4. op[u].st = "ok" /\ op[u].job = "renew" => Fresh(u, accepted[u])'
    BY <1>0, <1>4, <2>0 DEF StagedKept, OpKept, Fresh, Digest
  <2> QED
    BY <1>0, <2>0, <2>1, <2>2, <2>3, <2>4 DEF StagedKept, Digest
<1>6. JobInv'
  BY <1>0 DEF IInv, JobInv, JobKept, Digest
<1>7. ASSUME NEW p \in Proc, NEW u \in Upload
      PROVE  /\ seen'[p][u] \in [seq : Nat, age : 0..(Idle + Margin)] \cup {None}
             /\ SeenKept(p, u)'
  <2>1. seen'[p][u] = IF seen[p][u] = None THEN None
                     ELSE [seen[p][u] EXCEPT !.age = Older(@, Idle + Margin)]
    BY DEF Tick
  <2>2. CASE seen[p][u] = None
    BY <2>1, <2>2 DEF SeenKept
  <2>3. CASE seen[p][u] # None
    <3>1. seen[p][u] \in [seq : Nat, age : 0..(Idle + Margin)] /\ SeenKept(p, u)
      BY <1>0, <2>3 DEF IInv, TypeOK, SeenInv
    <3>2. /\ Older(seen[p][u].age, Idle + Margin) \in 0..(Idle + Margin)
          /\ Older(seen[p][u].age, Idle + Margin) <= seen[p][u].age + 1
      BY <1>1, <3>1, OlderFacts
    <3>3. /\ seen'[p][u].seq = seen[p][u].seq
          /\ seen'[p][u].age = Older(seen[p][u].age, Idle + Margin)
          /\ seen'[p][u] \in [seq : Nat, age : 0..(Idle + Margin)]
      BY <2>1, <2>3, <3>1, <3>2
    <3>4. staged[u] # None /\ lease[u] # None /\ seen[p][u].seq <= lease[u]
      BY <2>3, <3>1 DEF SeenKept
    <3>5. ASSUME seen[p][u].seq = lease[u], wall'[u] < Idle
          PROVE  Older(seen[p][u].age, Idle + Margin) <= wall'[u]
      <4>1. wall'[u] = wall[u] + 1 /\ wall[u] < Idle
        <5>1. wall[u] \in 0..(Idle + Day) /\ wall'[u] = Older(wall[u], Idle + Day)
          BY <1>2, <3>4
        <5> QED
          BY <1>1, <3>5, <5>1 DEF Older
      <4>2. seen[p][u].age <= wall[u]
        BY <2>3, <3>1, <3>5, <4>1 DEF SeenKept
      <4> QED
        BY <1>2, <3>1, <3>2, <4>1, <4>2
    <3> QED
      BY <1>0, <3>3, <3>4, <3>5 DEF SeenKept
  <2> QED
    BY <2>2, <2>3
<1>8. seen' \in [Proc -> [Upload -> [seq : Nat, age : 0..(Idle + Margin)] \cup {None}]]
  BY <1>7 DEF Tick
<1>9. TypeOK'
  BY <1>0, <1>3, <1>8 DEF TypeOK
<1>10. SlotInv' /\ ObjectInv'
  BY <1>0, SlotsSame DEF IInv, Counted, ObjectInv
<1> QED
  BY <1>5, <1>6, <1>7, <1>9, <1>10 DEF IInv, OpInv, StagedInv, SeenInv

-----------------------------------------------------------------------------
(* A process dies.                                                         *)

\* What a process that dies leaves of the files: those of the other uploads,
\* and of its own those it was not working on.
CrashLeaves(p) ==
    /\ FilesTyped
    /\ \A u \in Upload : Host[u] # p \/ phase[u] = "new" =>
         staged'[u] = staged[u] /\ lease'[u] = lease[u] /\ wall'[u] = wall[u]
    /\ \A u \in Upload : staged'[u] # None =>
         /\ staged[u] # None
         /\ \/ lease'[u] = lease[u] /\ wall'[u] = wall[u]
            \/ lease[u] \in Nat /\ lease'[u] = lease[u] + 1 /\ wall'[u] = 0
    /\ ObjectInv'

LEMMA CrashFiles ==
    ASSUME IInv, NEW p \in Proc, Crash(p)
    PROVE  CrashLeaves(p)
<1>1. CASE UNCHANGED storeVars
  BY <1>1 DEF IInv, TypeOK, storeVars, FilesTyped, ObjectInv, CrashLeaves
<1>2. ASSUME NEW j \in jobs \ jobs', Leaves(j) PROVE CrashLeaves(p)
  <2>1. j \in jobs /\ j.u \in Upload /\ Host[j.u] = p /\ phase[j.u] # "new"
    BY DEF IInv, TypeOK, JobInv, JobKept, Crash
  <2>2. FilesMove(j.u) /\ ObjectInv'
    BY <1>2, LeavesMoves
  <2> QED
    BY <2>1, <2>2 DEF FilesMove, OtherFilesKept, CrashLeaves
<1> QED
  BY <1>1, <1>2 DEF Crash

LEMMA CrashIInv ==
    ASSUME IInv, NEW p \in Proc, Crash(p)
    PROVE  IInv'
<1> DEFINE mine == {u \in Upload : Host[u] = p}
<1>0. TypeOK /\ CrashLeaves(p) /\ crashes' \in 0..MaxCrashes
  <2>1. MaxCrashes \in Nat
    BY PolicyAssumption
  <2>2. TypeOK /\ crashes \in 0..MaxCrashes /\ crashes < MaxCrashes /\ crashes' = crashes + 1
    BY DEF IInv, TypeOK, Crash
  <2>3. CrashLeaves(p)
    BY CrashFiles
  <2> QED
    BY <2>1, <2>2, <2>3
<1>1. \A u \in Upload :
        /\ phase'[u] = IF u \in mine /\ phase[u] # "new" THEN "lost" ELSE phase[u]
        /\ accepted'[u] = IF u \in mine THEN 0 ELSE accepted[u]
        /\ age'[u] = IF u \in mine THEN 0 ELSE age[u]
        /\ op'[u] = IF u \in mine THEN Free ELSE op[u]
  BY DEF Crash
<1>2. jobs' = {j \in jobs : j.u \notin mine}
  BY DEF Crash
<1>3. \A q \in Proc : \A u \in Upload :
        seen'[q][u] = IF q = p \/ staged'[u] = None THEN None ELSE seen[q][u]
  BY DEF Crash
<1>4. TypeOK'
  <2>1. /\ phase' \in [Upload -> {"new", "creating", "created", "refused", "Active", "InFlight",
                                  "Aborted", "Finished", "lost"}]
        /\ accepted' \in [Upload -> 0..Size]
        /\ age' \in [Upload -> 0..Idle]
    BY <1>0, JustNow DEF TypeOK, Crash
  <2>2. op' \in [Upload -> {Free} \cup [job : Kinds, st : {"queued", "running", "ok", "err"},
                                       sweep : BOOLEAN]]
    BY <1>0 DEF TypeOK, Crash
  <2>3. slots' \in [Proc -> [Actor -> Nat]]
    BY <1>0 DEF TypeOK, Crash
  <2>4. seen' \in [Proc -> [Upload -> [seq : Nat, age : 0..(Idle + Margin)] \cup {None}]]
    BY <1>0 DEF TypeOK, Crash
  <2> QED
    BY <1>0, <1>2, <2>1, <2>2, <2>3, <2>4 DEF TypeOK, CrashLeaves, FilesTyped
<1>5. ASSUME NEW u \in Upload PROVE OpKept(u)' /\ StagedKept(u)'
  <2>0. OpKept(u) /\ StagedKept(u)
    BY DEF IInv, OpInv, StagedInv
  <2>1. CASE u \in mine
    BY <1>0, <1>1, <2>0, <2>1 DEF OpKept, StagedKept, CrashLeaves, Free
  <2>2. CASE u \notin mine
    BY <1>0, <1>1, <2>0, <2>2 DEF OpKept, StagedKept, Fresh, CrashLeaves, Digest
  <2> QED
    BY <2>1, <2>2
<1>6. JobInv'
  <2>1. ASSUME NEW j \in jobs' PROVE JobKept(j)'
    <3>1. j \in jobs /\ j.u \in Upload /\ j.u \notin mine /\ JobKept(j)
      BY <1>0, <1>2 DEF IInv, TypeOK, JobInv
    <3> QED
      BY <1>0, <1>1, <3>1 DEF JobKept, CrashLeaves, Digest
  <2>2. ASSUME NEW u \in Upload, op'[u].st = "running"
        PROVE  [u |-> u, kind |-> op'[u].job] \in jobs'
    <3>1. u \notin mine /\ op'[u] = op[u]
      BY <1>1, <2>2 DEF Free
    <3> QED
      BY <1>2, <2>2, <3>1 DEF IInv, JobInv
  <2> QED
    BY <1>2, <2>1, <2>2 DEF IInv, JobInv
<1>7. ASSUME NEW q \in Proc, NEW u \in Upload PROVE SeenKept(q, u)'
  <2> SUFFICES ASSUME seen'[q][u] # None PROVE SeenKept(q, u)'
    BY DEF SeenKept
  <2>1. seen'[q][u] = seen[q][u] /\ seen[q][u] # None /\ staged'[u] # None /\ SeenKept(q, u)
    BY <1>3 DEF IInv, SeenInv
  <2>2. seen[q][u] \in [seq : Nat, age : 0..(Idle + Margin)] /\ lease[u] \in Nat
    BY <1>0, <2>1 DEF TypeOK, SeenKept
  <2>3. CASE lease'[u] = lease[u] /\ wall'[u] = wall[u]
    BY <2>1, <2>3 DEF SeenKept
  <2>4. CASE lease'[u] = lease[u] + 1 /\ wall'[u] = 0
    BY <2>1, <2>2, <2>4, NoneAssumption DEF SeenKept
  <2> QED
    BY <1>0, <2>1, <2>3, <2>4 DEF CrashLeaves
<1>8. SlotInv'
  <2>1. ASSUME NEW a \in Actor
        PROVE  slots'[p][a] = Cardinality(Holding(p, a)') /\ slots'[p][a] <= MaxPerActor
    <3>1. Holding(p, a)' = {}
      BY <1>1 DEF Holding, Counted
    <3>2. slots'[p][a] = 0 /\ MaxPerActor \in Nat
      BY <1>0, PolicyAssumption DEF Crash, TypeOK
    <3> QED
      BY <3>1, <3>2, FS_EmptySet
  <2>2. ASSUME NEW q \in Proc, q # p, NEW a \in Actor
        PROVE  slots'[q][a] = Cardinality(Holding(q, a)') /\ slots'[q][a] <= MaxPerActor
    <3>1. Holding(q, a)' = Holding(q, a)
      BY <1>1, <2>2 DEF Holding, Counted
    <3>2. slots'[q][a] = slots[q][a]
      BY <1>0, <2>2 DEF Crash, TypeOK
    <3> QED
      BY <3>1, <3>2 DEF IInv, SlotInv
  <2>3. Cardinality(Taken(slots'[p])) <= MaxActive
    <3>1. \A a \in Actor : slots'[p][a] = 0
      BY <1>0 DEF Crash, TypeOK
    <3>2. Taken(slots'[p]) = {}
      BY <3>1 DEF Taken
    <3> QED
      BY <3>2, FS_EmptySet, PolicyAssumption
  <2>4. \A q \in Proc \ {p} : Cardinality(Taken(slots'[q])) <= MaxActive
    BY <1>0 DEF Crash, TypeOK, IInv, SlotInv
  <2> QED
    BY <2>1, <2>2, <2>3, <2>4 DEF SlotInv
<1>9. ObjectInv'
  BY <1>0 DEF CrashLeaves
<1> QED
  BY <1>4, <1>5, <1>6, <1>7, <1>8, <1>9 DEF IInv, OpInv, StagedInv, SeenInv

-----------------------------------------------------------------------------
\* The initial states satisfy the invariant.
LEMMA InitIInv == Init => IInv
<1> SUFFICES ASSUME Init PROVE IInv
  OBVIOUS
<1>1. TypeOK
  <2>1. 0 \in 0..Size /\ 0 \in 0..Idle /\ 0 \in 0..(Idle + Day) /\ 0 \in 0..MaxCrashes
    BY JustNow, PolicyAssumption
  <2> QED
    BY <2>1 DEF Init, TypeOK
<1>2. \A u \in Upload : OpKept(u) /\ StagedKept(u)
  BY DEF Init, OpKept, StagedKept, Free
<1>3. JobInv /\ SeenInv /\ ObjectInv
  BY DEF Init, JobInv, SeenInv, SeenKept, ObjectInv, Free
<1>4. SlotInv
  <2>1. \A p \in Proc : \A a \in Actor : Holding(p, a) = {} /\ slots[p][a] = 0
    BY DEF Init, Holding, Counted
  <2>2. MaxPerActor \in Nat /\ MaxActive \in Nat
    BY PolicyAssumption
  <2>3. \A p \in Proc : Taken(slots[p]) = {}
    BY <2>1 DEF Taken
  <2> QED
    BY <2>1, <2>2, <2>3, FS_EmptySet DEF SlotInv
<1> QED
  BY <1>1, <1>2, <1>3, <1>4 DEF IInv, OpInv, StagedInv

\* Nothing happens.
LEMMA StutterIInv == IInv /\ UNCHANGED vars => IInv'
<1> SUFFICES ASSUME IInv, UNCHANGED vars PROVE IInv'
  OBVIOUS
<1>1. UNCHANGED <<phase, accepted, age, op, slots, jobs, seen, staged, lease, wall, objects,
                  crashes>>
  BY DEF vars, recordVars, storeVars
<1>2. TypeOK' /\ SeenInv' /\ ObjectInv'
  BY <1>1 DEF IInv, TypeOK, SeenInv, SeenKept, ObjectInv
<1>3. OpInv' /\ StagedInv' /\ JobInv'
  BY <1>1 DEF IInv, OpInv, OpKept, StagedInv, StagedKept, Fresh, JobInv, JobKept, Digest
<1>4. SlotInv'
  BY <1>1, SlotsSame DEF IInv, Counted
<1> QED
  BY <1>2, <1>3, <1>4 DEF IInv

\* IInv is inductive.
LEMMA NextIInv == IInv /\ [Next]_vars => IInv'
<1> SUFFICES ASSUME IInv, Next PROVE IInv'
  BY StutterIInv
<1>1. ASSUME NEW u \in Upload, Client(u) PROVE IInv'
  BY <1>1, RecordActionIInv, SlotActionIInv DEF Client
<1>2. CASE System
  BY <1>2, RecordActionIInv, SlotActionIInv, BeginFilesIInv, JobActionIInv DEF System
<1>3. CASE Sweep
  <2>1. ASSUME NEW p \in Proc, SweepStore(p) \/ SweepStoreFails(p) PROVE IInv'
    <3>1. PICK spared \in SUBSET Upload :
            \E halved \in SUBSET spared : SweepsStore(p, spared, halved)
      BY <2>1 DEF SweepStore, SweepStoreFails
    <3> QED
      BY <3>1, SweepsStoreIInv
  <2> QED
    BY <1>3, <2>1, RecordActionIInv DEF Sweep
<1> QED
  BY <1>1, <1>2, <1>3, TickIInv, CrashIInv DEF Next

\* A live upload keeps the parts that were accepted, and an object's name is
\* the digest of its bytes (put_part, commit, sweep_at, discard).
THEOREM LiveUploadsIntact == Spec => []LiveUploadIntact
<1>1. IInv => LiveUploadIntact
  <2> SUFFICES ASSUME IInv PROVE LiveUploadIntact
    OBVIOUS
  <2>1. \A u \in Upload : phase[u] = "Active" /\ age[u] < Idle =>
          staged[u] = Digest(accepted[u]) /\ lease[u] # None
    BY DEF IInv, StagedInv, StagedKept, Fresh
  <2>2. \A o \in objects : o.parts = o.digest /\ Len(o.parts) = Size
    <3>1. Size \in 0..Size
      BY JustNow
    <3>2. Len(Digest(Size)) = Size
      BY <3>1, DigestFacts
    <3> QED
      BY <3>2 DEF IInv, ObjectInv
  <2> QED
    BY <2>1, <2>2 DEF LiveUploadIntact
<1> QED
  BY <1>1, InitIInv, NextIInv, PTL DEF Spec

\* UploadSlots counts every upload of the process once, within both ceilings,
\* and a slot comes back only when nothing of its upload is left (reserve,
\* UploadSlot::drop, commit, discard).
THEOREM SlotsAreExact == Spec => []SlotsExact
<1>1. IInv => SlotsExact
  <2> SUFFICES ASSUME IInv PROVE SlotsExact
    OBVIOUS
  <2>1. \A u \in Upload : phase[u] = "Finished" =>
          staged[u] = None /\ lease[u] = None /\ ~\E j \in jobs : j.u = u
    BY DEF IInv, StagedInv, StagedKept, JobInv, JobKept
  <2> QED
    BY <2>1 DEF IInv, SlotInv, Holding, SlotsExact
<1> QED
  BY <1>1, InitIInv, NextIInv, PTL DEF Spec
=============================================================================
