-------------------------- MODULE AuditBatchProofs --------------------------
(***************************************************************************)
(* For any rows, closers and limits of the audit batch, whatever the store *)
(* does: the driver's bookkeeping is exact (DriverExact), callers are told *)
(* what is so (TruthfulAnswers), and a close is a barrier                  *)
(* (CloseIsBarrier).                                                       *)
(***************************************************************************)
EXTENDS AuditBatch, TLAPS, SequenceTheorems, FiniteSetTheorems

-----------------------------------------------------------------------------
(* The invariant.                                                          *)

Held == {"spawning", "accepted"}

\* Who drives the queue, and what a supervisor has in hand at each step.
DriverInv ==
    /\ \A r, s \in Row : caller[r] = "spawning" /\ caller[s] = "spawning" => r = s
    /\ \A r \in Row : caller[r] = "spawning" => active /\ sup = "none"
    /\ active => (\E r \in Row : caller[r] = "spawning") \/ sup \in {"loop", "await", "answer"}
    /\ ~active => pending = <<>> /\ (sup = "none" \/ lifecycle = "Failed")
    /\ lifecycle = "Failed" => ~active
    /\ sup = "await" => active
    /\ sup = "unwind" => lifecycle = "Failed"
    /\ sup \in {"none", "loop"} => hand = {}
    /\ verdict # "none" <=> sup \in {"answer", "unwind"}
    /\ verdict = "DriverAppendAbandoned" => sup = "answer"

\* Every row that was accepted is in the queue, in the supervisor's hands or
\* answered, and in the queue once.
RowInv ==
    /\ \A i, j \in DOMAIN pending : pending[i] = pending[j] => i = j
    /\ \A r \in Row : r \in Queued => caller[r] \in Held /\ answer[r] = "none" /\ r \notin hand
    /\ \A r \in Row : r \in hand \/ answer[r] # "none" => caller[r] \in Held
    /\ \A r \in Row : caller[r] \in Held => r \in Queued \cup hand \/ answer[r] # "none"

\* The appends have no row in common, so that no two are the same record, ...
ShapeInv ==
    /\ \A a \in appends : a.rows # {}
    /\ \A a, b \in appends : a.rows \cap b.rows # {} => a = b

\* ... and one at most is the supervisor's own: it has the rows in hand.
OwnInv ==
    /\ \A a \in appends : a.owner = "driver" =>
         a.rows = hand /\ (sup = "await" \/ verdict = "DriverAppendAbandoned")
    /\ sup = "await" \/ verdict = "DriverAppendAbandoned" =>
         \E a \in appends : a.owner = "driver"

\* A row is in the store, or may get there, only if it was sent.
Sent(r) ==
    \/ r \in stored
    \/ \E a \in appends : r \in a.rows
    \/ \E rows \in adrift : r \in rows

FateInv ==
    \A r \in Row : Sent(r) =>
      /\ caller[r] \in Held /\ r \notin Queued
      /\ answer[r] # "StoreWedged"
      /\ ~(verdict = "StoreWedged" /\ r \in hand)

\* What the supervisor is told of an append, and tells, is so.
StoreInv ==
    /\ stored \cap Foreign = {}
    /\ \A a \in appends : a.st \in {"landed", "Committed"} => a.rows \ Foreign \subseteq stored
    /\ verdict = "Committed" => hand \ Foreign \subseteq stored
    /\ \A r \in Row : /\ answer[r] = "Ok" => r \in stored
                      /\ answer[r] = "IdentityConflict" => r \in Foreign

\* The counters, with the one driver there may be; an append is awaited only
\* below the cap.
Driven == sup # "none" \/ \E r \in Row : caller[r] = "spawning"
Runners == {a \in appends : Running(a)}

CountInv ==
    /\ IsFiniteSet(appends)
    /\ physical = (IF Driven THEN 1 ELSE 0) + exiting
                    + Cardinality(Runners) + Cardinality(Detached)
    /\ outstanding = Cardinality(Detached)
                       + (IF verdict = "DriverAppendAbandoned" THEN 1 ELSE 0)
    /\ outstanding <= MaxAbandoned
    /\ sup = "await" => outstanding < MaxAbandoned

\* Nothing drives the batch any more, and nothing can.
Quiet ==
    /\ lifecycle # "Open" /\ pending = <<>> /\ sup = "none"
    /\ \A r \in Row : caller[r] # "spawning"

NothingRuns == \A a \in appends : ~Running(a)

CloseInv ==
    /\ lifecycle = "Closed" => Quiet
    /\ \A c \in Closer :
         /\ closer[c] # "idle" => lifecycle # "Open"
         /\ closed[c] = "Ok" => Quiet
         /\ style[c] = "physical" /\ closer[c] \in {"marking", "joining", "returned"} =>
              Quiet /\ NothingRuns

IInv ==
    /\ TypeOK
    /\ DriverInv
    /\ RowInv
    /\ ShapeInv
    /\ OwnInv
    /\ FateInv
    /\ StoreInv
    /\ CountInv
    /\ CloseInv

LEMMA InitIInv == Init => IInv
<1> SUFFICES ASSUME Init PROVE IInv
  OBVIOUS
<1>1. pending \in Seq(Row) /\ DOMAIN pending = {}
  <2>1. pending = <<>>
    BY DEF Init
  <2>2. <<>> \in Seq(Row) /\ Len(<<>>) = 0
    BY EmptySeq
  <2>3. DOMAIN pending = 1 .. Len(pending) /\ pending \in Seq(Row)
    BY <2>1, <2>2, LenProperties
  <2> QED
    BY <2>1, <2>2, <2>3
<1>2. TypeOK
  BY <1>1 DEF Init, TypeOK
<1>3. Runners = {} /\ Detached = {} /\ ~Driven
  BY DEF Init, Runners, Detached, Driven
<1>4. CountInv
  BY <1>3, FS_EmptySet, ConfigAssumption DEF Init, CountInv
<1>5. DriverInv /\ RowInv
  BY <1>1 DEF Init, DriverInv, RowInv, Queued, Held
<1>6. ShapeInv /\ OwnInv /\ FateInv /\ StoreInv
  BY DEF Init, ShapeInv, OwnInv, FateInv, Sent, StoreInv
<1>7. CloseInv
  BY DEF Init, CloseInv
<1> QED
  BY <1>2, <1>4, <1>5, <1>6, <1>7 DEF IInv

-----------------------------------------------------------------------------
(* The queue.                                                              *)

LEMMA Pushed ==
    ASSUME pending \in Seq(Row), NEW r \in Row, pending' = Append(pending, r)
    PROVE  /\ pending' \in Seq(Row) /\ pending' # <<>>
           /\ Queued' = Queued \cup {r}
           /\ r \notin Queued /\ (\A i, j \in DOMAIN pending : pending[i] = pending[j] => i = j) =>
                \A i, j \in DOMAIN pending' : pending'[i] = pending'[j] => i = j
<1>1. /\ pending' \in Seq(Row) /\ pending' # <<>> /\ Len(pending') = Len(pending) + 1
      /\ \A i \in 1 .. Len(pending) : pending'[i] = pending[i]
      /\ pending'[Len(pending) + 1] = r
  BY AppendProperties
<1>2. /\ DOMAIN pending = 1 .. Len(pending) /\ Len(pending) \in Nat
      /\ DOMAIN pending' = 1 .. Len(pending) + 1
  BY <1>1, LenProperties
<1>3. Queued' = Queued \cup {r}
  BY <1>1, <1>2 DEF Queued
<1>4. ASSUME r \notin Queued, \A i, j \in DOMAIN pending : pending[i] = pending[j] => i = j,
             NEW i \in DOMAIN pending', NEW j \in DOMAIN pending', pending'[i] = pending'[j]
      PROVE  i = j
  <2>1. \A k \in 1 .. Len(pending) : pending'[k] # r
    BY <1>1, <1>2, <1>4 DEF Queued
  <2>2. i = Len(pending) + 1 \/ i \in 1 .. Len(pending)
    BY <1>2
  <2>3. j = Len(pending) + 1 \/ j \in 1 .. Len(pending)
    BY <1>2
  <2> QED
    BY <1>1, <1>2, <1>4, <2>1, <2>2, <2>3
<1> QED
  BY <1>1, <1>3, <1>4

LEMMA RestLength ==
    ASSUME NEW len \in Nat, NEW n \in Nat, n <= len
    PROVE  (IF n + 1 <= len THEN len - (n + 1) + 1 ELSE 0) = len - n
<1>1. CASE n = len
  BY <1>1
<1>2. CASE n + 1 <= len
  BY <1>2
<1> QED
  BY <1>1, <1>2

\* The front of the queue and the rest of it.
LEMMA Taken ==
    ASSUME pending \in Seq(Row), NEW n \in 1 .. Len(pending), NEW rows,
           rows = {pending[i] : i \in 1..n},
           pending' = SubSeq(pending, n + 1, Len(pending)),
           \A i, j \in DOMAIN pending : pending[i] = pending[j] => i = j
    PROVE  /\ rows \subseteq Row /\ rows # {} /\ pending' \in Seq(Row)
           /\ Queued = rows \cup Queued' /\ rows \cap Queued' = {}
           /\ \A i, j \in DOMAIN pending' : pending'[i] = pending'[j] => i = j
<1>1. Len(pending) \in Nat /\ DOMAIN pending = 1 .. Len(pending)
  BY LenProperties
<1>2. n \in Nat /\ 1 <= n /\ n <= Len(pending)
  BY <1>1
<1>3. \A i \in 1 .. Len(pending) : pending[i] \in Row
  BY ElementOfSeq
<1>4. /\ pending' \in Seq(Row) /\ Len(pending') = Len(pending) - n
      /\ \A i \in 1 .. Len(pending) - n : pending'[i] = pending[n + i]
  <2> DEFINE m == n + 1
             k == Len(pending)
  <2>1. m \in Int /\ k \in Int /\ \A i \in m .. k : pending[i] \in Row
    BY <1>1, <1>2, <1>3
  <2>2. /\ SubSeq(pending, m, k) \in Seq(Row)
        /\ Len(SubSeq(pending, m, k)) = IF m <= k THEN k - m + 1 ELSE 0
        /\ \A i \in 1 .. k - m + 1 : SubSeq(pending, m, k)[i] = pending[m + i - 1]
    BY <2>1, SubSeqProperties
  <2>3. k - m + 1 = Len(pending) - n /\ \A i \in 1 .. Len(pending) - n : m + i - 1 = n + i
    BY <1>1, <1>2
  <2>4. pending' = SubSeq(pending, m, k)
    OBVIOUS
  <2>5. (IF m <= k THEN k - m + 1 ELSE 0) = Len(pending) - n
    BY <1>1, <1>2, RestLength
  <2> HIDE DEF m, k
  <2> QED
    BY <2>2, <2>3, <2>4, <2>5
<1>5. DOMAIN pending' = 1 .. Len(pending) - n
  BY <1>4, LenProperties
<1>6. rows \subseteq Row /\ rows # {}
  BY <1>1, <1>2, <1>3
<1>7. ASSUME NEW x \in Queued' PROVE x \in Queued /\ x \notin rows
  <2>1. PICK i \in 1 .. Len(pending) - n : x = pending[n + i]
    BY <1>4, <1>5, <1>7 DEF Queued
  <2>2. n + i \in 1 .. Len(pending) /\ \A j \in 1 .. n : j # n + i /\ j \in 1 .. Len(pending)
    BY <1>1, <1>2
  <2> QED
    BY <1>1, <2>1, <2>2 DEF Queued
<1>8. ASSUME NEW x \in Queued, x \notin rows PROVE x \in Queued'
  <2>1. PICK j \in 1 .. Len(pending) : x = pending[j]
    BY <1>1, <1>8 DEF Queued
  <2>2. j \notin 1 .. n
    BY <1>8, <2>1
  <2>3. j - n \in 1 .. Len(pending) - n /\ n + (j - n) = j
    BY <1>1, <1>2, <2>1, <2>2
  <2>4. pending'[j - n] = x
    BY <1>4, <2>1, <2>3
  <2> QED
    BY <1>5, <2>3, <2>4 DEF Queued
<1>9. rows \subseteq Queued
  BY <1>1, <1>2 DEF Queued
<1>10. ASSUME NEW i \in DOMAIN pending', NEW j \in DOMAIN pending', pending'[i] = pending'[j]
       PROVE  i = j
  <2>1. i \in 1 .. Len(pending) - n /\ j \in 1 .. Len(pending) - n
    BY <1>5, <1>10
  <2>2. n + i \in 1 .. Len(pending) /\ n + j \in 1 .. Len(pending)
    BY <1>1, <1>2, <2>1
  <2>3. n + i = n + j
    BY <1>1, <1>4, <1>10, <2>1, <2>2
  <2> QED
    BY <1>1, <1>2, <2>1, <2>3
<1> QED
  BY <1>4, <1>6, <1>7, <1>8, <1>9, <1>10

-----------------------------------------------------------------------------
(* The appends: one is added, one is dropped, or one changes and keeps its  *)
(* rows.                                                                    *)

LEMMA CountAdd ==
    ASSUME NEW P, IsFiniteSet(P), NEW b, b \notin P
    PROVE  IsFiniteSet(P \cup {b}) /\ Cardinality(P \cup {b}) = Cardinality(P) + 1
  BY FS_AddElement

LEMMA CountDrop ==
    ASSUME NEW P, IsFiniteSet(P), NEW a
    PROVE  /\ IsFiniteSet(P \ {a}) /\ Cardinality(P \ {a}) \in Nat /\ Cardinality(P) \in Nat
           /\ Cardinality(P \ {a}) = IF a \in P THEN Cardinality(P) - 1 ELSE Cardinality(P)
  BY FS_RemoveElement, FS_CardinalityType

\* How many of the appends run and are detached.
LEMMA CountTypes ==
    ASSUME IsFiniteSet(appends)
    PROVE  /\ IsFiniteSet(Runners) /\ Cardinality(Runners) \in Nat
           /\ IsFiniteSet(Detached) /\ Cardinality(Detached) \in Nat
           /\ Cardinality(Runners) = 0 => Runners = {}
<1>1. IsFiniteSet(Runners) /\ IsFiniteSet(Detached)
  BY FS_Subset DEF Runners, Detached
<1> QED
  BY <1>1, FS_CardinalityType, FS_EmptySet

LEMMA Dropped ==
    ASSUME ShapeInv, IsFiniteSet(appends), appends \in SUBSET Appending, NEW a \in appends,
           appends' = appends \ {a}
    PROVE  /\ appends' \in SUBSET Appending /\ ShapeInv' /\ IsFiniteSet(appends')
           /\ Cardinality(Runners') = Cardinality(Runners) - (IF Running(a) THEN 1 ELSE 0)
           /\ Cardinality(Detached') = Cardinality(Detached)
                                         - (IF a.owner = "reaper" THEN 1 ELSE 0)
<1>1. Runners' = Runners \ {a} /\ Detached' = Detached \ {a}
  BY DEF Runners, Detached
<1>2. a \in Runners <=> Running(a)
  BY DEF Runners
<1>3. a \in Detached <=> a.owner = "reaper"
  BY DEF Detached
<1>4. Cardinality(Runners') = Cardinality(Runners) - (IF Running(a) THEN 1 ELSE 0)
  BY <1>1, <1>2, CountTypes, CountDrop
<1>5. Cardinality(Detached') = Cardinality(Detached) - (IF a.owner = "reaper" THEN 1 ELSE 0)
  BY <1>1, <1>3, CountTypes, CountDrop
<1>6. IsFiniteSet(appends')
  BY CountDrop
<1>7. ShapeInv'
  BY DEF ShapeInv
<1> QED
  BY <1>4, <1>5, <1>6, <1>7

LEMMA Added ==
    ASSUME ShapeInv, IsFiniteSet(appends), appends \in SUBSET Appending, NEW b \in Appending,
           b.rows # {}, \A x \in appends : x.rows \cap b.rows = {},
           appends' = appends \cup {b}
    PROVE  /\ appends' \in SUBSET Appending /\ ShapeInv' /\ IsFiniteSet(appends')
           /\ Cardinality(Runners') = Cardinality(Runners) + (IF Running(b) THEN 1 ELSE 0)
           /\ Cardinality(Detached') = Cardinality(Detached)
                                         + (IF b.owner = "reaper" THEN 1 ELSE 0)
<1>1. b \notin appends
  OBVIOUS
<1>2. b \notin Runners /\ b \notin Detached
  BY <1>1 DEF Runners, Detached
<1>3. Cardinality(Runners') = Cardinality(Runners) + (IF Running(b) THEN 1 ELSE 0)
  <2>1. CASE Running(b)
    <3>1. Runners' = Runners \cup {b}
      BY <2>1 DEF Runners
    <3> QED
      BY <1>2, <2>1, <3>1, CountTypes, CountAdd
  <2>2. CASE ~Running(b)
    <3>1. Runners' = Runners
      BY <2>2 DEF Runners
    <3> QED
      BY <2>2, <3>1, CountTypes
  <2> QED
    BY <2>1, <2>2
<1>4. Cardinality(Detached') = Cardinality(Detached) + (IF b.owner = "reaper" THEN 1 ELSE 0)
  <2>1. CASE b.owner = "reaper"
    <3>1. Detached' = Detached \cup {b}
      BY <2>1 DEF Detached
    <3> QED
      BY <1>2, <2>1, <3>1, CountTypes, CountAdd
  <2>2. CASE b.owner # "reaper"
    <3>1. Detached' = Detached
      BY <2>2 DEF Detached
    <3> QED
      BY <2>2, <3>1, CountTypes
  <2> QED
    BY <2>1, <2>2
<1>5. ShapeInv'
  BY DEF ShapeInv
<1>6. IsFiniteSet(appends')
  BY <1>1, CountAdd
<1> QED
  BY <1>3, <1>4, <1>5, <1>6

LEMMA Swapped ==
    ASSUME ShapeInv, IsFiniteSet(appends), appends \in SUBSET Appending, NEW a \in appends,
           NEW b \in Appending, b.rows = a.rows, appends' = (appends \ {a}) \cup {b}
    PROVE  /\ appends' \in SUBSET Appending /\ ShapeInv' /\ IsFiniteSet(appends')
           /\ Cardinality(Runners') = Cardinality(Runners) - (IF Running(a) THEN 1 ELSE 0)
                                                           + (IF Running(b) THEN 1 ELSE 0)
           /\ Cardinality(Detached') = Cardinality(Detached)
                                         - (IF a.owner = "reaper" THEN 1 ELSE 0)
                                         + (IF b.owner = "reaper" THEN 1 ELSE 0)
           /\ \A r \in Row :
                (\E x \in appends' : r \in x.rows) <=> (\E x \in appends : r \in x.rows)
<1>1. b \notin appends \ {a}
  BY DEF ShapeInv
<1>2. Cardinality(Runners') = Cardinality(Runners) - (IF Running(a) THEN 1 ELSE 0)
                                                   + (IF Running(b) THEN 1 ELSE 0)
  <2>1. a \in Runners <=> Running(a)
    BY DEF Runners
  <2>2. /\ IsFiniteSet(Runners \ {a}) /\ Cardinality(Runners \ {a}) \in Nat
        /\ Cardinality(Runners) \in Nat
        /\ Cardinality(Runners \ {a}) = Cardinality(Runners) - (IF Running(a) THEN 1 ELSE 0)
    BY <2>1, CountTypes, CountDrop
  <2>3. CASE Running(b)
    <3>1. Runners' = (Runners \ {a}) \cup {b} /\ b \notin Runners \ {a}
      BY <1>1, <2>3 DEF Runners
    <3> QED
      BY <2>2, <2>3, <3>1, CountAdd
  <2>4. CASE ~Running(b)
    <3>1. Runners' = Runners \ {a}
      BY <1>1, <2>4 DEF Runners
    <3> QED
      BY <2>2, <2>4, <3>1
  <2> QED
    BY <2>3, <2>4
<1>3. Cardinality(Detached') = Cardinality(Detached)
                                 - (IF a.owner = "reaper" THEN 1 ELSE 0)
                                 + (IF b.owner = "reaper" THEN 1 ELSE 0)
  <2>1. a \in Detached <=> a.owner = "reaper"
    BY DEF Detached
  <2>2. /\ IsFiniteSet(Detached \ {a}) /\ Cardinality(Detached \ {a}) \in Nat
        /\ Cardinality(Detached) \in Nat
        /\ Cardinality(Detached \ {a}) = Cardinality(Detached)
                                           - (IF a.owner = "reaper" THEN 1 ELSE 0)
    BY <2>1, CountTypes, CountDrop
  <2>3. CASE b.owner = "reaper"
    <3>1. Detached' = (Detached \ {a}) \cup {b} /\ b \notin Detached \ {a}
      BY <1>1, <2>3 DEF Detached
    <3> QED
      BY <2>2, <2>3, <3>1, CountAdd
  <2>4. CASE b.owner # "reaper"
    <3>1. Detached' = Detached \ {a}
      BY <1>1, <2>4 DEF Detached
    <3> QED
      BY <2>2, <2>4, <3>1
  <2> QED
    BY <2>3, <2>4
<1>4. IsFiniteSet(appends')
  <2>1. IsFiniteSet(appends \ {a})
    BY CountDrop
  <2> QED
    BY <1>1, <2>1, CountAdd
<1>5. ShapeInv'
  BY DEF ShapeInv
<1> QED
  BY <1>2, <1>3, <1>4, <1>5

\* What a change of one field leaves alone.
LEMMA FieldSet ==
    ASSUME NEW a \in Appending
    PROVE  /\ \A st \in {"calling", "landed"} \cup Outcomes :
                /\ [a EXCEPT !.st = st] \in Appending /\ [a EXCEPT !.st = st].st = st
                /\ [a EXCEPT !.st = st].rows = a.rows
                /\ [a EXCEPT !.st = st].owner = a.owner
           /\ \A owner \in {"driver", "reaper", "nobody"} :
                /\ [a EXCEPT !.owner = owner] \in Appending
                /\ [a EXCEPT !.owner = owner].owner = owner
                /\ [a EXCEPT !.owner = owner].rows = a.rows
                /\ [a EXCEPT !.owner = owner].st = a.st
           /\ /\ [a EXCEPT !.tries = @ + 1] \in Appending
              /\ [a EXCEPT !.tries = @ + 1].st = a.st
              /\ [a EXCEPT !.tries = @ + 1].rows = a.rows
              /\ [a EXCEPT !.tries = @ + 1].owner = a.owner
  BY DEF Appending

-----------------------------------------------------------------------------
(* The callers.                                                            *)

LEMMA RefuseStep ==
    ASSUME IInv, NEW r \in Row, Refuse(r)
    PROVE  IInv'
<1>0. /\ TypeOK /\ DriverInv /\ RowInv /\ ShapeInv /\ OwnInv /\ FateInv /\ StoreInv
      /\ CountInv /\ CloseInv
  BY DEF IInv
<1>1. /\ caller[r] = "idle" /\ caller' = [caller EXCEPT ![r] = "refused"]
      /\ UNCHANGED <<queueVars, answer, supVars, appends, closeVars, storeVars>>
  BY DEF Refuse
<1>2. /\ UNCHANGED <<lifecycle, pending, active, inFlight, outstanding, physical, answer,
                     sup,
                     hand, verdict, exiting, handle, appends, closer, style, closed, stored,
                     adrift>>
      /\ \A s \in Row : /\ caller'[s] = "spawning" <=> caller[s] = "spawning"
                        /\ caller'[s] \in Held <=> caller[s] \in Held
  BY <1>0, <1>1 DEF TypeOK, queueVars, supVars, closeVars, storeVars, Held
<1>3. (Driven' <=> Driven) /\ Runners' = Runners /\ Detached' = Detached /\ Queued' = Queued
  BY <1>2 DEF Driven, Runners, Detached, Queued
<1>a. TypeOK'
  BY <1>0, <1>1, <1>2 DEF TypeOK
<1>b. DriverInv'
  BY <1>0, <1>1, <1>2 DEF DriverInv
<1>c. RowInv'
  BY <1>0, <1>1, <1>2, <1>3 DEF RowInv, Queued, Held
<1>d. ShapeInv'
  BY <1>0, <1>1, <1>2 DEF ShapeInv
<1>e. OwnInv'
  BY <1>0, <1>1, <1>2 DEF OwnInv
<1>f. FateInv'
  BY <1>0, <1>1, <1>2, <1>3 DEF FateInv, Sent, Queued, Held
<1>g. StoreInv'
  BY <1>0, <1>1, <1>2 DEF StoreInv
<1>h. CountInv'
  BY <1>0, <1>1, <1>2, <1>3 DEF CountInv
<1>i. CloseInv'
  BY <1>0, <1>1, <1>2 DEF CloseInv, Quiet, NothingRuns
<1> QED
  BY <1>a, <1>b, <1>c, <1>d, <1>e, <1>f, <1>g, <1>h, <1>i DEF IInv

LEMMA SubmitStep ==
    ASSUME IInv, NEW r \in Row, Submit(r)
    PROVE  IInv'
<1>0. /\ TypeOK /\ DriverInv /\ RowInv /\ ShapeInv /\ OwnInv /\ FateInv /\ StoreInv
      /\ CountInv /\ CloseInv
  BY DEF IInv
<1>1. /\ caller[r] = "idle" /\ lifecycle = "Open" /\ pending' = Append(pending, r)
      /\ active' = TRUE /\ physical' = IF active THEN physical ELSE physical + 1
      /\ caller' = [caller EXCEPT ![r] = IF active THEN "accepted" ELSE "spawning"]
      /\ UNCHANGED <<lifecycle, inFlight, outstanding, answer, supVars, appends, closeVars,
                     storeVars>>
  BY DEF Submit
<1>2. /\ UNCHANGED <<lifecycle, inFlight, outstanding, answer, sup, hand, verdict, exiting,
                     handle, appends, closer, style, closed, stored, adrift>>
      /\ caller'[r] = (IF active THEN "accepted" ELSE "spawning")
      /\ \A s \in Row \ {r} : caller'[s] = caller[s]
  BY <1>0, <1>1 DEF TypeOK, supVars, closeVars, storeVars
<1>3. /\ pending' \in Seq(Row) /\ pending' # <<>> /\ Queued' = Queued \cup {r}
      /\ \A i, j \in DOMAIN pending' : pending'[i] = pending'[j] => i = j
  <2>1. r \notin Queued
    BY <1>0, <1>1 DEF RowInv, Held
  <2> QED
    BY <1>0, <1>1, <2>1, Pushed DEF TypeOK, RowInv
<1>4. ~active => sup = "none" /\ \A s \in Row : caller[s] # "spawning"
  BY <1>0, <1>1 DEF DriverInv
<1>5. Runners' = Runners /\ Detached' = Detached /\ Driven'
      /\ (active <=> Driven) /\ active' /\ active' \in BOOLEAN
  BY <1>0, <1>1, <1>2, <1>4 DEF Driven, Runners, Detached, DriverInv
<1>a. TypeOK'
  BY <1>0, <1>1, <1>2, <1>3, <1>5 DEF TypeOK
<1>b. DriverInv'
  BY <1>0, <1>1, <1>2, <1>3, <1>4, <1>5 DEF DriverInv
<1>c. RowInv'
  <2>1. caller'[r] \in Held
    BY <1>2 DEF Held
  <2>2. r \notin hand
    BY <1>0, <1>1 DEF RowInv, Held
  <2>3. answer[r] = "none"
    BY <1>0, <1>1 DEF RowInv, Held
  <2> QED
    BY <1>0, <1>2, <1>3, <2>1, <2>2, <2>3 DEF RowInv
<1>d. ShapeInv'
  BY <1>0, <1>1, <1>2 DEF ShapeInv
<1>e. OwnInv'
  BY <1>0, <1>1, <1>2 DEF OwnInv
<1>f. FateInv'
  BY <1>0, <1>1, <1>2, <1>3 DEF FateInv, Sent, Queued, Held
<1>g. StoreInv'
  BY <1>0, <1>1, <1>2 DEF StoreInv
<1>h. CountInv'
  <2>1. /\ physical \in Nat /\ exiting \in Nat
        /\ Cardinality(Runners) \in Nat /\ Cardinality(Detached) \in Nat
    BY <1>0, CountTypes DEF TypeOK, CountInv
  <2>2. CASE active
    BY <1>0, <1>1, <1>2, <1>5, <2>2 DEF CountInv
  <2>3. CASE ~active
    BY <1>0, <1>1, <1>2, <1>5, <2>1, <2>3 DEF CountInv
  <2> QED
    BY <2>2, <2>3
<1>i. CloseInv'
  BY <1>0, <1>1, <1>2 DEF CloseInv, Quiet, NothingRuns
<1> QED
  BY <1>a, <1>b, <1>c, <1>d, <1>e, <1>f, <1>g, <1>h, <1>i DEF IInv

LEMMA SpawnStep ==
    ASSUME IInv, NEW r \in Row, SpawnSupervisor(r)
    PROVE  IInv'
<1>0. /\ TypeOK /\ DriverInv /\ RowInv /\ ShapeInv /\ OwnInv /\ FateInv /\ StoreInv
      /\ CountInv /\ CloseInv
  BY DEF IInv
<1>1. /\ caller[r] = "spawning" /\ sup = "none" /\ sup' = "loop" /\ handle' = TRUE
      /\ caller' = [caller EXCEPT ![r] = "accepted"]
      /\ UNCHANGED <<queueVars, answer, hand, verdict, exiting, appends, closeVars,
                     storeVars>>
  BY DEF SpawnSupervisor
<1>2. /\ UNCHANGED <<lifecycle, pending, active, inFlight, outstanding, physical, answer,
                     hand,
                     verdict, exiting, appends, closer, style, closed, stored, adrift>>
      /\ caller'[r] = "accepted" /\ \A s \in Row \ {r} : caller'[s] = caller[s]
      /\ handle' \in BOOLEAN
  BY <1>0, <1>1 DEF TypeOK, queueVars, closeVars, storeVars
<1>3. Driven /\ Driven' /\ Runners' = Runners /\ Detached' = Detached /\ Queued' = Queued
  BY <1>1, <1>2 DEF Driven, Runners, Detached, Queued
<1>4. active /\ \A s \in Row : caller'[s] # "spawning"
  BY <1>0, <1>1, <1>2 DEF DriverInv
<1>5. \A s \in Row : caller'[s] \in Held <=> caller[s] \in Held
  BY <1>1, <1>2 DEF Held
<1>a. TypeOK'
  BY <1>0, <1>1, <1>2 DEF TypeOK
<1>b. DriverInv'
  BY <1>0, <1>1, <1>2, <1>4 DEF DriverInv
<1>c. RowInv'
  BY <1>0, <1>1, <1>2, <1>3, <1>5 DEF RowInv, Queued, Held
<1>d. ShapeInv'
  BY <1>0, <1>1, <1>2 DEF ShapeInv
<1>e. OwnInv'
  BY <1>0, <1>1, <1>2 DEF OwnInv
<1>f. FateInv'
  BY <1>0, <1>1, <1>2, <1>3, <1>5 DEF FateInv, Sent, Queued, Held
<1>g. StoreInv'
  BY <1>0, <1>1, <1>2 DEF StoreInv
<1>h. CountInv'
  BY <1>0, <1>1, <1>2, <1>3 DEF CountInv
<1>i. CloseInv'
  BY <1>0, <1>1, <1>2 DEF CloseInv, Quiet, NothingRuns
<1> QED
  BY <1>a, <1>b, <1>c, <1>d, <1>e, <1>f, <1>g, <1>h, <1>i DEF IInv

-----------------------------------------------------------------------------
(* The supervisor.                                                         *)

\* The supervisor's own append, while it has one.
LEMMA OnlyOwn ==
    ASSUME IInv, NEW a \in appends, a.owner = "driver"
    PROVE  a.rows = hand /\ a.rows # {} /\ \A x \in appends : x.owner = "driver" => x = a
  BY DEF IInv, ShapeInv, OwnInv

\* While there is a supervisor nobody spawns another, and no close is through.
LEMMA Supervised ==
    ASSUME IInv, sup # "none"
    PROVE  /\ \A r \in Row : caller[r] # "spawning"
           /\ Driven /\ ~Quiet /\ lifecycle # "Closed"
           /\ \A c \in Closer : /\ closed[c] # "Ok"
                                /\ style[c] = "physical" =>
                                     closer[c] \notin {"marking", "joining", "returned"}
  BY DEF IInv, DriverInv, Driven, Quiet, CloseInv

LEMMA BreaksStep ==
    ASSUME IInv, SupBreaks
    PROVE  IInv'
<1>0. /\ TypeOK /\ DriverInv /\ RowInv /\ ShapeInv /\ OwnInv /\ FateInv /\ StoreInv
      /\ CountInv /\ CloseInv
  BY DEF IInv
<1>1. /\ sup = "loop" /\ (lifecycle = "Failed" \/ pending = <<>>)
      /\ active' = FALSE /\ sup' = "none" /\ exiting' = exiting + 1
      /\ UNCHANGED <<lifecycle, pending, inFlight, outstanding, physical, caller, answer,
                     hand, verdict, handle, appends, closer, style, closed, stored, adrift>>
  BY DEF SupBreaks, rowVars, closeVars, storeVars
<1>v. /\ \A r \in Row : caller[r] # "spawning"
      /\ Driven /\ ~Quiet /\ lifecycle # "Closed"
      /\ \A c \in Closer : /\ closed[c] # "Ok"
                           /\ style[c] = "physical" =>
                                closer[c] \notin {"marking", "joining", "returned"}
  BY <1>1, Supervised
<1>2. /\ pending = <<>> /\ hand = {} /\ verdict = "none" /\ Queued' = Queued /\ ~active'
      /\ active' \in BOOLEAN
  BY <1>0, <1>1 DEF DriverInv, Queued
<1>3. ~Driven' /\ Runners' = Runners /\ Detached' = Detached
  BY <1>1, <1>v DEF Driven, Runners, Detached
<1>4. exiting \in Nat /\ Cardinality(Runners) \in Nat /\ Cardinality(Detached) \in Nat
  BY <1>0, CountTypes DEF TypeOK, CountInv
<1>a. TypeOK'
  BY <1>0, <1>1, <1>2, <1>4 DEF TypeOK
<1>b. DriverInv'
  BY <1>0, <1>1, <1>2, <1>v DEF DriverInv
<1>c. RowInv'
  BY <1>0, <1>1, <1>2 DEF RowInv, Queued, Held
<1>d. ShapeInv'
  BY <1>0, <1>1 DEF ShapeInv
<1>e. OwnInv'
  BY <1>0, <1>1 DEF OwnInv
<1>f. FateInv'
  BY <1>0, <1>1, <1>2 DEF FateInv, Sent, Queued, Held
<1>g. StoreInv'
  BY <1>0, <1>1 DEF StoreInv
<1>h. CountInv'
  BY <1>0, <1>1, <1>2, <1>3, <1>4, <1>v DEF CountInv
<1>i. CloseInv'
  BY <1>0, <1>1, <1>v DEF CloseInv, Quiet, NothingRuns
<1> QED
  BY <1>a, <1>b, <1>c, <1>d, <1>e, <1>f, <1>g, <1>h, <1>i DEF IInv

\* A generation is taken from the queue: shed, or sent.
LEMMA TakesFacts ==
    ASSUME IInv, SupTakes
    PROVE  \E rows \in SUBSET Row :
             /\ rows # {} /\ pending' \in Seq(Row)
             /\ Queued = rows \cup Queued' /\ rows \cap Queued' = {}
             /\ \A i, j \in DOMAIN pending' : pending'[i] = pending'[j] => i = j
             /\ hand' = rows
             /\ \/ /\ sup' = "answer" /\ verdict' = "StoreWedged"
                   /\ UNCHANGED <<inFlight, physical, appends>>
                \/ /\ outstanding < MaxAbandoned /\ sup' = "await"
                   /\ inFlight' = TRUE /\ physical' = physical + 1
                   /\ appends' = appends \cup
                        {[rows |-> rows, st |-> "calling", tries |-> 1, owner |-> "driver"]}
                   /\ UNCHANGED verdict
<1>1. /\ pending \in Seq(Row) /\ pending # <<>>
      /\ \A i, j \in DOMAIN pending : pending[i] = pending[j] => i = j
  BY DEF IInv, TypeOK, RowInv, SupTakes
<1>2. Len(pending) \in Nat \ {0} /\ MaxRows \in Nat \ {0}
  BY <1>1, EmptySeq, ConfigAssumption
<1>3. PICK n \in 1 .. Len(pending) :
        n = IF Len(pending) < MaxRows THEN Len(pending) ELSE MaxRows
  BY <1>2
<1>4. PICK rows : rows = {pending[i] : i \in 1..n}
  OBVIOUS
<1>5. /\ pending' = SubSeq(pending, n + 1, Len(pending)) /\ hand' = rows
      /\ \/ /\ sup' = "answer" /\ verdict' = "StoreWedged"
            /\ UNCHANGED <<inFlight, physical, appends>>
         \/ /\ outstanding < MaxAbandoned /\ sup' = "await"
            /\ inFlight' = TRUE /\ physical' = physical + 1
            /\ appends' = appends \cup
                 {[rows |-> rows, st |-> "calling", tries |-> 1, owner |-> "driver"]}
            /\ UNCHANGED verdict
  BY <1>3, <1>4 DEF SupTakes
<1>6. /\ rows \subseteq Row /\ rows # {} /\ pending' \in Seq(Row)
      /\ Queued = rows \cup Queued' /\ rows \cap Queued' = {}
      /\ \A i, j \in DOMAIN pending' : pending'[i] = pending'[j] => i = j
  BY <1>1, <1>3, <1>4, <1>5, Taken
<1> QED
  BY <1>5, <1>6

LEMMA TakesStep ==
    ASSUME IInv, SupTakes
    PROVE  IInv'
<1>0. /\ TypeOK /\ DriverInv /\ RowInv /\ ShapeInv /\ OwnInv /\ FateInv /\ StoreInv
      /\ CountInv /\ CloseInv
  BY DEF IInv
<1>1. /\ sup = "loop" /\ lifecycle # "Failed"
      /\ UNCHANGED <<lifecycle, active, outstanding, caller, answer, exiting, handle,
                     closer,
                     style, closed, stored, adrift>>
  BY DEF SupTakes, rowVars, closeVars, storeVars
<1>v. /\ \A r \in Row : caller[r] # "spawning"
      /\ Driven /\ ~Quiet /\ lifecycle # "Closed"
      /\ \A c \in Closer : /\ closed[c] # "Ok"
                           /\ style[c] = "physical" =>
                                closer[c] \notin {"marking", "joining", "returned"}
  BY <1>1, Supervised
<1>g. PICK rows \in SUBSET Row :
        /\ rows # {} /\ pending' \in Seq(Row)
        /\ Queued = rows \cup Queued' /\ rows \cap Queued' = {}
        /\ \A i, j \in DOMAIN pending' : pending'[i] = pending'[j] => i = j
        /\ hand' = rows
        /\ \/ /\ sup' = "answer" /\ verdict' = "StoreWedged"
              /\ UNCHANGED <<inFlight, physical, appends>>
           \/ /\ outstanding < MaxAbandoned /\ sup' = "await"
              /\ inFlight' = TRUE /\ physical' = physical + 1
              /\ appends' = appends \cup
                   {[rows |-> rows, st |-> "calling", tries |-> 1, owner |-> "driver"]}
              /\ UNCHANGED verdict
  BY TakesFacts
<1>2. active /\ hand = {} /\ verdict = "none" /\ Driven'
  BY <1>0, <1>1, <1>g DEF DriverInv, Driven
<1>3. \A x \in appends : x.owner # "driver"
  BY <1>0, <1>1, <1>2 DEF OwnInv
<1>4. \A r \in Row : r \in rows => caller[r] \in Held /\ answer[r] = "none" /\ ~Sent(r)
  BY <1>0, <1>g DEF RowInv, FateInv
<1>5. CASE /\ sup' = "answer" /\ verdict' = "StoreWedged"
           /\ UNCHANGED <<inFlight, physical, appends>>
  <2>1. TypeOK'
    BY <1>0, <1>1, <1>g, <1>5 DEF TypeOK, Verdicts
  <2>2. DriverInv'
    BY <1>0, <1>1, <1>v, <1>2, <1>5 DEF DriverInv
  <2>3. RowInv'
    BY <1>0, <1>1, <1>g, <1>2, <1>4, <1>5 DEF RowInv
  <2>4. ShapeInv' /\ OwnInv' /\ StoreInv'
    BY <1>0, <1>1, <1>3, <1>5 DEF ShapeInv, OwnInv, StoreInv
  <2>5. FateInv'
    BY <1>0, <1>1, <1>g, <1>4, <1>5 DEF FateInv, Sent
  <2>6. CountInv'
    <3>1. Runners' = Runners /\ Detached' = Detached
      BY <1>5 DEF Runners, Detached
    <3> QED
      BY <1>0, <1>1, <1>v, <1>2, <1>5, <3>1 DEF CountInv
  <2>7. CloseInv'
    BY <1>0, <1>1, <1>v DEF CloseInv
  <2> QED
    BY <2>1, <2>2, <2>3, <2>4, <2>5, <2>6, <2>7 DEF IInv
<1>6. CASE /\ outstanding < MaxAbandoned /\ sup' = "await"
           /\ inFlight' = TRUE /\ physical' = physical + 1
           /\ appends' = appends \cup
                {[rows |-> rows, st |-> "calling", tries |-> 1, owner |-> "driver"]}
           /\ UNCHANGED verdict
  <2> DEFINE b == [rows |-> rows, st |-> "calling", tries |-> 1, owner |-> "driver"]
  <2>1. /\ b \in Appending /\ b.rows = rows /\ b.owner = "driver" /\ b.st = "calling"
        /\ Running(b) /\ appends' = appends \cup {b}
    BY <1>6 DEF Appending, Running
  <2> HIDE DEF b
  <2>2. \A x \in appends : x.rows \cap b.rows = {}
    <3>1. \A x \in appends : x.rows \subseteq Row
      BY <1>0 DEF TypeOK, Appending
    <3> QED
      BY <1>4, <2>1, <3>1 DEF Sent
  <2>3. appends \in SUBSET Appending /\ IsFiniteSet(appends)
    BY <1>0 DEF TypeOK, CountInv
  <2>4. /\ appends' \in SUBSET Appending /\ ShapeInv' /\ IsFiniteSet(appends')
        /\ Cardinality(Runners') = Cardinality(Runners) + (IF Running(b) THEN 1 ELSE 0)
        /\ Cardinality(Detached') = Cardinality(Detached)
                                      + (IF b.owner = "reaper" THEN 1 ELSE 0)
    BY <1>0, <1>g, <2>1, <2>2, <2>3, Added
  <2>5. TypeOK'
    <3>1. inFlight' \in BOOLEAN
      BY <1>6
    <3> QED
      BY <1>0, <1>1, <1>g, <1>6, <2>4, <3>1 DEF TypeOK
  <2>6. DriverInv'
    BY <1>0, <1>1, <1>v, <1>2, <1>6 DEF DriverInv
  <2>7. RowInv'
    BY <1>0, <1>1, <1>g, <1>2, <1>4, <1>6 DEF RowInv
  <2>8. OwnInv'
    BY <1>0, <1>g, <1>3, <1>6, <2>1 DEF OwnInv
  <2>9. FateInv'
    BY <1>0, <1>1, <1>g, <1>2, <1>4, <1>6, <2>1 DEF FateInv, Sent
  <2>10. StoreInv'
    BY <1>0, <1>1, <1>2, <1>6, <2>1 DEF StoreInv
  <2>11. CountInv'
    <3>1. /\ physical \in Nat /\ exiting \in Nat
          /\ Cardinality(Runners) \in Nat /\ Cardinality(Detached) \in Nat
      BY <1>0, CountTypes DEF TypeOK, CountInv
    <3>2. /\ Cardinality(Runners') = Cardinality(Runners) + 1
          /\ Cardinality(Detached') = Cardinality(Detached)
      BY <2>1, <2>4, <3>1
    <3> QED
      BY <1>0, <1>1, <1>v, <1>2, <1>6, <2>4, <3>1, <3>2 DEF CountInv
  <2>12. CloseInv'
    BY <1>0, <1>1, <1>v DEF CloseInv
  <2> QED
    BY <2>4, <2>5, <2>6, <2>7, <2>8, <2>9, <2>10, <2>11, <2>12 DEF IInv
<1> QED
  BY <1>g, <1>5, <1>6

LEMMA AbandonsStep ==
    ASSUME IInv, NEW a \in appends, SupAbandons(a)
    PROVE  IInv'
<1>0. /\ TypeOK /\ DriverInv /\ RowInv /\ ShapeInv /\ OwnInv /\ FateInv /\ StoreInv
      /\ CountInv /\ CloseInv
  BY DEF IInv
<1>1. /\ sup = "await" /\ a.owner = "driver" /\ inFlight' = FALSE
      /\ outstanding' = outstanding + 1
      /\ verdict' = "DriverAppendAbandoned"
      /\ sup' = "answer"
      /\ UNCHANGED <<lifecycle, pending, active, physical, caller, answer, hand, exiting,
                     handle, appends, closer, style, closed, stored, adrift>>
  BY DEF SupAbandons, rowVars, closeVars, storeVars
<1>v. /\ \A r \in Row : caller[r] # "spawning"
      /\ Driven /\ ~Quiet /\ lifecycle # "Closed"
      /\ \A c \in Closer : /\ closed[c] # "Ok"
                           /\ style[c] = "physical" =>
                                closer[c] \notin {"marking", "joining", "returned"}
  BY <1>1, Supervised
<1>2. Driven' /\ Runners' = Runners /\ Detached' = Detached /\ Queued' = Queued
  BY <1>1 DEF Driven, Runners, Detached, Queued
<1>3. /\ outstanding \in Nat
      /\ MaxAbandoned \in Nat
      /\ inFlight' \in BOOLEAN
      /\ verdict = "none"
      /\ active /\ Cardinality(Detached) \in Nat
  BY <1>0, <1>1, CountTypes, ConfigAssumption DEF TypeOK, DriverInv, CountInv
<1>a. TypeOK'
  BY <1>0, <1>1, <1>3 DEF TypeOK, Verdicts
<1>b. DriverInv'
  BY <1>0, <1>1, <1>3, <1>v DEF DriverInv
<1>c. RowInv'
  BY <1>0, <1>1, <1>2 DEF RowInv, Queued, Held
<1>d. ShapeInv'
  BY <1>0, <1>1 DEF ShapeInv
<1>e. OwnInv'
  BY <1>0, <1>1 DEF OwnInv
<1>f. FateInv'
  BY <1>0, <1>1, <1>2 DEF FateInv, Sent, Queued, Held
<1>g. StoreInv'
  BY <1>0, <1>1 DEF StoreInv
<1>h. CountInv'
  BY <1>0, <1>1, <1>2, <1>3, <1>v DEF CountInv
<1>i. CloseInv'
  BY <1>0, <1>1, <1>v DEF CloseInv, Quiet, NothingRuns
<1> QED
  BY <1>a, <1>b, <1>c, <1>d, <1>e, <1>f, <1>g, <1>h, <1>i DEF IInv

LEMMA JoinsStep ==
    ASSUME IInv, NEW a \in appends, SupJoins(a)
    PROVE  IInv'
<1>0. /\ TypeOK /\ DriverInv /\ RowInv /\ ShapeInv /\ OwnInv /\ FateInv /\ StoreInv
      /\ CountInv /\ CloseInv
  BY DEF IInv
<1>1. /\ sup = "await" /\ a.owner = "driver" /\ ~Running(a) /\ appends' = appends \ {a}
      /\ sup' = "answer" /\ a.st # "DriverFailed" /\ inFlight' = FALSE /\ verdict' = a.st
      /\ UNCHANGED <<lifecycle, pending, active, outstanding, physical, caller, answer,
                     hand, exiting, handle, closer, style, closed, stored, adrift>>
  BY DEF SupJoins, Joins, rowVars, closeVars, storeVars
<1>v. /\ \A r \in Row : caller[r] # "spawning"
      /\ Driven /\ ~Quiet /\ lifecycle # "Closed"
      /\ \A c \in Closer : /\ closed[c] # "Ok"
                           /\ style[c] = "physical" =>
                                closer[c] \notin {"marking", "joining", "returned"}
  BY <1>1, Supervised
<1>2. /\ a.rows = hand /\ a.rows # {} /\ \A x \in appends : x.owner = "driver" => x = a
  BY <1>1, OnlyOwn
<1>3. /\ appends' \in SUBSET Appending /\ ShapeInv' /\ IsFiniteSet(appends')
      /\ Cardinality(Runners') = Cardinality(Runners) - (IF Running(a) THEN 1 ELSE 0)
      /\ Cardinality(Detached') = Cardinality(Detached)
                                    - (IF a.owner = "reaper" THEN 1 ELSE 0)
  <2>1. IsFiniteSet(appends) /\ appends \in SUBSET Appending
    BY <1>0 DEF TypeOK, CountInv
  <2> QED
    BY <1>0, <1>1, <2>1, Dropped
<1>4. /\ Cardinality(Runners') = Cardinality(Runners)
      /\ Cardinality(Detached') = Cardinality(Detached)
      /\ Driven' /\ verdict = "none" /\ active
  <2>1. Cardinality(Runners) \in Nat /\ Cardinality(Detached) \in Nat
    BY <1>0, CountTypes DEF CountInv
  <2> QED
    BY <1>0, <1>1, <1>3, <2>1 DEF Driven, DriverInv
<1>5. a.st \in {"Committed", "StoreFailure", "DriverFailed"} /\ a \in Appending
  BY <1>0, <1>1 DEF TypeOK, Appending, Running, Outcomes
<1>6. inFlight' \in BOOLEAN /\ Queued' = Queued
  BY <1>1 DEF Queued
<1>a. TypeOK'
  BY <1>0, <1>1, <1>3, <1>5, <1>6 DEF TypeOK, Verdicts, Outcomes
<1>b. DriverInv'
  BY <1>0, <1>1, <1>4, <1>5, <1>v DEF DriverInv
<1>c. RowInv'
  BY <1>0, <1>1, <1>6 DEF RowInv, Queued, Held
<1>d. ShapeInv'
  BY <1>0, <1>1, <1>3 DEF ShapeInv
<1>e. OwnInv'
  BY <1>0, <1>1, <1>2, <1>5 DEF OwnInv
<1>f. FateInv'
  BY <1>0, <1>1, <1>5, <1>6 DEF FateInv, Sent, Queued, Held
<1>g. StoreInv'
  BY <1>0, <1>1, <1>2 DEF StoreInv
<1>h. CountInv'
  BY <1>0, <1>1, <1>3, <1>4, <1>5, <1>v DEF CountInv
<1>i. CloseInv'
  BY <1>0, <1>1, <1>v DEF CloseInv, Quiet, NothingRuns
<1> QED
  BY <1>a, <1>b, <1>c, <1>d, <1>e, <1>f, <1>g, <1>h, <1>i DEF IInv

LEMMA JoinsFatalStep ==
    ASSUME IInv, NEW a \in appends, SupJoinsFatal(a)
    PROVE  IInv'
<1>0. /\ TypeOK /\ DriverInv /\ RowInv /\ ShapeInv /\ OwnInv /\ FateInv /\ StoreInv
      /\ CountInv /\ CloseInv
  BY DEF IInv
<1>1. /\ sup = "await" /\ a.owner = "driver" /\ ~Running(a) /\ appends' = appends \ {a}
      /\ sup' = "answer"
      /\ a.st = "DriverFailed"
      /\ lifecycle' = "Failed"
      /\ active' = FALSE
      /\ inFlight' = FALSE
      /\ pending' = <<>>
      /\ hand' = hand \cup Queued /\ verdict' = "DriverFailed"
      /\ UNCHANGED <<outstanding, physical, caller, answer, exiting, handle, closer, style,
                     closed, stored, adrift>>
  BY DEF SupJoinsFatal, Joins, FailDriver, rowVars, closeVars, storeVars
<1>v. /\ \A r \in Row : caller[r] # "spawning"
      /\ Driven /\ ~Quiet /\ lifecycle # "Closed"
      /\ \A c \in Closer : /\ closed[c] # "Ok"
                           /\ style[c] = "physical" =>
                                closer[c] \notin {"marking", "joining", "returned"}
  BY <1>1, Supervised
<1>2. /\ a.rows = hand /\ a.rows # {} /\ \A x \in appends : x.owner = "driver" => x = a
  BY <1>1, OnlyOwn
<1>3. /\ appends' \in SUBSET Appending /\ ShapeInv' /\ IsFiniteSet(appends')
      /\ Cardinality(Runners') = Cardinality(Runners) - (IF Running(a) THEN 1 ELSE 0)
      /\ Cardinality(Detached') = Cardinality(Detached)
                                    - (IF a.owner = "reaper" THEN 1 ELSE 0)
  <2>1. IsFiniteSet(appends) /\ appends \in SUBSET Appending
    BY <1>0 DEF TypeOK, CountInv
  <2> QED
    BY <1>0, <1>1, <2>1, Dropped
<1>4. /\ Cardinality(Runners') = Cardinality(Runners)
      /\ Cardinality(Detached') = Cardinality(Detached)
      /\ Driven' /\ verdict = "none" /\ active
  <2>1. Cardinality(Runners) \in Nat /\ Cardinality(Detached) \in Nat
    BY <1>0, CountTypes DEF CountInv
  <2> QED
    BY <1>0, <1>1, <1>3, <2>1 DEF Driven, DriverInv
<1>5. a.st \in {"Committed", "StoreFailure", "DriverFailed"} /\ a \in Appending
  BY <1>0, <1>1 DEF TypeOK, Appending, Running, Outcomes
<1>6. /\ inFlight' \in BOOLEAN /\ active' \in BOOLEAN /\ ~active'
      /\ pending' \in Seq(Row) /\ Queued \in SUBSET Row /\ Queued' = {}
      /\ \A i, j \in DOMAIN pending' : pending'[i] = pending'[j] => i = j
  <2>1. /\ <<>> \in Seq(Row) /\ Len(<<>>) = 0 /\ DOMAIN pending = 1 .. Len(pending)
        /\ \A i \in 1 .. Len(pending) : pending[i] \in Row
    BY <1>0, EmptySeq, LenProperties, ElementOfSeq DEF TypeOK
  <2>2. pending' \in Seq(Row) /\ DOMAIN pending' = {}
    <3>1. pending' \in Seq(Row) /\ Len(pending') = 0
      BY <1>1, <2>1
    <3>2. DOMAIN pending' = 1 .. 0
      BY <3>1, LenProperties
    <3> QED
      BY <3>1, <3>2
  <2>3. Queued \in SUBSET Row
    BY <2>1 DEF Queued
  <2>4. Queued' = {}
    BY <2>2 DEF Queued
  <2> QED
    BY <1>1, <2>2, <2>3, <2>4
<1>a. TypeOK'
  BY <1>0, <1>1, <1>3, <1>6 DEF TypeOK, Verdicts, Outcomes
<1>b. DriverInv'
  BY <1>0, <1>1, <1>6, <1>v DEF DriverInv
<1>c. RowInv'
  BY <1>0, <1>1, <1>6 DEF RowInv, Queued, Held
<1>d. ShapeInv'
  BY <1>0, <1>1, <1>3 DEF ShapeInv
<1>e. OwnInv'
  BY <1>0, <1>1, <1>2 DEF OwnInv
<1>f. FateInv'
  BY <1>0, <1>1, <1>6 DEF FateInv, Sent, Queued, Held
<1>g. StoreInv'
  BY <1>0, <1>1, <1>2 DEF StoreInv
<1>h. CountInv'
  BY <1>0, <1>1, <1>3, <1>4, <1>v DEF CountInv
<1>i. CloseInv'
  BY <1>0, <1>1, <1>v DEF CloseInv, Quiet, NothingRuns
<1> QED
  BY <1>a, <1>b, <1>c, <1>d, <1>e, <1>f, <1>g, <1>h, <1>i DEF IInv

LEMMA CancelledStep ==
    ASSUME IInv, NEW a \in appends, SupCancelled(a)
    PROVE  IInv'
<1>0. /\ TypeOK /\ DriverInv /\ RowInv /\ ShapeInv /\ OwnInv /\ FateInv /\ StoreInv
      /\ CountInv /\ CloseInv
  BY DEF IInv
<1>1. /\ sup = "await" /\ a.owner = "driver" /\ Reown(a, "nobody")
      /\ sup' = "unwind"
      /\ lifecycle' = "Failed"
      /\ active' = FALSE
      /\ inFlight' = FALSE
      /\ pending' = <<>>
      /\ hand' = hand \cup Queued /\ verdict' = "DriverFailed"
      /\ UNCHANGED <<outstanding, physical, caller, answer, exiting, handle, closer, style,
                     closed, stored, adrift>>
  BY DEF SupCancelled, FailDriver, rowVars, closeVars, storeVars
<1>v. /\ \A r \in Row : caller[r] # "spawning"
      /\ Driven /\ ~Quiet /\ lifecycle # "Closed"
      /\ \A c \in Closer : /\ closed[c] # "Ok"
                           /\ style[c] = "physical" =>
                                closer[c] \notin {"marking", "joining", "returned"}
  BY <1>1, Supervised
<1>2. /\ a.rows = hand /\ a.rows # {} /\ \A x \in appends : x.owner = "driver" => x = a
  BY <1>1, OnlyOwn
<1>p. PICK b \in Appending :
        /\ b.rows = a.rows /\ b.st = a.st /\ b.owner = "nobody"
        /\ appends' = (appends \ {a}) \cup {b}
  BY <1>0, <1>1, FieldSet DEF Reown, TypeOK
<1>3. /\ appends' \in SUBSET Appending /\ ShapeInv' /\ IsFiniteSet(appends')
      /\ Cardinality(Runners') = Cardinality(Runners) - (IF Running(a) THEN 1 ELSE 0)
                                                      + (IF Running(b) THEN 1 ELSE 0)
      /\ Cardinality(Detached') = Cardinality(Detached)
                                    - (IF a.owner = "reaper" THEN 1 ELSE 0)
                                    + (IF b.owner = "reaper" THEN 1 ELSE 0)
      /\ \A r \in Row : (\E x \in appends' : r \in x.rows) <=> (\E x \in appends : r \in x.rows)
  <2>1. IsFiniteSet(appends) /\ appends \in SUBSET Appending
    BY <1>0 DEF TypeOK, CountInv
  <2> QED
    BY <1>0, <1>p, <2>1, Swapped
<1>4. /\ Cardinality(Runners') = Cardinality(Runners)
      /\ Cardinality(Detached') = Cardinality(Detached)
      /\ Driven' /\ verdict = "none" /\ active
  <2>1. Cardinality(Runners) \in Nat /\ Cardinality(Detached) \in Nat
    BY <1>0, CountTypes DEF CountInv
  <2>2. Running(a) <=> Running(b)
    BY <1>p DEF Running
  <2> QED
    BY <1>0, <1>1, <1>p, <1>3, <2>1, <2>2 DEF Driven, DriverInv
<1>6. /\ inFlight' \in BOOLEAN /\ active' \in BOOLEAN /\ ~active'
      /\ pending' \in Seq(Row) /\ Queued \in SUBSET Row /\ Queued' = {}
      /\ \A i, j \in DOMAIN pending' : pending'[i] = pending'[j] => i = j
  <2>1. /\ <<>> \in Seq(Row) /\ Len(<<>>) = 0 /\ DOMAIN pending = 1 .. Len(pending)
        /\ \A i \in 1 .. Len(pending) : pending[i] \in Row
    BY <1>0, EmptySeq, LenProperties, ElementOfSeq DEF TypeOK
  <2>2. pending' \in Seq(Row) /\ DOMAIN pending' = {}
    <3>1. pending' \in Seq(Row) /\ Len(pending') = 0
      BY <1>1, <2>1
    <3>2. DOMAIN pending' = 1 .. 0
      BY <3>1, LenProperties
    <3> QED
      BY <3>1, <3>2
  <2>3. Queued \in SUBSET Row
    BY <2>1 DEF Queued
  <2>4. Queued' = {}
    BY <2>2 DEF Queued
  <2> QED
    BY <1>1, <2>2, <2>3, <2>4
<1>a. TypeOK'
  BY <1>0, <1>1, <1>3, <1>6 DEF TypeOK, Verdicts, Outcomes
<1>b. DriverInv'
  BY <1>0, <1>1, <1>6, <1>v DEF DriverInv
<1>c. RowInv'
  BY <1>0, <1>1, <1>6 DEF RowInv, Queued, Held
<1>d. ShapeInv'
  BY <1>0, <1>1, <1>3 DEF ShapeInv
<1>e. OwnInv'
  BY <1>0, <1>1, <1>2, <1>p DEF OwnInv
<1>f. FateInv'
  BY <1>0, <1>1, <1>3, <1>6 DEF FateInv, Sent, Queued, Held
<1>g. StoreInv'
  BY <1>0, <1>1, <1>2, <1>p DEF StoreInv
<1>h. CountInv'
  BY <1>0, <1>1, <1>3, <1>4, <1>v DEF CountInv
<1>i. CloseInv'
  BY <1>0, <1>1, <1>v DEF CloseInv, Quiet, NothingRuns
<1> QED
  BY <1>a, <1>b, <1>c, <1>d, <1>e, <1>f, <1>g, <1>h, <1>i DEF IInv

\* The rows in hand are answered; an abandoned append goes to a reaper.
LEMMA AnswersFacts ==
    ASSUME TypeOK, NEW r \in Row, verdict # "none"
    PROVE  /\ AnswerOf(r) \in Answers
           /\ AnswerOf(r) = "Ok" => verdict = "Committed" /\ r \notin Foreign
           /\ AnswerOf(r) = "IdentityConflict" => r \in Foreign
           /\ AnswerOf(r) = "StoreWedged" => verdict = "StoreWedged"
  BY DEF TypeOK, AnswerOf, Answers, Verdicts, Outcomes

LEMMA OrphansFacts ==
    ASSUME IInv, SupAnswers
    PROVE  /\ appends' \in SUBSET Appending /\ ShapeInv' /\ IsFiniteSet(appends')
           /\ Cardinality(Runners') = Cardinality(Runners)
           /\ Cardinality(Detached') = outstanding
           /\ physical' = physical + (outstanding - Cardinality(Detached))
           /\ \A x \in appends' : /\ x.owner # "driver"
                                  /\ \E y \in appends : y.rows = x.rows /\ y.st = x.st
<1>0. /\ TypeOK /\ DriverInv /\ ShapeInv /\ OwnInv /\ CountInv
  BY DEF IInv
<1> DEFINE orphan == {a \in appends : a.owner = "driver"}
<1>1. /\ sup \in {"answer", "unwind"}
      /\ appends' = (appends \ orphan) \cup {[a EXCEPT !.owner = "reaper"] : a \in orphan}
      /\ physical' = physical + Cardinality(orphan)
  BY DEF SupAnswers
<1>2. /\ appends \in SUBSET Appending /\ IsFiniteSet(appends) /\ physical \in Nat
      /\ Cardinality(Runners) \in Nat /\ Cardinality(Detached) \in Nat
  BY <1>0, CountTypes DEF TypeOK, CountInv
<1>3. CASE verdict # "DriverAppendAbandoned"
  <2>1. orphan = {}
    BY <1>0, <1>1, <1>3 DEF OwnInv
  <2> HIDE DEF orphan
  <2>c. Cardinality(orphan) = 0
    BY <2>1, FS_EmptySet
  <2>2. appends' = appends /\ physical' = physical
    BY <1>1, <1>2, <2>1, <2>c
  <2>3. Runners' = Runners /\ Detached' = Detached /\ outstanding = Cardinality(Detached)
    BY <1>0, <1>2, <1>3, <2>2 DEF Runners, Detached, CountInv
  <2>4. ShapeInv' /\ \A x \in appends : x.owner # "driver"
    BY <1>0, <2>1, <2>2 DEF ShapeInv, orphan
  <2> QED
    BY <1>2, <2>2, <2>3, <2>4
<1>4. CASE verdict = "DriverAppendAbandoned"
  <2>1. PICK a \in appends : a.owner = "driver"
    BY <1>0, <1>4 DEF OwnInv
  <2>2. orphan = {a}
    BY <2>1, OnlyOwn
  <2>3. PICK b \in Appending : /\ b.rows = a.rows /\ b.st = a.st /\ b.owner = "reaper"
                               /\ b = [a EXCEPT !.owner = "reaper"]
    BY <1>2, FieldSet
  <2> HIDE DEF orphan
  <2>c. Cardinality(orphan) = 1
    BY <2>2, FS_Singleton
  <2>4. appends' = (appends \ {a}) \cup {b} /\ physical' = physical + 1
    <3>1. {[x EXCEPT !.owner = "reaper"] : x \in orphan} = {b}
      BY <2>2, <2>3
    <3> QED
      BY <1>1, <2>2, <2>c, <3>1
  <2>5. /\ appends' \in SUBSET Appending /\ ShapeInv' /\ IsFiniteSet(appends')
        /\ Cardinality(Runners') = Cardinality(Runners) - (IF Running(a) THEN 1 ELSE 0)
                                                        + (IF Running(b) THEN 1 ELSE 0)
        /\ Cardinality(Detached') = Cardinality(Detached)
                                      - (IF a.owner = "reaper" THEN 1 ELSE 0)
                                      + (IF b.owner = "reaper" THEN 1 ELSE 0)
    BY <1>0, <1>2, <2>3, <2>4, Swapped
  <2>6. Running(a) <=> Running(b)
    BY <2>3 DEF Running
  <2>7. outstanding = Cardinality(Detached) + 1
    BY <1>0, <1>4 DEF CountInv
  <2>8. \A x \in appends' : /\ x.owner # "driver"
                            /\ \E y \in appends : y.rows = x.rows /\ y.st = x.st
    BY <2>2, <2>3, <2>4 DEF orphan
  <2> QED
    BY <1>2, <2>1, <2>3, <2>4, <2>5, <2>6, <2>7, <2>8
<1> QED
  BY <1>3, <1>4

LEMMA AnswersStep ==
    ASSUME IInv, SupAnswers
    PROVE  IInv'
<1>0. /\ TypeOK /\ DriverInv /\ RowInv /\ ShapeInv /\ OwnInv /\ FateInv /\ StoreInv
      /\ CountInv /\ CloseInv
  BY DEF IInv
<1>1. /\ sup \in {"answer", "unwind"} /\ hand' = {} /\ verdict' = "none"
      /\ answer' = [r \in Row |-> IF r \in hand THEN AnswerOf(r) ELSE answer[r]]
      /\ sup' = (IF sup = "unwind" THEN "none" ELSE "loop")
      /\ exiting' = (IF sup = "unwind" THEN exiting + 1 ELSE exiting)
      /\ UNCHANGED <<lifecycle, pending, active, inFlight, outstanding, caller, handle,
                     closer, style, closed, stored, adrift>>
  BY DEF SupAnswers, closeVars, storeVars
<1>v. /\ \A r \in Row : caller[r] # "spawning"
      /\ Driven /\ ~Quiet /\ lifecycle # "Closed"
      /\ \A c \in Closer : /\ closed[c] # "Ok"
                           /\ style[c] = "physical" =>
                                closer[c] \notin {"marking", "joining", "returned"}
  BY <1>1, Supervised
<1>2. /\ appends' \in SUBSET Appending /\ ShapeInv' /\ IsFiniteSet(appends')
      /\ Cardinality(Runners') = Cardinality(Runners)
      /\ Cardinality(Detached') = outstanding
      /\ physical' = physical + (outstanding - Cardinality(Detached))
      /\ \A x \in appends' : /\ x.owner # "driver"
                             /\ \E y \in appends : y.rows = x.rows /\ y.st = x.st
  BY OrphansFacts
<1>3. /\ physical \in Nat /\ exiting \in Nat /\ outstanding \in Nat
      /\ Cardinality(Runners) \in Nat /\ Cardinality(Detached) \in Nat
      /\ outstanding - Cardinality(Detached) \in {0, 1}
  BY <1>0, CountTypes DEF TypeOK, CountInv
<1>4. \A r \in Row :
        /\ r \notin hand => answer'[r] = answer[r]
        /\ r \in hand => /\ answer'[r] \in Answers /\ answer'[r] # "none"
                         /\ answer'[r] = "Ok" => verdict = "Committed" /\ r \notin Foreign
                         /\ answer'[r] = "IdentityConflict" => r \in Foreign
                         /\ answer'[r] = "StoreWedged" => verdict = "StoreWedged"
  <2>1. verdict # "none"
    BY <1>0, <1>1 DEF DriverInv
  <2>2. \A r \in Row : answer'[r] = IF r \in hand THEN AnswerOf(r) ELSE answer[r]
    BY <1>1
  <2>3. "none" \notin Answers
    BY DEF Answers, Verdicts, Outcomes
  <2> QED
    BY <1>0, <2>1, <2>2, <2>3, AnswersFacts
<1>5. answer' \in [Row -> Answers \cup {"none"}]
  BY <1>0, <1>1, <1>4 DEF TypeOK
<1>6. Queued' = Queued /\ (Driven' <=> sup # "unwind") /\ hand \subseteq Row
  BY <1>0, <1>1, <1>v DEF Queued, Driven, TypeOK
<1>a. TypeOK'
  <2>1. physical' \in Nat /\ exiting' \in Nat
    BY <1>1, <1>2, <1>3
  <2> QED
    BY <1>0, <1>1, <1>2, <1>5, <2>1 DEF TypeOK
<1>b. DriverInv'
  BY <1>0, <1>1, <1>v DEF DriverInv
<1>c. RowInv'
  <2>1. \A r \in Row : /\ r \in hand \/ answer[r] # "none" <=> answer'[r] # "none"
                       /\ r \in Queued => answer'[r] = "none"
    BY <1>0, <1>4 DEF RowInv
  <2> QED
    BY <1>0, <1>1, <1>6, <2>1 DEF RowInv
<1>d. ShapeInv'
  BY <1>0, <1>1, <1>2 DEF ShapeInv
<1>e. OwnInv'
  BY <1>0, <1>1, <1>2 DEF OwnInv
<1>f. FateInv'
  <2>1. ASSUME NEW r \in Row, Sent(r)' PROVE Sent(r)
    BY <1>1, <1>2, <2>1 DEF Sent
  <2> QED
    BY <1>0, <1>1, <1>4, <1>6, <2>1 DEF FateInv
<1>g. StoreInv'
  BY <1>0, <1>1, <1>2, <1>4, <1>6 DEF StoreInv
<1>h. CountInv'
  <2>1. CASE sup = "unwind"
    BY <1>0, <1>1, <1>2, <1>3, <1>6, <1>v, <2>1 DEF CountInv
  <2>2. CASE sup # "unwind"
    BY <1>0, <1>1, <1>2, <1>3, <1>6, <1>v, <2>2 DEF CountInv
  <2> QED
    BY <2>1, <2>2
<1>i. CloseInv'
  BY <1>0, <1>1, <1>v DEF CloseInv, Quiet, NothingRuns
<1> QED
  BY <1>a, <1>b, <1>c, <1>d, <1>e, <1>f, <1>g, <1>h, <1>i DEF IInv

LEMMA ExitsStep ==
    ASSUME IInv, SupExits
    PROVE  IInv'
<1>0. /\ TypeOK /\ DriverInv /\ RowInv /\ ShapeInv /\ OwnInv /\ FateInv /\ StoreInv
      /\ CountInv /\ CloseInv
  BY DEF IInv
<1>1. /\ exiting > 0 /\ exiting' = exiting - 1 /\ physical' = physical - 1
      /\ UNCHANGED <<lifecycle, pending, active, inFlight, outstanding, caller, answer, sup,
                     hand, verdict, handle, appends, closer, style, closed, stored, adrift>>
  BY DEF SupExits, rowVars, closeVars, storeVars
<1>2. /\ (Driven' <=> Driven) /\ Runners' = Runners /\ Detached' = Detached /\ Queued' = Queued
  BY <1>1 DEF Driven, Runners, Detached, Queued
<1>3. /\ physical \in Nat /\ exiting \in Nat
      /\ Cardinality(Runners) \in Nat /\ Cardinality(Detached) \in Nat
  BY <1>0, CountTypes DEF TypeOK, CountInv
<1>4. physical' \in Nat /\ exiting' \in Nat
  BY <1>0, <1>1, <1>3 DEF CountInv
<1>a. TypeOK'
  BY <1>0, <1>1, <1>4 DEF TypeOK
<1>b. DriverInv'
  BY <1>0, <1>1 DEF DriverInv
<1>c. RowInv'
  BY <1>0, <1>1, <1>2 DEF RowInv, Queued, Held
<1>d. ShapeInv'
  BY <1>0, <1>1 DEF ShapeInv
<1>e. OwnInv'
  BY <1>0, <1>1 DEF OwnInv
<1>f. FateInv'
  BY <1>0, <1>1, <1>2 DEF FateInv, Sent, Queued, Held
<1>g. StoreInv'
  BY <1>0, <1>1 DEF StoreInv
<1>h. CountInv'
  BY <1>0, <1>1, <1>2, <1>3 DEF CountInv
<1>i. CloseInv'
  BY <1>0, <1>1 DEF CloseInv, Quiet, NothingRuns
<1> QED
  BY <1>a, <1>b, <1>c, <1>d, <1>e, <1>f, <1>g, <1>h, <1>i DEF IInv

LEMMA ReapStep ==
    ASSUME IInv, NEW a \in appends, Reap(a)
    PROVE  IInv'
<1>0. /\ TypeOK /\ DriverInv /\ RowInv /\ ShapeInv /\ OwnInv /\ FateInv /\ StoreInv
      /\ CountInv /\ CloseInv
  BY DEF IInv
<1>1. /\ a.owner = "reaper" /\ ~Running(a) /\ appends' = appends \ {a}
      /\ outstanding' = outstanding - 1 /\ physical' = physical - 1
      /\ UNCHANGED <<lifecycle, pending, active, inFlight, caller, answer, sup, hand,
                     verdict, exiting, handle, closer, style, closed, stored, adrift>>
  BY DEF Reap, rowVars, supVars, closeVars, storeVars
<1>2. /\ appends' \in SUBSET Appending /\ ShapeInv' /\ IsFiniteSet(appends')
      /\ Cardinality(Runners') = Cardinality(Runners) - (IF Running(a) THEN 1 ELSE 0)
      /\ Cardinality(Detached') = Cardinality(Detached)
                                    - (IF a.owner = "reaper" THEN 1 ELSE 0)
  <2>1. IsFiniteSet(appends) /\ appends \in SUBSET Appending
    BY <1>0 DEF TypeOK, CountInv
  <2> QED
    BY <1>0, <1>1, <2>1, Dropped
<1>3. /\ physical \in Nat /\ exiting \in Nat /\ outstanding \in Nat /\ MaxAbandoned \in Nat
      /\ Cardinality(Runners) \in Nat /\ Cardinality(Detached) \in Nat
      /\ Cardinality(Runners') = Cardinality(Runners)
      /\ Cardinality(Detached') = Cardinality(Detached) - 1
      /\ Cardinality(Detached') \in Nat
  <2>1. Cardinality(Detached') \in Nat
    <3>1. IsFiniteSet(Detached')
      BY <1>2, FS_Subset DEF Detached
    <3> QED
      BY <3>1, FS_CardinalityType
  <2>2. Cardinality(Runners) \in Nat /\ Cardinality(Detached) \in Nat
    BY <1>0, CountTypes DEF CountInv
  <2> QED
    BY <1>0, <1>1, <1>2, <2>1, <2>2, ConfigAssumption DEF TypeOK
<1>4. (Driven' <=> Driven) /\ Queued' = Queued
  BY <1>1 DEF Driven, Queued
<1>5. physical' \in Nat /\ outstanding' \in Nat
  BY <1>0, <1>1, <1>3 DEF CountInv
<1>a. TypeOK'
  BY <1>0, <1>1, <1>2, <1>5 DEF TypeOK
<1>b. DriverInv'
  BY <1>0, <1>1 DEF DriverInv
<1>c. RowInv'
  BY <1>0, <1>1, <1>4 DEF RowInv, Queued, Held
<1>d. ShapeInv'
  BY <1>0, <1>1, <1>2 DEF ShapeInv
<1>e. OwnInv'
  BY <1>0, <1>1 DEF OwnInv
<1>f. FateInv'
  BY <1>0, <1>1, <1>4 DEF FateInv, Sent, Queued, Held
<1>g. StoreInv'
  BY <1>0, <1>1 DEF StoreInv
<1>h. CountInv'
  BY <1>0, <1>1, <1>2, <1>3, <1>4 DEF CountInv
<1>i. CloseInv'
  BY <1>0, <1>1 DEF CloseInv, Quiet, NothingRuns
<1> QED
  BY <1>a, <1>b, <1>c, <1>d, <1>e, <1>f, <1>g, <1>h, <1>i DEF IInv

-----------------------------------------------------------------------------
(* The appends and the store.                                              *)

\* A running append takes a step: it lands, tries again or ends.
LEMMA AppendMoves ==
    ASSUME IInv, NEW a \in appends, Running(a), NEW b \in Appending,
           b.rows = a.rows, b.owner = a.owner, appends' = (appends \ {a}) \cup {b},
           physical' = IF Running(b) THEN physical ELSE physical - 1,
           UNCHANGED <<lifecycle, pending, active, inFlight, outstanding, caller, answer,
                       sup,
                       hand, verdict, exiting, handle, closer, style, closed>>,
           stored \subseteq stored', stored' \subseteq stored \cup (a.rows \ Foreign),
           b.st \in {"landed", "Committed"} => a.rows \ Foreign \subseteq stored',
           adrift' = adrift \/ adrift' = adrift \cup {a.rows}
    PROVE  IInv'
<1>0. /\ TypeOK /\ DriverInv /\ RowInv /\ ShapeInv /\ OwnInv /\ FateInv /\ StoreInv
      /\ CountInv /\ CloseInv
  BY DEF IInv
<1>1. a \in Appending /\ a.rows \subseteq Row
  BY DEF IInv, TypeOK, Appending
<1>2. /\ appends' \in SUBSET Appending /\ ShapeInv' /\ IsFiniteSet(appends')
      /\ Cardinality(Runners') = Cardinality(Runners) - (IF Running(a) THEN 1 ELSE 0)
                                                      + (IF Running(b) THEN 1 ELSE 0)
      /\ Cardinality(Detached') = Cardinality(Detached)
                                    - (IF a.owner = "reaper" THEN 1 ELSE 0)
                                    + (IF b.owner = "reaper" THEN 1 ELSE 0)
      /\ \A r \in Row : (\E x \in appends' : r \in x.rows) <=> (\E x \in appends : r \in x.rows)
  <2>1. IsFiniteSet(appends) /\ appends \in SUBSET Appending
    BY <1>0 DEF TypeOK, CountInv
  <2> QED
    BY <1>0, <2>1, Swapped
<1>3. /\ physical \in Nat /\ exiting \in Nat
      /\ Cardinality(Runners) \in Nat /\ Cardinality(Detached) \in Nat
      /\ Cardinality(Runners') \in Nat /\ Cardinality(Detached') = Cardinality(Detached)
      /\ Cardinality(Runners') = IF Running(b) THEN Cardinality(Runners)
                                               ELSE Cardinality(Runners) - 1
  <2>1. Cardinality(Runners') \in Nat
    <3>1. IsFiniteSet(Runners')
      BY <1>2, FS_Subset DEF Runners
    <3> QED
      BY <3>1, FS_CardinalityType
  <2>2. Cardinality(Runners) \in Nat /\ Cardinality(Detached) \in Nat
    BY <1>0, CountTypes DEF CountInv
  <2> QED
    BY <1>0, <1>2, <2>1, <2>2 DEF TypeOK
<1>4. (Driven' <=> Driven) /\ Queued' = Queued
  BY DEF Driven, Queued
<1>5. physical' \in Nat
  <2>1. CASE Running(b)
    BY <1>3, <2>1
  <2>2. CASE ~Running(b)
    BY <1>0, <1>3, <2>2 DEF CountInv
  <2> QED
    BY <2>1, <2>2
<1>6. ASSUME NEW r \in Row, Sent(r)' PROVE Sent(r)
  BY <1>2, <1>6 DEF Sent
<1>a. TypeOK'
  BY <1>0, <1>1, <1>2, <1>5 DEF TypeOK
<1>b. DriverInv'
  BY <1>0, <1>1 DEF DriverInv
<1>c. RowInv'
  BY <1>0, <1>1, <1>4 DEF RowInv, Queued, Held
<1>d. ShapeInv'
  BY <1>0, <1>1, <1>2 DEF ShapeInv
<1>e. OwnInv'
  BY <1>0, <1>1 DEF OwnInv
<1>f. FateInv'
  BY <1>0, <1>4, <1>6 DEF FateInv
<1>g. StoreInv'
  BY <1>0, <1>1 DEF StoreInv
<1>h. CountInv'
  <2>1. CASE Running(b)
    BY <1>0, <1>2, <1>3, <1>4, <2>1 DEF CountInv
  <2>2. CASE ~Running(b)
    BY <1>0, <1>2, <1>3, <1>4, <2>2 DEF CountInv
  <2> QED
    BY <2>1, <2>2
<1>i. CloseInv'
  BY <1>0, <1>1 DEF CloseInv, Quiet, NothingRuns
<1> QED
  BY <1>a, <1>b, <1>c, <1>d, <1>e, <1>f, <1>g, <1>h, <1>i DEF IInv

LEMMA AppendStep ==
    ASSUME IInv, NEW a \in appends,
           \/ AppendLands(a) \/ AppendReturns(a) \/ AppendRetries(a) \/ AppendFails(a)
           \/ AppendDies(a)
    PROVE  IInv'
<1>1. /\ a \in Appending /\ Running(a) /\ TypeOK
      /\ a.st = "landed" => a.rows \ Foreign \subseteq stored
  BY DEF IInv, TypeOK, StoreInv, AppendLands, AppendReturns, AppendRetries, AppendFails,
         AppendDies, Running
<1>2. /\ UNCHANGED <<lifecycle, pending, active, inFlight, outstanding, caller, answer, sup,
                     hand, verdict, exiting, handle, closer, style, closed>>
      /\ adrift' = adrift \/ adrift' = adrift \cup {a.rows}
  BY DEF AppendLands, AppendReturns, AppendRetries, AppendFails, AppendDies, Returns, MayDrift,
         queueVars, rowVars, supVars, closeVars
<1>3. \E b \in Appending :
        /\ b.rows = a.rows /\ b.owner = a.owner /\ appends' = (appends \ {a}) \cup {b}
        /\ physical' = (IF Running(b) THEN physical ELSE physical - 1)
        /\ stored \subseteq stored' /\ stored' \subseteq stored \cup (a.rows \ Foreign)
        /\ b.st \in {"landed", "Committed"} => a.rows \ Foreign \subseteq stored'
  <2>1. CASE AppendLands(a)
    <3> DEFINE b == [a EXCEPT !.st = "landed"]
    <3>1. b \in Appending /\ b.rows = a.rows /\ b.owner = a.owner /\ b.st = "landed"
      BY <1>1 DEF Appending
    <3>2. /\ appends' = (appends \ {a}) \cup {b} /\ stored' = stored \cup (a.rows \ Foreign)
          /\ physical' = physical
      BY <2>1 DEF AppendLands, Becomes, queueVars
    <3> HIDE DEF b
    <3> QED
      BY <3>1, <3>2 DEF Running
  <2>2. CASE AppendReturns(a)
    <3> DEFINE b == [a EXCEPT !.st = "Committed"]
    <3>1. b \in Appending /\ b.rows = a.rows /\ b.owner = a.owner /\ b.st = "Committed"
      BY <1>1 DEF Appending, Outcomes
    <3>2. /\ appends' = (appends \ {a}) \cup {b} /\ stored' = stored
          /\ physical' = physical - 1 /\ a.st = "landed"
      BY <2>2 DEF AppendReturns, Returns, Becomes
    <3> HIDE DEF b
    <3> QED
      BY <1>1, <3>1, <3>2 DEF Running
  <2>3. CASE AppendRetries(a)
    <3> DEFINE mid == [a EXCEPT !.st = "calling"]
               b == [mid EXCEPT !.tries = @ + 1]
    <3>1. mid \in Appending /\ mid.rows = a.rows /\ mid.owner = a.owner /\ mid.st = "calling"
      BY <1>1 DEF Appending
    <3>2. appends' = (appends \ {a}) \cup {b} /\ stored' = stored /\ physical' = physical
      BY <2>3 DEF AppendRetries, queueVars
    <3> HIDE DEF mid
    <3>3. b \in Appending /\ b.rows = a.rows /\ b.owner = a.owner /\ b.st = "calling"
      BY <3>1, FieldSet
    <3> HIDE DEF b
    <3> QED
      BY <3>2, <3>3 DEF Running
  <2>4. ASSUME NEW st \in {"StoreFailure", "DriverFailed"}, Returns(a, st)
        PROVE  \E b \in Appending :
                 /\ b.rows = a.rows
                 /\ b.owner = a.owner
                 /\ appends' = (appends \ {a}) \cup {b}
                 /\ physical' = physical - 1 /\ b.st = st /\ stored' = stored
    <3> DEFINE b == [a EXCEPT !.st = st]
    <3>1. b \in Appending /\ b.rows = a.rows /\ b.owner = a.owner /\ b.st = st
      BY <1>1 DEF Appending, Outcomes
    <3>2. appends' = (appends \ {a}) \cup {b} /\ stored' = stored /\ physical' = physical - 1
      BY <2>4 DEF Returns, Becomes
    <3> HIDE DEF b
    <3> QED
      BY <3>1, <3>2
  <2>5. CASE AppendFails(a) \/ AppendDies(a)
    BY <2>4, <2>5 DEF AppendFails, AppendDies, Running
  <2> QED
    BY <2>1, <2>2, <2>3, <2>5
<1> QED
  BY <1>1, <1>2, <1>3, AppendMoves

LEMMA DriftStep ==
    ASSUME IInv, NEW rows \in adrift, DriftLands(rows)
    PROVE  IInv'
<1>0. /\ TypeOK /\ DriverInv /\ RowInv /\ ShapeInv /\ OwnInv /\ FateInv /\ StoreInv
      /\ CountInv /\ CloseInv
  BY DEF IInv
<1>1. /\ adrift' = adrift \ {rows} /\ stored' = stored \cup (rows \ Foreign)
      /\ UNCHANGED <<lifecycle, pending, active, inFlight, outstanding, physical, caller,
                     answer, sup, hand, verdict, exiting, handle, appends, closer, style,
                     closed>>
  BY DEF DriftLands, queueVars, rowVars, supVars, closeVars
<1>2. /\ (Driven' <=> Driven) /\ Runners' = Runners /\ Detached' = Detached /\ Queued' = Queued
  BY <1>1 DEF Driven, Runners, Detached, Queued
<1>3. \A r \in Row : Sent(r)' => Sent(r)
  BY <1>1 DEF Sent
<1>a. TypeOK'
  BY <1>0, <1>1 DEF TypeOK
<1>b. DriverInv'
  BY <1>0, <1>1 DEF DriverInv
<1>c. RowInv'
  BY <1>0, <1>1, <1>2 DEF RowInv, Queued, Held
<1>d. ShapeInv'
  BY <1>0, <1>1 DEF ShapeInv
<1>e. OwnInv'
  BY <1>0, <1>1 DEF OwnInv
<1>f. FateInv'
  BY <1>0, <1>1, <1>2, <1>3 DEF FateInv
<1>g. StoreInv'
  BY <1>0, <1>1 DEF StoreInv
<1>h. CountInv'
  BY <1>0, <1>1, <1>2 DEF CountInv
<1>i. CloseInv'
  BY <1>0, <1>1 DEF CloseInv, Quiet, NothingRuns
<1> QED
  BY <1>a, <1>b, <1>c, <1>d, <1>e, <1>f, <1>g, <1>h, <1>i DEF IInv

-----------------------------------------------------------------------------
(* The closers.                                                            *)

\* A closer concerns the driver only by the lifecycle.
LEMMA CloserMoves ==
    ASSUME IInv,
           UNCHANGED <<pending, active, inFlight, outstanding, physical, caller, answer,
                       sup,
                       hand, verdict, exiting, appends, style, stored, adrift>>,
           lifecycle' \in {"Open", "Closing", "Closed", "Failed"}, handle' \in BOOLEAN,
           lifecycle' = "Failed" <=> lifecycle = "Failed",
           closer' \in [Closer -> {"idle", "quiescing", "settling", "marking", "joining",
                                   "returned"}],
           closed' \in [Closer -> {"none", "Ok", "Err"}], CloseInv'
    PROVE  IInv'
<1>0. /\ TypeOK /\ DriverInv /\ RowInv /\ ShapeInv /\ OwnInv /\ FateInv /\ StoreInv
      /\ CountInv /\ CloseInv
  BY DEF IInv
<1>1. (Driven' <=> Driven) /\ Runners' = Runners /\ Detached' = Detached /\ Queued' = Queued
  BY DEF Driven, Runners, Detached, Queued
<1>a. TypeOK'
  BY <1>0, <1>1 DEF TypeOK
<1>b. DriverInv'
  BY <1>0, <1>1 DEF DriverInv
<1>c. RowInv'
  BY <1>0, <1>1 DEF RowInv, Queued, Held
<1>d. ShapeInv'
  BY <1>0, <1>1 DEF ShapeInv
<1>e. OwnInv'
  BY <1>0, <1>1 DEF OwnInv
<1>f. FateInv'
  BY <1>0, <1>1 DEF FateInv, Sent, Queued, Held
<1>g. StoreInv'
  BY <1>0, <1>1 DEF StoreInv
<1>h. CountInv'
  BY <1>0, <1>1 DEF CountInv
<1>i. CloseInv'
  OBVIOUS
<1> QED
  BY <1>a, <1>b, <1>c, <1>d, <1>e, <1>f, <1>g, <1>h, <1>i DEF IInv

LEMMA CloseStartsStep ==
    ASSUME IInv, NEW c \in Closer, CloseStarts(c)
    PROVE  IInv'
<1>0. TypeOK /\ DriverInv /\ CountInv /\ CloseInv
  BY DEF IInv
<1>1. /\ closer[c] = "idle" /\ closer' = [closer EXCEPT ![c] = "quiescing"]
      /\ lifecycle' = (IF lifecycle = "Open" THEN "Closing" ELSE lifecycle)
      /\ UNCHANGED <<pending, active, inFlight, outstanding, physical, caller, answer, sup,
                     hand, verdict, exiting, appends, style, stored, adrift, handle, closed>>
  BY DEF CloseStarts, queueVars, rowVars, supVars, storeVars
<1>2. /\ closer'[c] = "quiescing"
      /\ \A d \in Closer \ {c} : closer'[d] = closer[d]
  BY <1>0, <1>1 DEF TypeOK
<1>7. CloseInv'
  BY <1>0, <1>1, <1>2 DEF CloseInv, Quiet, NothingRuns
<1>8. /\ lifecycle' \in {"Open", "Closing", "Closed", "Failed"}
      /\ lifecycle' = "Failed" <=> lifecycle = "Failed"
      /\ closer' \in [Closer -> {"idle", "quiescing", "settling", "marking", "joining",
                                 "returned"}]
      /\ closed' \in [Closer -> {"none", "Ok", "Err"}]
  BY <1>0, <1>1 DEF TypeOK
<1>9. handle' \in BOOLEAN
  BY <1>0, <1>1 DEF TypeOK
<1> QED
  BY <1>1, <1>7, <1>8, <1>9, CloserMoves

LEMMA QuiescedStep ==
    ASSUME IInv, NEW c \in Closer, Quiesced(c)
    PROVE  IInv'
<1>0. TypeOK /\ DriverInv /\ CountInv /\ CloseInv
  BY DEF IInv
<1>1. /\ closer[c] = "quiescing" /\ (lifecycle \in {"Failed", "Closed"} \/ Idle)
      /\ closed' = [closed EXCEPT ![c] = IF lifecycle = "Failed" THEN "Err" ELSE "Ok"]
      /\ closer' = [closer EXCEPT ![c] = IF style[c] = "drain" THEN "marking" ELSE "settling"]
      /\ UNCHANGED <<pending, active, inFlight, outstanding, physical, caller, answer, sup,
                     hand, verdict, exiting, appends, style, stored, adrift, handle, lifecycle>>
  BY DEF Quiesced, queueVars, rowVars, supVars, storeVars
<1>2. /\ closer'[c] = (IF style[c] = "drain" THEN "marking" ELSE "settling")
      /\ \A d \in Closer \ {c} : closer'[d] = closer[d]
  BY <1>0, <1>1 DEF TypeOK
<1>3. /\ closed'[c] = (IF lifecycle = "Failed" THEN "Err" ELSE "Ok")
      /\ \A d \in Closer \ {c} : closed'[d] = closed[d]
  BY <1>0, <1>1 DEF TypeOK
<1>4. lifecycle # "Open" /\ (lifecycle # "Failed" => Quiet)
  BY <1>0, <1>1 DEF CloseInv, Quiet, Idle, DriverInv
<1>5. (Quiet' <=> Quiet) /\ (NothingRuns' <=> NothingRuns)
  BY <1>1 DEF Quiet, NothingRuns
<1>7. CloseInv'
  BY <1>0, <1>1, <1>2, <1>3, <1>4, <1>5 DEF CloseInv
<1>8. /\ lifecycle' \in {"Open", "Closing", "Closed", "Failed"}
      /\ lifecycle' = "Failed" <=> lifecycle = "Failed"
      /\ closer' \in [Closer -> {"idle", "quiescing", "settling", "marking", "joining",
                                 "returned"}]
      /\ closed' \in [Closer -> {"none", "Ok", "Err"}]
  BY <1>0, <1>1 DEF TypeOK
<1>9. handle' \in BOOLEAN
  BY <1>0, <1>1 DEF TypeOK
<1> QED
  BY <1>1, <1>7, <1>8, <1>9, CloserMoves

LEMMA PhysicallyFinishedStep ==
    ASSUME IInv, NEW c \in Closer, PhysicallyFinished(c)
    PROVE  IInv'
<1>0. TypeOK /\ DriverInv /\ CountInv /\ CloseInv
  BY DEF IInv
<1>1. /\ closer[c] = "settling" /\ physical = 0
      /\ closer' = [closer EXCEPT ![c] = "marking"]
      /\ UNCHANGED <<pending, active, inFlight, outstanding, physical, caller, answer, sup,
                     hand, verdict, exiting, appends, style, stored, adrift, handle,
                     lifecycle, closed>>
  BY DEF PhysicallyFinished, queueVars, rowVars, supVars, storeVars
<1>2. /\ closer'[c] = "marking"
      /\ \A d \in Closer \ {c} : closer'[d] = closer[d]
  BY <1>0, <1>1 DEF TypeOK
<1>3. Quiet /\ NothingRuns
  <2>1. /\ exiting \in Nat /\ Cardinality(Runners) \in Nat /\ Cardinality(Detached) \in Nat
        /\ Cardinality(Runners) = 0 => Runners = {}
    BY <1>0, CountTypes DEF TypeOK, CountInv
  <2>2. ~Driven /\ Runners = {}
    <3>1. 0 = (IF Driven THEN 1 ELSE 0) + exiting + Cardinality(Runners) + Cardinality(Detached)
      BY <1>0, <1>1 DEF CountInv
    <3> DEFINE n == Cardinality(Runners)
               m == Cardinality(Detached)
    <3>2. n \in Nat /\ m \in Nat /\ exiting \in Nat
      BY <2>1
    <3>3. /\ Driven => 0 = 1 + exiting + n + m
          /\ ~Driven => 0 = 0 + exiting + n + m
      BY <3>1
    <3> HIDE DEF n, m
    <3>4. ~Driven /\ n = 0
      BY <3>2, <3>3
    <3> QED
      BY <2>1, <3>4 DEF n
  <2> QED
    BY <1>0, <1>1, <2>2 DEF Driven, Runners, Quiet, NothingRuns, DriverInv, CloseInv
<1>5. (Quiet' <=> Quiet) /\ (NothingRuns' <=> NothingRuns)
  BY <1>1 DEF Quiet, NothingRuns
<1>7. CloseInv'
  BY <1>0, <1>1, <1>2, <1>3, <1>5 DEF CloseInv
<1>8. /\ lifecycle' \in {"Open", "Closing", "Closed", "Failed"}
      /\ lifecycle' = "Failed" <=> lifecycle = "Failed"
      /\ closer' \in [Closer -> {"idle", "quiescing", "settling", "marking", "joining",
                                 "returned"}]
      /\ closed' \in [Closer -> {"none", "Ok", "Err"}]
  BY <1>0, <1>1 DEF TypeOK
<1>9. handle' \in BOOLEAN
  BY <1>0, <1>1 DEF TypeOK
<1> QED
  BY <1>1, <1>7, <1>8, <1>9, CloserMoves

LEMMA MarkClosedStep ==
    ASSUME IInv, NEW c \in Closer, MarkClosed(c)
    PROVE  IInv'
<1>0. TypeOK /\ DriverInv /\ CountInv /\ CloseInv
  BY DEF IInv
<1>1. /\ closer[c] = "marking"
      /\ lifecycle' = (IF closed[c] = "Ok" /\ lifecycle = "Closing" THEN "Closed"
                         ELSE lifecycle)
      /\ closer' = [closer EXCEPT ![c] =
                      IF style[c] = "drain" /\ handle THEN "joining" ELSE "returned"]
      /\ handle' = (handle /\ style[c] # "drain")
      /\ UNCHANGED <<pending, active, inFlight, outstanding, physical, caller, answer, sup,
                     hand, verdict, exiting, appends, style, stored, adrift, closed>>
  BY DEF MarkClosed, queueVars, rowVars, storeVars
<1>2. /\ closer'[c] = (IF style[c] = "drain" /\ handle THEN "joining" ELSE "returned")
      /\ \A d \in Closer \ {c} : closer'[d] = closer[d]
  BY <1>0, <1>1 DEF TypeOK
<1>3. lifecycle # "Open" /\ (lifecycle' = "Closed" => Quiet)
  BY <1>0, <1>1 DEF CloseInv
<1>5. (Quiet => Quiet') /\ (NothingRuns' <=> NothingRuns)
  BY <1>1 DEF Quiet, NothingRuns
<1>7. CloseInv'
  BY <1>0, <1>1, <1>2, <1>3, <1>5 DEF CloseInv
<1>8. /\ lifecycle' \in {"Open", "Closing", "Closed", "Failed"}
      /\ lifecycle' = "Failed" <=> lifecycle = "Failed"
      /\ closer' \in [Closer -> {"idle", "quiescing", "settling", "marking", "joining",
                                 "returned"}]
      /\ closed' \in [Closer -> {"none", "Ok", "Err"}]
  BY <1>0, <1>1 DEF TypeOK
<1>9. handle' \in BOOLEAN
  BY <1>1, Zenon
<1> QED
  BY <1>1, <1>7, <1>8, <1>9, CloserMoves

LEMMA SupervisorJoinedStep ==
    ASSUME IInv, NEW c \in Closer, SupervisorJoined(c)
    PROVE  IInv'
<1>0. TypeOK /\ DriverInv /\ CountInv /\ CloseInv
  BY DEF IInv
<1>1. /\ closer[c] = "joining" /\ closer' = [closer EXCEPT ![c] = "returned"]
      /\ UNCHANGED <<pending, active, inFlight, outstanding, physical, caller, answer, sup,
                     hand, verdict, exiting, appends, style, stored, adrift, handle,
                     lifecycle, closed>>
  BY DEF SupervisorJoined, queueVars, rowVars, supVars, storeVars
<1>2. /\ closer'[c] = "returned"
      /\ \A d \in Closer \ {c} : closer'[d] = closer[d]
  BY <1>0, <1>1 DEF TypeOK
<1>5. (Quiet' <=> Quiet) /\ (NothingRuns' <=> NothingRuns)
  BY <1>1 DEF Quiet, NothingRuns
<1>7. CloseInv'
  BY <1>0, <1>1, <1>2, <1>5 DEF CloseInv
<1>8. /\ lifecycle' \in {"Open", "Closing", "Closed", "Failed"}
      /\ lifecycle' = "Failed" <=> lifecycle = "Failed"
      /\ closer' \in [Closer -> {"idle", "quiescing", "settling", "marking", "joining",
                                 "returned"}]
      /\ closed' \in [Closer -> {"none", "Ok", "Err"}]
  BY <1>0, <1>1 DEF TypeOK
<1>9. handle' \in BOOLEAN
  BY <1>0, <1>1 DEF TypeOK
<1> QED
  BY <1>1, <1>7, <1>8, <1>9, CloserMoves

-----------------------------------------------------------------------------
(* The theorems.                                                           *)

LEMMA IInvPreserved == IInv /\ [Next]_vars => IInv'
<1> SUFFICES ASSUME IInv, [Next]_vars PROVE IInv'
  OBVIOUS
<1>1. CASE UNCHANGED vars
  <2>1. /\ UNCHANGED <<lifecycle, pending, active, inFlight, outstanding, physical, caller,
                       answer, sup, hand, verdict, exiting, handle, appends, closer, style,
                       closed, stored, adrift>>
    BY <1>1 DEF vars, queueVars, rowVars, supVars, closeVars, storeVars
  <2>2. TypeOK /\ CloseInv
    BY DEF IInv
  <2>3. CloseInv'
    BY <2>1, <2>2 DEF CloseInv, Quiet, NothingRuns
  <2> QED
    BY <2>1, <2>2, <2>3, CloserMoves DEF TypeOK
<1>2. ASSUME NEW r \in Row, Refuse(r) \/ Submit(r) \/ SpawnSupervisor(r) PROVE IInv'
  BY <1>2, RefuseStep, SubmitStep, SpawnStep
<1>3. CASE Supervise
  BY <1>3, BreaksStep, TakesStep, AnswersStep, JoinsStep, JoinsFatalStep, AbandonsStep
     DEF Supervise
<1>4. CASE SupExits
  BY <1>4, ExitsStep
<1>5. ASSUME NEW a \in appends, SupCancelled(a) \/ Reap(a) PROVE IInv'
  BY <1>5, CancelledStep, ReapStep
<1>6. CASE Store
  BY <1>6, AppendStep, DriftStep DEF Store
<1>7. ASSUME NEW c \in Closer, CloseStarts(c) \/ Closing(c) PROVE IInv'
  BY <1>7, CloseStartsStep, QuiescedStep, PhysicallyFinishedStep, MarkClosedStep,
     SupervisorJoinedStep DEF Closing
<1>8. CASE Finished
  BY <1>1, <1>8 DEF Finished
<1> QED
  BY <1>1, <1>2, <1>3, <1>4, <1>5, <1>6, <1>7, <1>8 DEF Next

LEMMA Invariance == Spec => []IInv
  BY InitIInv, IInvPreserved, PTL DEF Spec

\* driver_active, physical_reservations and outstanding_abandoned_appends are
\* exact for any rows and limits, through spawns, exits, abandonments and the
\* failure of the batch: one driver at most and never a queue without one, as
\* many reservations as there are tasks, and no more abandoned appends than
\* max_abandoned_appends.
THEOREM DriverIsExact == Spec => []DriverExact
<1>1. ASSUME IInv PROVE DriverExact
  <2>0. TypeOK /\ DriverInv /\ CountInv
    BY <1>1 DEF IInv
  <2>1. Cardinality(Spawners) + Supervisors = IF Driven THEN 1 ELSE 0
    <3>1. CASE Spawners = {}
      BY <2>0, <3>1, FS_EmptySet DEF Spawners, Supervisors, Driven
    <3>2. CASE Spawners # {}
      <4>1. PICK r : Spawners = {r}
        BY <2>0, <3>2 DEF Spawners, DriverInv
      <4>2. sup = "none" /\ Driven
        BY <2>0, <4>1 DEF Spawners, DriverInv, Driven
      <4>3. Cardinality(Spawners) = 1
        BY <4>1, FS_Singleton
      <4> QED
        BY <4>2, <4>3 DEF Supervisors
    <3> QED
      BY <3>1, <3>2
  <2>2. OneDriver
    BY <2>0, <2>1 DEF OneDriver, DriverInv, Spawners
  <2>3. PhysicalExact
    BY <2>0, <2>1 DEF PhysicalExact, CountInv, Runners
  <2>4. AbandonedBounded
    BY <2>0 DEF AbandonedBounded, CountInv
  <2> QED
    BY <2>0, <2>2, <2>3, <2>4 DEF DriverExact
<1> QED
  BY <1>1, Invariance, PTL

\* What submit answers is true and stays true, whatever lands late: Ok means the
\* row is in the store; a row that was refused, shed as StoreWedged or in
\* conflict is not there and cannot arrive any more.
THEOREM AnswersAreTruthful == Spec => []TruthfulAnswers
<1>1. ASSUME IInv PROVE TruthfulAnswers
  <2> SUFFICES ASSUME NEW r \in Row
               PROVE  /\ answer[r] = "Ok" => r \in stored
                      /\ caller[r] = "refused"
                           \/ answer[r] \in {"StoreWedged", "IdentityConflict"} =>
                           r \notin stored /\ r \notin (UNION adrift) \ Foreign
    BY DEF TruthfulAnswers
  <2>1. FateInv /\ StoreInv
    BY <1>1 DEF IInv
  <2>2. answer[r] = "Ok" => r \in stored
    BY <2>1 DEF StoreInv
  <2>3. ASSUME caller[r] = "refused" \/ answer[r] = "StoreWedged"
        PROVE  r \notin stored /\ r \notin UNION adrift
    BY <2>1, <2>3 DEF FateInv, Sent, Held
  <2>4. ASSUME answer[r] = "IdentityConflict"
        PROVE  r \notin stored /\ r \in Foreign
    BY <2>1, <2>4 DEF StoreInv
  <2> QED
    BY <2>2, <2>3, <2>4
<1> QED
  BY <1>1, Invariance, PTL

\* close_and_drain and close_and_wait_for_physical_completion are barriers: after
\* an Ok every accepted row has its answer, and after the physical close, also
\* one that failed, nothing of the batch runs or can start again.
THEOREM ClosesAreBarriers == Spec => []CloseIsBarrier
<1>1. ASSUME IInv PROVE CloseIsBarrier
  <2> SUFFICES ASSUME NEW c \in Closer, closer[c] = "returned"
               PROVE  /\ closed[c] = "Ok" =>
                           \A r \in Row : caller[r] \in {"spawning", "accepted"} =>
                                            answer[r] # "none"
                      /\ style[c] = "physical" =>
                           Spawners = {} /\ sup = "none" /\ \A a \in appends : ~Running(a)
    BY DEF CloseIsBarrier
  <2>0. TypeOK /\ DriverInv /\ RowInv /\ CloseInv
    BY <1>1 DEF IInv
  <2>1. ASSUME Quiet PROVE hand = {} /\ Queued = {}
    <3>1. pending = <<>> /\ Len(<<>>) = 0
      BY <2>1, EmptySeq DEF Quiet
    <3>2. DOMAIN pending = 1 .. 0
      BY <2>0, <3>1, LenProperties DEF TypeOK
    <3> QED
      BY <2>0, <2>1, <3>2 DEF Quiet, Queued, DriverInv
  <2>2. ASSUME closed[c] = "Ok", NEW r \in Row, caller[r] \in {"spawning", "accepted"}
        PROVE  answer[r] # "none"
    BY <2>0, <2>1, <2>2 DEF CloseInv, RowInv, Held
  <2>3. ASSUME style[c] = "physical"
        PROVE  Spawners = {} /\ sup = "none" /\ \A a \in appends : ~Running(a)
    BY <2>0, <2>3 DEF CloseInv, Quiet, NothingRuns, Spawners
  <2> QED
    BY <2>2, <2>3
<1> QED
  BY <1>1, Invariance, PTL
=============================================================================
