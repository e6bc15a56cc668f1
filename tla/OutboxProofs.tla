---------------------------- MODULE OutboxProofs ----------------------------
(***************************************************************************)
(* For any number of messages, daemons and sending domains, and any number *)
(* of crashes: sends are accounted for (SendsAccounted) and rows only move *)
(* forward (RowIsFinal).                                                   *)
(***************************************************************************)
EXTENDS Outbox, TLAPS

-----------------------------------------------------------------------------
(* The inductive invariant.                                                *)

Resting == {"down", "idle", "restart", "ended"}
Changing == {"load", "cas"}

\* What a worker has in its hands at each step.
Placed(w) ==
    /\ at[w] \in Changing <=> job[w] # "none"
    /\ at[w] \in Changing \cup {"send", "diagnose"} <=> cur[w] # NoMessage
    /\ at[w] \in Resting => page[w] = {} /\ snap[w] = NoSnap
    /\ cur[w] \notin page[w]
    /\ flaw[w] = "limited" => job[w] = "retry"
    /\ flaw[w] \in {"holds", "holdFailed"} => at[w] = "diagnose" \/ job[w] = "noted"
    /\ job[w] = "claim" => id[w] = Current[w]
    /\ fresh[w] => at[w] = "cas"

PlaceInv == \A w \in Worker : Placed(w)

\* A compare-and-set that can still succeed writes what its checks allowed:
\* whoever changes the row in between makes it stale.
FreshInv ==
    \A w \in Worker : fresh[w] => Checked(job[w], row[cur[w]]) = "write"

\* Once a row has an id, everybody who works on it has that one.
IdInv ==
    /\ \A w \in Worker, m \in Message : snap[w][m] # NoId => snap[w][m] = row[m].id
    /\ \A w \in Worker : at[w] = "send" => id[w] = row[cur[w]].id /\ id[w] \in Domain
    /\ \A m \in Message : used[m] \subseteq {row[m].id} \cap Domain

\* A worker that retries diagnostics neither sends nor stamps an outcome; the
\* others may.
OnHolds(w) == at[w] = "holds" \/ flaw[w] = "holds"
Active(w, m) == Holding(w, m) /\ ~OnHolds(w)

\* A message that is not excused is in one pass at most, and in none once its
\* outcome is recorded; if the transport has accepted it, that is recorded, or
\* the worker in whose pass it is knows.
PassInv ==
    \A m \in Message : m \notin excused =>
      /\ \A v, w \in Worker : Active(v, m) /\ Active(w, m) => v = w
      /\ Terminal(row[m]) => \A w \in Worker : ~Active(w, m)
      /\ taken[m] > 0 => \/ row[m].delivery = "delivered"
                         \/ \E w \in Worker : cur[w] = m /\ job[w] = "delivered"
      /\ taken[m] <= 1

\* What a stamp records is so.
StampInv ==
    /\ \A w \in Worker : job[w] = "delivered" => taken[cur[w]] > 0
    /\ \A m \in Message : row[m].delivery = "delivered" => taken[m] > 0
    /\ \A m \in Message :
         row[m].delivery = "failed" /\ taken[m] > 0 => m \in excused

\* A row says it has its diagnostic only after the diagnostic was written.
NoteInv ==
    /\ \A w \in Worker : job[w] = "noted" => cur[w] \in noted
    /\ \A m \in Message : row[m].noted => m \in noted /\ row[m].held

-----------------------------------------------------------------------------
(* Preservation.                                                           *)

Rows == [id : Ids, delivery : {"pending", "delivered", "failed"},
         due : BOOLEAN, held : BOOLEAN, noted : BOOLEAN]
Places == {"down", "idle", "holds", "pass", "load", "cas", "send", "diagnose",
           "restart", "ended"}

\* The types of what a worker turns to, ...
HandsOK ==
    /\ at \in [Worker -> Places] /\ job \in [Worker -> Jobs]
    /\ page \in [Worker -> SUBSET Message] /\ snap \in [Worker -> [Message -> Ids]]
    /\ cur \in [Worker -> Message \cup {NoMessage}] /\ id \in [Worker -> Ids]
    /\ flaw \in [Worker -> {"none", "holdFailed", "limited", "holds"}]

LEMMA QuitsType ==
    ASSUME HandsOK, NEW w \in Worker, NEW where \in Places, Quits(w, where)
    PROVE  HandsOK'
<1>1. NoSnap \in [Message -> Ids]
  BY DEF NoSnap, Ids
<1> QED
  BY <1>1 DEF HandsOK, Quits, Leaves, Jobs, Ids

LEMMA TakesType ==
    ASSUME HandsOK, NEW w \in Worker, NEW m \in Message, Takes(w, m)
    PROVE  page' \in [Worker -> SUBSET Message] /\ snap' \in [Worker -> [Message -> Ids]]
<1>1. snap[w] \in [Message -> Ids] /\ NoId \in Ids
  BY DEF HandsOK, Ids
<1>2. [snap[w] EXCEPT ![m] = NoId] \in [Message -> Ids]
  BY <1>1
<1>3. snap' = [snap EXCEPT ![w] = [snap[w] EXCEPT ![m] = NoId]]
  BY DEF Takes
<1> QED
  BY <1>2, <1>3 DEF HandsOK, Takes

\* ... of a row that was changed, ...
LEMMA WrittenType ==
    ASSUME NEW what \in Jobs \ {"none"}, NEW r \in Rows, NEW i \in Ids
    PROVE  Written(what, r, i) \in Rows
<1>1. CASE what = "claim"
  BY <1>1 DEF Written, Rows
<1>2. CASE what = "delivered"
  BY <1>2 DEF Written, Rows, Failures
<1>3. CASE what \in Failures
  BY <1>3 DEF Written, Rows, Failures
<1>4. CASE what \in {"retry", "claimRetry"}
  BY <1>4 DEF Written, Rows, Failures
<1>5. CASE what = "hold"
  BY <1>5 DEF Written, Rows, Failures
<1>6. CASE what = "noted"
  BY <1>6 DEF Written, Rows, Failures
<1> QED
  BY <1>1, <1>2, <1>3, <1>4, <1>5, <1>6 DEF Jobs, Failures

\* ... and of what follows a change.
LEMMA FollowsType ==
    ASSUME HandsOK, PlaceInv, excused \subseteq Message,
           NEW w \in Worker, NEW outcome, at[w] \in Changing, Follows(w, outcome)
    PROVE  HandsOK' /\ excused' \subseteq Message
<1>1. excused' \subseteq Message
  BY DEF HandsOK, PlaceInv, Placed, Follows
<1>2. CASE job[w] = "claim" /\ ClaimFollows(w, outcome)
  BY <1>1, <1>2 DEF HandsOK, ClaimFollows, Places, Jobs, Ids
<1>3. CASE job[w] = "hold" /\ HoldFollows(w, outcome)
  BY <1>1, <1>3 DEF HandsOK, HoldFollows, Places, Jobs
<1>4. CASE Quits(w, "restart") \/ Quits(w, "idle")
  BY <1>1, <1>4, QuitsType DEF Places
<1>5. CASE /\ Leaves(w, IF flaw[w] = "holds" THEN "holds" ELSE "pass")
           /\ UNCHANGED <<page, snap>>
  BY <1>1, <1>5 DEF HandsOK, Leaves, Places, Jobs, Ids
<1> QED
  BY <1>1, <1>2, <1>3, <1>4, <1>5 DEF Follows

LEMMA TurnsType ==
    ASSUME HandsOK, NEW w \in Worker, NEW what \in Jobs, NEW m \in Message, Turns(w, what, m)
    PROVE  /\ at' \in [Worker -> Places] /\ job' \in [Worker -> Jobs]
           /\ cur' \in [Worker -> Message \cup {NoMessage}]
  BY DEF HandsOK, Turns, Places

LEMMA SendsType ==
    ASSUME HandsOK, used \in [Message -> SUBSET Ids], taken \in [Message -> 0 .. 2],
           NEW w \in Worker, cur[w] \in Message, Sends(w)
    PROVE  /\ used' \in [Message -> SUBSET Ids]
           /\ Accepted(cur[w]) \/ UNCHANGED taken => taken' \in [Message -> 0 .. 2]
<1>1. used' \in [Message -> SUBSET Ids]
  BY DEF HandsOK, Sends
<1>2. ASSUME Accepted(cur[w]) PROVE taken' \in [Message -> 0 .. 2]
  BY <1>2 DEF Accepted
<1> QED
  BY <1>1, <1>2

\* The rest of TypeOK.
StoreOK ==
    /\ recipient \in [Message -> {"policy", "external", "denied"}]
    /\ row \in [Message -> Rows] /\ noted \subseteq Message
    /\ fresh \in [Worker -> BOOLEAN]
    /\ used \in [Message -> SUBSET Ids] /\ taken \in [Message -> 0 .. 2]
    /\ excused \subseteq Message /\ crashes \in 0 .. MaxCrashes

LEMMA TypeSplit == TypeOK <=> HandsOK /\ StoreOK
  BY DEF TypeOK, HandsOK, StoreOK, Rows, Places

\* Every action of a worker, one by one, preserves the types.
LEMMA WorkerType ==
    ASSUME HandsOK, StoreOK, PlaceInv, NEW w \in Worker,
           Boots(w) \/ Crashes(w) \/ Restarts(w) \/ Works(w) \/ Fails(w)
    PROVE  (HandsOK /\ StoreOK)'
<1> USE DomainAssumption, MessageAssumption
    DEF StoreOK, rowVars, workVars, history
<1>1. CASE Boots(w)
  BY <1>1 DEF Boots, HandsOK, Places
<1>2. CASE Crashes(w)
  <2>1. HandsOK'
    BY <1>2, QuitsType DEF Crashes, Places
  <2>2. excused' \subseteq Message
    BY <1>2 DEF Crashes, PlaceInv, Placed, Changing, HandsOK
  <2>3. crashes' \in 0 .. MaxCrashes
    BY <1>2 DEF Crashes
  <2> QED
    BY <1>2, <2>1, <2>2, <2>3 DEF Crashes, Forgets
<1>3. CASE Restarts(w)
  BY <1>3 DEF Restarts, HandsOK, Places
<1>4. CASE RetryHeldDiagnostics(w)
  BY <1>4 DEF RetryHeldDiagnostics, HandsOK, Places
<1>5. CASE RetriesDiagnostic(w)
  BY <1>5 DEF RetriesDiagnostic, HandsOK, Places
<1>6. CASE Scans(w)
  <2> DEFINE found == {m \in Message : Pending(row[m])}
             read == [m \in Message |-> IF m \in found THEN row[m].id ELSE NoId]
  <2>1. found \subseteq Message /\ \A m \in Message : row[m] \in Rows
    OBVIOUS
  <2>2. read \in [Message -> Ids]
    BY <2>1 DEF Rows, Ids
  <2>3. /\ page' = [page EXCEPT ![w] = found] /\ snap' = [snap EXCEPT ![w] = read]
        /\ excused' \subseteq Message
    BY <1>6 DEF Scans
  <2>4. HandsOK'
    BY <1>6, <2>1, <2>2, <2>3 DEF Scans, HandsOK, Places
  <2> QED
    BY <1>6, <2>3, <2>4 DEF Scans
<1>7. CASE ScanFails(w)
  <2>1. HandsOK'
    BY <1>7, QuitsType DEF ScanFails, Places
  <2> QED
    BY <1>7, <2>1 DEF ScanFails
<1>8. CASE PassEnds(w)
  <2>1. HandsOK'
    BY <1>8, QuitsType DEF PassEnds, Places
  <2> QED
    BY <1>8, <2>1 DEF PassEnds
<1>9. ASSUME NEW m \in Message, Unverifiable(w, m) PROVE (HandsOK /\ StoreOK)'
  <2>1. page' \in [Worker -> SUBSET Message] /\ snap' \in [Worker -> [Message -> Ids]]
    BY <1>9, TakesType DEF Unverifiable
  <2> QED
    BY <1>9, <2>1 DEF Unverifiable, HandsOK, Places, Jobs, Turns
<1>10. ASSUME NEW m \in Message, PolicyRefuses(w, m) PROVE (HandsOK /\ StoreOK)'
  <2>1. page' \in [Worker -> SUBSET Message] /\ snap' \in [Worker -> [Message -> Ids]]
    BY <1>10, TakesType DEF PolicyRefuses
  <2>2. /\ at' \in [Worker -> Places] /\ job' \in [Worker -> Jobs]
        /\ cur' \in [Worker -> Message \cup {NoMessage}]
    BY <1>10, TurnsType DEF PolicyRefuses, Jobs
  <2> QED
    BY <1>10, <2>1, <2>2 DEF PolicyRefuses, HandsOK
<1>11. ASSUME NEW m \in Message, MirrorStale(w, m) PROVE (HandsOK /\ StoreOK)'
  <2>1. page' \in [Worker -> SUBSET Message] /\ snap' \in [Worker -> [Message -> Ids]]
    BY <1>11, TakesType DEF MirrorStale
  <2> QED
    BY <1>11, <2>1 DEF MirrorStale, HandsOK, Places, Jobs
<1>12. ASSUME NEW m \in Message, SuppressionUnavailable(w, m) PROVE (HandsOK /\ StoreOK)'
  <2>1. HandsOK'
    BY <1>12, QuitsType DEF SuppressionUnavailable, Places
  <2> QED
    BY <1>12, <2>1 DEF SuppressionUnavailable
<1>13. ASSUME NEW m \in Message, Prepares(w, m) PROVE (HandsOK /\ StoreOK)'
  <2>1. page' \in [Worker -> SUBSET Message] /\ snap' \in [Worker -> [Message -> Ids]]
    BY <1>13, TakesType DEF Prepares
  <2>2. CASE snap[w][m] # NoId
    <3>1. snap[w][m] \in Ids
      BY DEF HandsOK
    <3>2. /\ at' = [at EXCEPT ![w] = "send"] /\ cur' = [cur EXCEPT ![w] = m]
          /\ id' = [id EXCEPT ![w] = snap[w][m]] /\ UNCHANGED <<job, flaw>>
      BY <1>13, <2>2 DEF Prepares
    <3>3. HandsOK'
      BY <2>1, <3>1, <3>2 DEF HandsOK, Places
    <3> QED
      BY <1>13, <3>3 DEF Prepares
  <2>3. CASE snap[w][m] = NoId
    <3>1. /\ at' \in [Worker -> Places] /\ job' \in [Worker -> Jobs]
          /\ cur' \in [Worker -> Message \cup {NoMessage}]
      BY <1>13, <2>3, TurnsType DEF Prepares, Jobs
    <3>2. id' \in [Worker -> Ids] /\ flaw' = flaw
      BY <1>13, <2>3 DEF Prepares, HandsOK, Ids
    <3>3. HandsOK'
      BY <2>1, <3>1, <3>2 DEF HandsOK
    <3> QED
      BY <1>13, <3>3 DEF Prepares
  <2> QED
    BY <2>2, <2>3
<1>14. CASE Loads(w)
  <2>1. CASE Checked(job[w], row[cur[w]]) = "write"
    BY <1>14, <2>1 DEF Loads, HandsOK, Places
  <2>2. CASE Follows(w, Checked(job[w], row[cur[w]])) /\ UNCHANGED fresh
    <3>1. HandsOK' /\ excused' \subseteq Message
      BY <1>14, <2>2, FollowsType DEF Loads, Changing
    <3> QED
      BY <1>14, <2>2, <3>1 DEF Loads
  <2> QED
    BY <1>14, <2>1, <2>2 DEF Loads
<1>15. CASE LoadFails(w)
  <2>1. HandsOK' /\ excused' \subseteq Message
    BY <1>15, FollowsType DEF LoadFails, Changing
  <2> QED
    BY <1>15, <2>1 DEF LoadFails
<1>16. CASE Replaces(w)
  <2>1. HandsOK' /\ excused' \subseteq Message
    BY <1>16, FollowsType DEF Replaces, Changing
  <2>2. cur[w] \in Message /\ job[w] \in Jobs \ {"none"} /\ id[w] \in Ids /\ row[cur[w]] \in Rows
    BY <1>16, TypeSplit DEF Replaces, PlaceInv, Placed, Changing, HandsOK, Places
  <2>3. row' \in [Message -> Rows]
    BY <1>16, <2>2, WrittenType DEF Replaces
  <2>4. fresh' \in [Worker -> BOOLEAN]
    BY <1>16 DEF Replaces, Spoils
  <2> QED
    BY <1>16, <2>1, <2>3, <2>4 DEF Replaces
<1>17. CASE ReplaceLost(w)
  <2>1. HandsOK' /\ excused' \subseteq Message
    BY <1>17, FollowsType DEF ReplaceLost, Changing
  <2>2. cur[w] \in Message /\ job[w] \in Jobs \ {"none"} /\ id[w] \in Ids /\ row[cur[w]] \in Rows
    BY <1>17, TypeSplit DEF ReplaceLost, PlaceInv, Placed, Changing, HandsOK, Places
  <2>3. row' \in [Message -> Rows]
    BY <1>17, <2>2, WrittenType DEF ReplaceLost
  <2>4. fresh' \in [Worker -> BOOLEAN]
    BY <1>17 DEF ReplaceLost, Spoils
  <2> QED
    BY <1>17, <2>1, <2>3, <2>4 DEF ReplaceLost
<1>18. CASE ReplaceConflicts(w)
  <2>1. HandsOK' /\ excused' \subseteq Message
    BY <1>18, FollowsType DEF ReplaceConflicts, Changing
  <2> QED
    BY <1>18, <2>1 DEF ReplaceConflicts
<1>19. CASE ReplaceFails(w)
  <2>1. HandsOK' /\ excused' \subseteq Message
    BY <1>19, FollowsType DEF ReplaceFails, Changing
  <2> QED
    BY <1>19, <2>1 DEF ReplaceFails, Forgets
<1>20. CASE Diagnoses(w)
  BY <1>20 DEF Diagnoses, Turns, HandsOK, PlaceInv, Placed, Changing, Places, Jobs
<1>21. CASE DiagnosticFails(w)
  <2>1. HandsOK'
    BY <1>21, QuitsType DEF DiagnosticFails, Places
  <2>2. noted' \subseteq Message
    BY <1>21 DEF DiagnosticFails, PlaceInv, Placed, Changing, HandsOK
  <2> QED
    BY <1>21, <2>1, <2>2 DEF DiagnosticFails
<1>22. CASE SendAnswered(w)
  <2>1. cur[w] \in Message
    BY <1>22 DEF SendAnswered, Sends, HandsOK, PlaceInv, Placed, Changing
  <2>2. used' \in [Message -> SUBSET Ids] /\ taken' \in [Message -> 0 .. 2]
    BY <1>22, <2>1, SendsType DEF SendAnswered
  <2>3. /\ at' \in [Worker -> Places] /\ job' \in [Worker -> Jobs]
        /\ cur' \in [Worker -> Message \cup {NoMessage}]
    BY <1>22, <2>1, TurnsType DEF SendAnswered, Jobs
  <2> QED
    BY <1>22, <2>1, <2>2, <2>3 DEF SendAnswered, HandsOK
<1>23. CASE SendFails(w)
  <2>1. cur[w] \in Message
    BY <1>23 DEF SendFails, Sends, HandsOK, PlaceInv, Placed, Changing
  <2>2. used' \in [Message -> SUBSET Ids] /\ taken' \in [Message -> 0 .. 2]
    BY <1>23, <2>1, SendsType DEF SendFails
  <2>3. /\ at' \in [Worker -> Places] /\ job' \in [Worker -> Jobs]
        /\ cur' \in [Worker -> Message \cup {NoMessage}]
    BY <1>23, <2>1, TurnsType DEF SendFails, Jobs
  <2> QED
    BY <1>23, <2>1, <2>2, <2>3 DEF SendFails, HandsOK
<1>24. CASE SendUnauthorized(w)
  <2>1. HandsOK'
    BY <1>24, QuitsType DEF SendUnauthorized, Places
  <2> QED
    BY <1>24, <2>1 DEF SendUnauthorized
<1> QED
  BY <1>1, <1>2, <1>3, <1>4, <1>5, <1>6, <1>7, <1>8, <1>9, <1>10, <1>11, <1>12, <1>13,
     <1>14, <1>15, <1>16, <1>17, <1>18, <1>19, <1>20, <1>21, <1>22, <1>23, <1>24
     DEF Works, Fails

-----------------------------------------------------------------------------
(* What the actions do, as far as the invariant can tell: some ten moves,  *)
(* each with all that can come of it.                                      *)

HandsKept(v) ==
    /\ at'[v] = at[v] /\ job'[v] = job[v] /\ cur'[v] = cur[v] /\ flaw'[v] = flaw[v]
    /\ id'[v] = id[v] /\ page'[v] = page[v] /\ snap'[v] = snap[v]

\* The worker goes to a, with change j of message c in hand, and flaw f.
Goes(w, a, j, c, f) == at'[w] = a /\ job'[w] = j /\ cur'[w] = c /\ flaw'[w] = f
PageKept(w) == page'[w] = page[w] /\ snap'[w] = snap[w]

StoreKept == UNCHANGED <<row, used, taken>>
OthersFresh(w) == \A v \in Worker \ {w} : fresh'[v] = fresh[v]

\* The pass is over; a crash loses the stamp in hand.
Rests(w) ==
    /\ \E a \in Resting : Goes(w, a, "none", NoMessage, "none")
    /\ page'[w] = {} /\ snap'[w] = NoSnap

Stops(w) ==
    /\ Rests(w)
    /\ StoreKept /\ OthersFresh(w) /\ ~fresh'[w]
    /\ noted \subseteq noted' /\ excused \subseteq excused'
    /\ job[w] = "delivered" => cur[w] \in excused'

\* A message of the page is taken up, or left for the next pass.
Picks(w, m) ==
    /\ at[w] = "pass" /\ m \in page[w]
    /\ page'[w] = page[w] \ {m} /\ snap'[w] = [snap[w] EXCEPT ![m] = NoId]
    /\ \/ Goes(w, "pass", "none", NoMessage, flaw[w])
       \/ \E j \in {"hold", "deny", "suppress"} : Goes(w, "load", j, m, flaw[w])
       \/ Goes(w, "load", "claim", m, flaw[w]) /\ id'[w] = Current[w]
       \/ /\ Goes(w, "send", "none", m, flaw[w])
          /\ id'[w] = snap[w][m] /\ snap[w][m] # NoId /\ snap[w][m] \in Domain
    /\ StoreKept /\ UNCHANGED <<fresh, noted, excused>>

\* The checks of a change pass.
Passes(w) ==
    /\ at[w] = "load" /\ Checked(job[w], row[cur[w]]) = "write"
    /\ Goes(w, "cas", job[w], cur[w], flaw[w]) /\ id'[w] = id[w] /\ PageKept(w)
    /\ OthersFresh(w) /\ fresh'[w]
    /\ StoreKept /\ UNCHANGED <<noted, excused>>

\* Where a change leaves the worker: out of the pass, at the next message, or at
\* the next change of the same one.
GoesOn(w, outcome) ==
    \/ job[w] \notin {"claim", "hold"} /\ Rests(w)
    \/ /\ job[w] \notin {"claim", "hold"}
       /\ Goes(w, IF flaw[w] = "holds" THEN "holds" ELSE "pass", "none", NoMessage, "none")
       /\ PageKept(w)
    \/ /\ job[w] = "claim" /\ outcome = "ok"
       /\ Goes(w, "send", "none", cur[w], flaw[w]) /\ id'[w] = id[w] /\ PageKept(w)
    \/ /\ job[w] = "claim" /\ outcome # "ok" /\ PageKept(w)
       /\ \E j \in {"claimFailed", "claimRetry"} : Goes(w, "load", j, cur[w], flaw[w])
    \/ /\ job[w] = "hold" /\ PageKept(w)
       /\ \E f \in {"none", "holdFailed"} : Goes(w, "diagnose", "none", cur[w], f)

Excuses(w, outcome) ==
    /\ excused \subseteq excused'
    /\ job[w] = "delivered" /\ outcome # "ok" => cur[w] \in excused'

\* The change is refused, not needed, or fails.
Misses(w) ==
    /\ at[w] \in Changing
    /\ \E outcome \in {"ok", "invalid", "error"} :
         /\ job[w] \in {"claim", "delivered"} => outcome # "ok"
         /\ GoesOn(w, outcome) /\ Excuses(w, outcome)
    /\ OthersFresh(w) /\ ~fresh'[w]
    /\ StoreKept /\ UNCHANGED noted

\* The row is written.
Stamps(w) ==
    /\ at[w] = "cas" /\ fresh[w]
    /\ row' = [row EXCEPT ![cur[w]] = Written(job[w], row[cur[w]], id[w])]
    /\ \E outcome \in {"ok", "error"} : GoesOn(w, outcome) /\ Excuses(w, outcome)
    /\ \A v \in Worker : fresh'[v] => fresh[v] /\ v # w /\ cur[v] # cur[w]
    /\ UNCHANGED <<used, taken, noted>>

\* The message goes to the transport, which accepts it and says so, accepts it
\* and does not, or rejects it.
Submits(w) ==
    /\ at[w] = "send" /\ used' = [used EXCEPT ![cur[w]] = @ \cup {id[w]}]
    /\ \/ Accepted(cur[w]) /\ Goes(w, "load", "delivered", cur[w], flaw[w])
          /\ UNCHANGED excused
       \/ /\ Accepted(cur[w]) /\ Goes(w, "load", "retry", cur[w], flaw[w])
          /\ excused' = excused \cup {cur[w]}
       \/ /\ UNCHANGED <<taken, excused>>
          /\ \E j \in {"reject", "retry"}, f \in {flaw[w], "limited"} :
               (f = "limited" => j = "retry") /\ Goes(w, "load", j, cur[w], f)
    /\ id'[w] = id[w] /\ PageKept(w)
    /\ UNCHANGED <<row, noted, fresh>>

LEMMA QuitsMove ==
    ASSUME HandsOK, NEW w \in Worker, NEW where \in Resting, Quits(w, where)
    PROVE  Rests(w)
  BY DEF HandsOK, Quits, Leaves, Rests, Goes

LEMMA FollowsMove ==
    ASSUME HandsOK, PlaceInv, NEW w \in Worker, NEW outcome, at[w] \in Changing,
           Follows(w, outcome)
    PROVE  GoesOn(w, outcome) /\ Excuses(w, outcome)
<1>1. Excuses(w, outcome)
  BY DEF Follows, Excuses
<1>2. CASE job[w] = "claim" /\ ClaimFollows(w, outcome)
  BY <1>1, <1>2 DEF HandsOK, ClaimFollows, GoesOn, Goes, PageKept
<1>3. CASE job[w] = "hold" /\ HoldFollows(w, outcome)
  BY <1>1, <1>3 DEF HandsOK, HoldFollows, GoesOn, Goes, PageKept
<1>4. CASE Fatal(w, outcome) /\ Quits(w, "restart")
  <2>1. job[w] \notin {"claim", "hold"}
    BY <1>4 DEF Fatal
  <2> QED
    BY <1>1, <1>4, <2>1, QuitsMove DEF GoesOn, Resting
<1>5. CASE flaw[w] = "limited" /\ Quits(w, "idle")
  <2>1. job[w] \notin {"claim", "hold"}
    BY <1>5 DEF PlaceInv, Placed
  <2> QED
    BY <1>1, <1>5, <2>1, QuitsMove DEF GoesOn, Resting
<1>6. CASE /\ job[w] \notin {"claim", "hold"}
           /\ Leaves(w, IF flaw[w] = "holds" THEN "holds" ELSE "pass")
           /\ UNCHANGED <<page, snap>>
  BY <1>1, <1>6 DEF HandsOK, Leaves, GoesOn, Goes, PageKept
<1> QED
  BY <1>2, <1>3, <1>4, <1>5, <1>6 DEF Follows

LEMMA FollowsOthers ==
    ASSUME HandsOK, NEW w \in Worker, NEW outcome, Follows(w, outcome),
           NEW v \in Worker \ {w}
    PROVE  HandsKept(v)
  BY DEF HandsOK, HandsKept, Follows, ClaimFollows, HoldFollows, Quits, Leaves

\* A worker's action concerns its own hands only.
LEMMA OthersKept ==
    ASSUME HandsOK, NEW w \in Worker,
           Boots(w) \/ Crashes(w) \/ Restarts(w) \/ Works(w) \/ Fails(w)
    PROVE  \A v \in Worker \ {w} : HandsKept(v)
<1> USE DEF HandsOK, HandsKept, rowVars, workVars, history
<1>1. CASE Boots(w)
  BY <1>1 DEF Boots
<1>2. CASE Crashes(w)
  BY <1>2 DEF Crashes, Quits, Leaves, Forgets
<1>3. CASE Restarts(w)
  BY <1>3 DEF Restarts
<1>4. CASE RetryHeldDiagnostics(w)
  BY <1>4 DEF RetryHeldDiagnostics
<1>5. CASE RetriesDiagnostic(w)
  BY <1>5 DEF RetriesDiagnostic
<1>6. CASE Scans(w)
  BY <1>6 DEF Scans, Holding, Pending, Terminal
<1>7. CASE ScanFails(w)
  BY <1>7 DEF ScanFails, Quits, Leaves
<1>8. CASE PassEnds(w)
  BY <1>8 DEF PassEnds, Quits, Leaves
<1>9. ASSUME NEW m \in Message, Unverifiable(w, m) PROVE \A v \in Worker \ {w} : HandsKept(v)
  BY <1>9 DEF Unverifiable, Turns, Takes
<1>10. ASSUME NEW m \in Message, PolicyRefuses(w, m) PROVE \A v \in Worker \ {w} : HandsKept(v)
  BY <1>10 DEF PolicyRefuses, Verifies, Turns, Takes
<1>11. ASSUME NEW m \in Message, MirrorStale(w, m) PROVE \A v \in Worker \ {w} : HandsKept(v)
  BY <1>11 DEF MirrorStale, Verifies, Takes
<1>12. ASSUME NEW m \in Message, SuppressionUnavailable(w, m)
       PROVE  \A v \in Worker \ {w} : HandsKept(v)
  BY <1>12 DEF SuppressionUnavailable, Verifies, Quits, Leaves
<1>13. ASSUME NEW m \in Message, Prepares(w, m) PROVE \A v \in Worker \ {w} : HandsKept(v)
  BY <1>13 DEF Prepares, Verifies, Verified, Turns, Takes
<1>14. CASE Loads(w)
  BY <1>14, FollowsOthers DEF Loads
<1>15. CASE LoadFails(w)
  BY <1>15, FollowsOthers DEF LoadFails
<1>16. CASE Replaces(w)
  BY <1>16, FollowsOthers DEF Replaces
<1>17. CASE ReplaceLost(w)
  BY <1>17, FollowsOthers DEF ReplaceLost
<1>18. CASE ReplaceConflicts(w)
  BY <1>18, FollowsOthers DEF ReplaceConflicts
<1>19. CASE ReplaceFails(w)
  BY <1>19, FollowsOthers DEF ReplaceFails
<1>20. CASE Diagnoses(w)
  BY <1>20 DEF Diagnoses, Turns
<1>21. CASE DiagnosticFails(w)
  BY <1>21 DEF DiagnosticFails, Quits, Leaves
<1>22. CASE SendAnswered(w)
  BY <1>22 DEF SendAnswered, Sends, Accepted, Turns
<1>23. CASE SendFails(w)
  BY <1>23 DEF SendFails, Sends, Accepted, Turns
<1>24. CASE SendUnauthorized(w)
  BY <1>24 DEF SendUnauthorized, Quits, Leaves
<1> QED
  BY <1>1, <1>2, <1>3, <1>4, <1>5, <1>6, <1>7, <1>8, <1>9, <1>10, <1>11, <1>12, <1>13,
     <1>14, <1>15, <1>16, <1>17, <1>18, <1>19, <1>20, <1>21, <1>22, <1>23, <1>24
     DEF Works, Fails

\* Nothing but a crash takes a stamp away from a worker that is not changing.
LEMMA StopsMove ==
    ASSUME PlaceInv, NEW w \in Worker, Rests(w), StoreKept, noted \subseteq noted',
           UNCHANGED <<fresh, excused>>, at[w] \notin Changing
    PROVE  Stops(w)
  BY DEF PlaceInv, Placed, Stops, OthersFresh, Changing

Moves(w) ==
    \/ Stops(w) \/ RetryHeldDiagnostics(w) \/ RetriesDiagnostic(w) \/ Scans(w)
    \/ \E m \in Message : Picks(w, m)
    \/ Passes(w) \/ Misses(w) \/ Stamps(w) \/ Diagnoses(w) \/ Submits(w)

\* Every action of a worker is one of these moves.
LEMMA WorkerMoves ==
    ASSUME HandsOK, StoreOK, PlaceInv, NEW w \in Worker,
           Boots(w) \/ Crashes(w) \/ Restarts(w) \/ Works(w) \/ Fails(w)
    PROVE  Moves(w)
<1> USE DomainAssumption, MessageAssumption
    DEF Moves, rowVars, workVars, history
<1>1. CASE Boots(w)
  <2>1. Rests(w)
    BY <1>1 DEF Boots, HandsOK, PlaceInv, Placed, Rests, Goes, Resting, Changing, NoSnap
  <2> QED
    BY <1>1, <2>1, StopsMove DEF Boots, StoreKept, Changing
<1>2. CASE Crashes(w)
  <2>1. Rests(w)
    BY <1>2, QuitsMove DEF Crashes, Resting
  <2>2. ~fresh'[w] /\ OthersFresh(w)
    BY <1>2 DEF Crashes, Forgets, OthersFresh, StoreOK
  <2>3. Stops(w)
    BY <1>2, <2>1, <2>2 DEF Crashes, Stops, StoreKept
  <2> QED
    BY <2>3
<1>3. CASE Restarts(w)
  <2>1. Rests(w)
    BY <1>3 DEF Restarts, HandsOK, PlaceInv, Placed, Rests, Goes, Resting, Changing, NoSnap
  <2> QED
    BY <1>3, <2>1, StopsMove DEF Restarts, StoreKept, Changing
<1>4. CASE RetryHeldDiagnostics(w)
  BY <1>4
<1>5. CASE RetriesDiagnostic(w)
  BY <1>5
<1>6. CASE Scans(w)
  BY <1>6
<1>7. CASE ScanFails(w)
  <2>1. Rests(w)
    BY <1>7, QuitsMove DEF ScanFails, Resting
  <2> QED
    BY <1>7, <2>1, StopsMove DEF ScanFails, StoreKept, Changing
<1>8. CASE PassEnds(w)
  <2>1. Rests(w)
    BY <1>8, QuitsMove DEF PassEnds, Resting
  <2> QED
    BY <1>8, <2>1, StopsMove DEF PassEnds, StoreKept, Changing
<1>9. ASSUME NEW m \in Message, Unverifiable(w, m) PROVE Moves(w)
  <2>1. Picks(w, m)
    BY <1>9 DEF Unverifiable, Turns, Takes, HandsOK, PlaceInv, Placed, Picks, Goes,
       StoreKept, Changing
  <2> QED
    BY <2>1
<1>10. ASSUME NEW m \in Message, PolicyRefuses(w, m) PROVE Moves(w)
  <2>1. Picks(w, m)
    BY <1>10 DEF PolicyRefuses, Turns, Takes, HandsOK, PlaceInv, Placed, Picks, Goes, StoreKept,
       Changing, Verifies
  <2> QED
    BY <2>1
<1>11. ASSUME NEW m \in Message, MirrorStale(w, m) PROVE Moves(w)
  <2>1. Picks(w, m)
    BY <1>11 DEF MirrorStale, Turns, Takes, HandsOK, PlaceInv, Placed, Picks, Goes, StoreKept,
       Changing, Verifies
  <2> QED
    BY <2>1
<1>12. ASSUME NEW m \in Message, SuppressionUnavailable(w, m) PROVE Moves(w)
  <2>1. Rests(w)
    BY <1>12, QuitsMove DEF SuppressionUnavailable, Resting
  <2> QED
    BY <1>12, <2>1, StopsMove DEF SuppressionUnavailable, StoreKept, Changing, Verifies
<1>13. ASSUME NEW m \in Message, Prepares(w, m) PROVE Moves(w)
  <2>1. /\ at[w] = "pass" /\ m \in page[w] /\ cur[w] = NoMessage /\ job[w] = "none"
        /\ snap[w][m] = NoId \/ snap[w][m] \in Domain
    BY <1>13 DEF Prepares, Verifies, Verified, PlaceInv, Placed, Changing
  <2>2. page'[w] = page[w] \ {m} /\ snap'[w] = [snap[w] EXCEPT ![m] = NoId]
    BY <1>13 DEF Prepares, Takes, HandsOK
  <2>3. StoreKept /\ UNCHANGED <<fresh, noted, excused>> /\ flaw'[w] = flaw[w]
    BY <1>13 DEF Prepares, StoreKept
  <2>4. ASSUME snap[w][m] # NoId
        PROVE  Goes(w, "send", "none", m, flaw[w]) /\ id'[w] = snap[w][m]
    BY <1>13, <2>1, <2>3, <2>4 DEF Prepares, HandsOK, Goes
  <2>5. ASSUME snap[w][m] = NoId
        PROVE  Goes(w, "load", "claim", m, flaw[w]) /\ id'[w] = Current[w]
    BY <1>13, <2>3, <2>5 DEF Prepares, Turns, HandsOK, Goes
  <2> QED
    BY <2>1, <2>2, <2>3, <2>4, <2>5 DEF Picks
<1>14. CASE Loads(w)
  <2>0. at[w] = "load" /\ ~fresh[w]
    BY <1>14 DEF Loads, PlaceInv, Placed
  <2>1. CASE Checked(job[w], row[cur[w]]) = "write"
    <3>1. Passes(w)
      BY <1>14, <2>0, <2>1 DEF Loads, Passes, Goes, PageKept, OthersFresh, StoreKept,
         HandsOK, StoreOK
    <3> QED
      BY <3>1
  <2>2. CASE Checked(job[w], row[cur[w]]) # "write"
    <3> DEFINE found == Checked(job[w], row[cur[w]])
    <3>1. /\ found \in {"ok", "invalid"}
          /\ job[w] \in {"claim", "delivered"} => found # "ok"
      BY <2>2 DEF Checked
    <3>2. GoesOn(w, found) /\ Excuses(w, found)
      BY <1>14, <2>0, <2>2, FollowsMove DEF Loads, Changing
    <3>3. Misses(w)
      BY <1>14, <2>0, <2>2, <3>1, <3>2 DEF Loads, Misses, Changing, OthersFresh, StoreKept
    <3> QED
      BY <3>3
  <2> QED
    BY <2>1, <2>2
<1>15. CASE LoadFails(w)
  <2>1. GoesOn(w, "error") /\ Excuses(w, "error")
    BY <1>15, FollowsMove DEF LoadFails, Changing
  <2>2. Misses(w)
    BY <1>15, <2>1 DEF LoadFails, Misses, Changing, OthersFresh, StoreKept, PlaceInv, Placed
  <2> QED
    BY <2>2
<1>16. CASE Replaces(w)
  <2>1. GoesOn(w, "ok") /\ Excuses(w, "ok")
    BY <1>16, FollowsMove DEF Replaces, Changing
  <2>2. \A v \in Worker : fresh'[v] => fresh[v] /\ v # w /\ cur[v] # cur[w]
    BY <1>16 DEF Replaces, Spoils
  <2>3. Stamps(w)
    BY <1>16, <2>1, <2>2 DEF Replaces, Stamps
  <2> QED
    BY <2>3
<1>17. CASE ReplaceLost(w)
  <2>1. GoesOn(w, "error") /\ Excuses(w, "error")
    BY <1>17, FollowsMove DEF ReplaceLost, Changing
  <2>2. \A v \in Worker : fresh'[v] => fresh[v] /\ v # w /\ cur[v] # cur[w]
    BY <1>17 DEF ReplaceLost, Spoils
  <2>3. Stamps(w)
    BY <1>17, <2>1, <2>2 DEF ReplaceLost, Stamps
  <2> QED
    BY <2>3
<1>18. CASE ReplaceConflicts(w)
  <2>1. GoesOn(w, "error") /\ Excuses(w, "error")
    BY <1>18, FollowsMove DEF ReplaceConflicts, Changing
  <2>2. Misses(w)
    BY <1>18, <2>1 DEF ReplaceConflicts, Misses, Changing, OthersFresh, StoreKept
  <2> QED
    BY <2>2
<1>19. CASE ReplaceFails(w)
  <2>1. \E outcome \in {"error", "invalid"} : GoesOn(w, outcome) /\ Excuses(w, outcome)
    BY <1>19, FollowsMove DEF ReplaceFails, Changing
  <2>2. Misses(w)
    BY <1>19, <2>1 DEF ReplaceFails, Forgets, Misses, Changing, OthersFresh, StoreKept, StoreOK
  <2> QED
    BY <2>2
<1>20. CASE Diagnoses(w)
  BY <1>20
<1>21. CASE DiagnosticFails(w)
  <2>1. Rests(w)
    BY <1>21, QuitsMove DEF DiagnosticFails, Resting
  <2> QED
    BY <1>21, <2>1, StopsMove DEF DiagnosticFails, StoreKept, Changing
<1>22. CASE SendAnswered(w)
  <2>1. Submits(w)
    BY <1>22 DEF SendAnswered, Submits, Sends, Turns, HandsOK, Goes, PageKept, PlaceInv, Placed,
       Changing
  <2> QED
    BY <2>1
<1>23. CASE SendFails(w)
  <2>1. Submits(w)
    BY <1>23 DEF SendFails, Submits, Sends, Turns, HandsOK, Goes, PageKept, PlaceInv,
       Placed, Changing
  <2> QED
    BY <2>1
<1>24. CASE SendUnauthorized(w)
  <2>1. Rests(w)
    BY <1>24, QuitsMove DEF SendUnauthorized, Resting
  <2> QED
    BY <1>24, <2>1, StopsMove DEF SendUnauthorized, StoreKept, Changing
<1> QED
  BY <1>1, <1>2, <1>3, <1>4, <1>5, <1>6, <1>7, <1>8, <1>9, <1>10, <1>11, <1>12, <1>13,
     <1>14, <1>15, <1>16, <1>17, <1>18, <1>19, <1>20, <1>21, <1>22, <1>23, <1>24
     DEF Works, Fails

\* What a change that passed its checks does to the row.
LEMMA WrittenEffect ==
    ASSUME NEW what \in Jobs \ {"none"}, NEW r \in Rows, NEW i \in Ids,
           Checked(what, r) = "write", NEW r2, r2 = Written(what, r, i)
    PROVE  /\ r2 \in Rows
           /\ r2.id = IF what = "claim" THEN i ELSE r.id
           /\ what = "claim" => r.id = NoId
           /\ r2.delivery = CASE what = "delivered" -> "delivered"
                              [] what \in Failures -> "failed"
                              [] OTHER -> r.delivery
           /\ what \in Failures \cup {"delivered"} => ~Terminal(r)
           /\ r.held => r2.held
           /\ r2.noted => r.noted \/ (what = "noted" /\ r.held)
<1>0. r2 \in Rows
  BY WrittenType
<1>1. CASE what = "claim"
  BY <1>0, <1>1 DEF Written, Checked, Rows, Failures
<1>2. CASE what = "delivered"
  BY <1>0, <1>2 DEF Written, Checked, Rows, Failures
<1>3. CASE what \in Failures
  <2>1. ~Terminal(r)
    BY <1>3 DEF Checked, Failures
  <2> QED
    BY <1>0, <1>3, <2>1 DEF Written, Rows, Failures
<1>4. CASE what \in {"retry", "claimRetry"}
  BY <1>0, <1>4 DEF Written, Rows, Failures
<1>5. CASE what = "hold"
  BY <1>0, <1>5 DEF Written, Rows, Failures
<1>6. CASE what = "noted"
  <2>1. r.held
    BY <1>6 DEF Checked, Failures, Rows
  <2> QED
    BY <1>0, <1>6, <2>1 DEF Written, Rows, Failures
<1> QED
  BY <1>1, <1>2, <1>3, <1>4, <1>5, <1>6 DEF Jobs, Failures

\* The same, of the row of the message in hand; all other rows are as before.
StampEffect(w) ==
    /\ cur[w] \in Message /\ job[w] # "none"
    /\ row'[cur[w]] \in Rows
    /\ row'[cur[w]].id = IF job[w] = "claim" THEN id[w] ELSE row[cur[w]].id
    /\ job[w] = "claim" => row[cur[w]].id = NoId
    /\ row'[cur[w]].delivery = CASE job[w] = "delivered" -> "delivered"
                                 [] job[w] \in Failures -> "failed"
                                 [] OTHER -> row[cur[w]].delivery
    /\ job[w] \in Failures \cup {"delivered"} => ~Terminal(row[cur[w]])
    /\ row[cur[w]].held => row'[cur[w]].held
    /\ row'[cur[w]].noted => \/ row[cur[w]].noted
                             \/ job[w] = "noted" /\ row[cur[w]].held
    /\ \A m \in Message \ {cur[w]} : row'[m] = row[m]

LEMMA StampsEffect ==
    ASSUME HandsOK, StoreOK, PlaceInv, FreshInv, NEW w \in Worker, Stamps(w)
    PROVE  StampEffect(w)
<1>1. /\ cur[w] \in Message /\ job[w] \in Jobs \ {"none"} /\ id[w] \in Ids
      /\ row[cur[w]] \in Rows /\ Checked(job[w], row[cur[w]]) = "write"
  BY DEF Stamps, HandsOK, StoreOK, PlaceInv, Placed, FreshInv, Changing
<1>2. /\ row'[cur[w]] = Written(job[w], row[cur[w]], id[w])
      /\ \A m \in Message \ {cur[w]} : row'[m] = row[m]
  BY <1>1 DEF Stamps, StoreOK
<1> QED
  BY <1>1, <1>2, WrittenEffect DEF StampEffect

\* The moves of one worker leave what the others have in hand.
LEMMA PlaceKept ==
    ASSUME PlaceInv, NEW w \in Worker, Placed(w)',
           \A v \in Worker \ {w} : HandsKept(v) /\ (fresh'[v] => fresh[v])
    PROVE  PlaceInv'
<1> SUFFICES ASSUME NEW v \in Worker \ {w} PROVE Placed(v)'
  BY DEF PlaceInv
<1>1. Placed(v) /\ HandsKept(v) /\ (fresh'[v] => fresh[v])
  BY DEF PlaceInv
<1> QED
  BY <1>1 DEF Placed, HandsKept

LEMMA FreshKept ==
    ASSUME FreshInv, NEW w \in Worker, row' = row, ~fresh'[w],
           \A v \in Worker \ {w} : HandsKept(v) /\ (fresh'[v] => fresh[v])
    PROVE  FreshInv'
  BY DEF FreshInv, HandsKept

\* Every move keeps the steps and the hands in line, and a compare-and-set that
\* can succeed checked, ...
LEMMA MoveOthers ==
    ASSUME StoreOK, NEW w \in Worker, Moves(w), NEW v \in Worker \ {w}
    PROVE  fresh'[v] => fresh[v]
  BY DEF Moves, Stops, RetryHeldDiagnostics, RetriesDiagnostic, Scans, Picks, Passes, Misses,
         Stamps, Diagnoses, Submits, OthersFresh, rowVars, history

LEMMA MovePlace ==
    ASSUME HandsOK, StoreOK, PlaceInv, NEW w \in Worker, Moves(w),
           \A v \in Worker \ {w} : HandsKept(v)
    PROVE  PlaceInv'
<1>0. SUFFICES Placed(w)'
  BY PlaceKept, MoveOthers
<1>p. /\ Placed(w) /\ at[w] \in Places /\ job[w] \in Jobs /\ page[w] \subseteq Message
      /\ cur[w] \in Message \cup {NoMessage}
  BY DEF PlaceInv, HandsOK
<1> USE DomainAssumption, MessageAssumption DEF Placed, Places, Jobs, Resting, Changing
<1>1. CASE Stops(w)
  BY <1>p, <1>1 DEF Stops, Rests, Goes
<1>2. CASE RetryHeldDiagnostics(w)
  BY <1>p, <1>2 DEF RetryHeldDiagnostics, HandsOK, rowVars, history
<1>3. CASE RetriesDiagnostic(w)
  BY <1>p, <1>3 DEF RetriesDiagnostic, HandsOK, rowVars, history
<1>4. CASE Scans(w)
  BY <1>p, <1>4 DEF Scans, HandsOK, rowVars, history
<1>5. ASSUME NEW m \in Message, Picks(w, m) PROVE Placed(w)'
  BY <1>p, <1>5 DEF Picks, Goes
<1>6. CASE Passes(w)
  BY <1>p, <1>6 DEF Passes, Goes, PageKept
<1>7. CASE Misses(w)
  BY <1>p, <1>7 DEF Misses, GoesOn, Rests, Goes, PageKept
<1>8. CASE Stamps(w)
  BY <1>p, <1>8 DEF Stamps, GoesOn, Rests, Goes, PageKept
<1>9. CASE Diagnoses(w)
  BY <1>p, <1>9 DEF Diagnoses, Turns, HandsOK, rowVars, history
<1>10. CASE Submits(w)
  BY <1>p, <1>10 DEF Submits, Goes, PageKept
<1> QED
  BY <1>1, <1>2, <1>3, <1>4, <1>5, <1>6, <1>7, <1>8, <1>9, <1>10 DEF Moves

LEMMA MoveFresh ==
    ASSUME HandsOK, StoreOK, PlaceInv, FreshInv, NEW w \in Worker, Moves(w),
           \A v \in Worker \ {w} : HandsKept(v)
    PROVE  FreshInv'
<1>1. \A v \in Worker \ {w} : HandsKept(v) /\ (fresh'[v] => fresh[v])
  BY MoveOthers
<1>2. ASSUME row' = row, ~fresh'[w] PROVE FreshInv'
  BY <1>1, <1>2, FreshKept
<1>3. fresh[w] => at[w] = "cas"
  BY DEF PlaceInv, Placed
<1>4. CASE Stops(w) \/ Misses(w)
  BY <1>2, <1>4 DEF Stops, Misses, StoreKept
<1>5. CASE RetryHeldDiagnostics(w) \/ RetriesDiagnostic(w) \/ Scans(w) \/ Diagnoses(w)
  BY <1>2, <1>3, <1>5 DEF RetryHeldDiagnostics, RetriesDiagnostic, Scans, Diagnoses, rowVars,
     history
<1>6. ASSUME NEW m \in Message, Picks(w, m) PROVE FreshInv'
  BY <1>2, <1>3, <1>6 DEF Picks, StoreKept
<1>7. CASE Submits(w)
  BY <1>2, <1>3, <1>7 DEF Submits
<1>8. CASE Passes(w)
  <2>1. row' = row /\ Checked(job'[w], row[cur'[w]]) = "write"
    BY <1>8 DEF Passes, Goes, StoreKept
  <2> QED
    BY <1>1, <2>1 DEF FreshInv, HandsKept
<1>9. CASE Stamps(w)
  <2>1. \A v \in Worker : fresh'[v] => fresh[v] /\ v # w /\ cur[v] # cur[w]
    BY <1>9 DEF Stamps
  <2>2. \A v \in Worker : fresh'[v] => row'[cur[v]] = row[cur[v]]
    BY <1>9, <2>1 DEF Stamps, StoreOK, HandsOK, PlaceInv, Placed, Changing
  <2> QED
    BY <1>1, <2>1, <2>2 DEF FreshInv, HandsKept
<1> QED
  BY <1>4, <1>5, <1>6, <1>7, <1>8, <1>9 DEF Moves

LEMMA NoteKept ==
    ASSUME NoteInv, NEW w \in Worker, \A v \in Worker \ {w} : HandsKept(v),
           noted \subseteq noted', job'[w] = "noted" => cur'[w] \in noted',
           \A m \in Message : row'[m].noted => m \in noted' /\ row'[m].held
    PROVE  NoteInv'
  BY DEF NoteInv, HandsKept

\* ... every claimed diagnostic written, ...
LEMMA MoveNote ==
    ASSUME HandsOK, StoreOK, PlaceInv, FreshInv, NoteInv, NEW w \in Worker, Moves(w),
           \A v \in Worker \ {w} : HandsKept(v)
    PROVE  NoteInv'
<1>1. /\ \A m \in Message : row[m].noted => m \in noted /\ row[m].held
      /\ job[w] = "noted" => cur[w] \in noted
  BY DEF NoteInv
<1>2. ASSUME row' = row, noted \subseteq noted', job'[w] = "noted" => cur'[w] \in noted'
      PROVE  NoteInv'
  BY <1>1, <1>2, NoteKept
<1>3. CASE Stops(w)
  BY <1>2, <1>3 DEF Stops, Rests, Goes, StoreKept
<1>4. CASE RetryHeldDiagnostics(w) \/ RetriesDiagnostic(w) \/ Scans(w)
  BY <1>1, <1>2, <1>4 DEF RetryHeldDiagnostics, RetriesDiagnostic, Scans, HandsOK, rowVars,
     PlaceInv, Placed, Changing
<1>5. ASSUME NEW m \in Message, Picks(w, m) PROVE NoteInv'
  BY <1>2, <1>5 DEF Picks, Goes, StoreKept
<1>6. CASE Passes(w)
  BY <1>1, <1>2, <1>6 DEF Passes, Goes, StoreKept
<1>7. CASE Misses(w)
  <2>1. job'[w] # "noted"
    BY <1>7 DEF Misses, GoesOn, Rests, Goes
  <2> QED
    BY <1>2, <1>7, <2>1 DEF Misses, StoreKept
<1>8. CASE Stamps(w)
  <2>1. StampEffect(w) /\ noted' = noted
    BY <1>8, StampsEffect DEF Stamps
  <2>2. job'[w] # "noted"
    BY <1>8 DEF Stamps, GoesOn, Rests, Goes
  <2>3. \A m \in Message : row'[m].noted => m \in noted /\ row'[m].held
    BY <1>1, <2>1 DEF StampEffect
  <2> QED
    BY <2>1, <2>2, <2>3, NoteKept
<1>9. CASE Diagnoses(w)
  BY <1>2, <1>9 DEF Diagnoses, Turns, HandsOK, rowVars
<1>10. CASE Submits(w)
  BY <1>2, <1>10 DEF Submits, Goes
<1> QED
  BY <1>3, <1>4, <1>5, <1>6, <1>7, <1>8, <1>9, <1>10 DEF Moves

\* The first part of IdInv: a worker's snapshots are never wrong, as long as no
\* row loses its id.
LEMMA SnapsKept ==
    ASSUME StoreOK, IdInv, NEW w \in Worker, \A v \in Worker \ {w} : HandsKept(v),
           \A m \in Message : row[m].id # NoId => row'[m].id = row[m].id,
           \A m \in Message : snap'[w][m] \in {snap[w][m], NoId}
    PROVE  \A v \in Worker, m \in Message : snap'[v][m] # NoId => snap'[v][m] = row'[m].id
<1> SUFFICES ASSUME NEW v \in Worker, NEW m \in Message, snap'[v][m] # NoId
             PROVE  snap'[v][m] = row'[m].id
  OBVIOUS
<1>1. snap'[v][m] = snap[v][m]
  BY DEF HandsKept
<1> QED
  BY <1>1 DEF IdInv

\* ... every id in use the row's own, ...
LEMMA MoveId ==
    ASSUME HandsOK, StoreOK, PlaceInv, FreshInv, IdInv, NEW w \in Worker, Moves(w),
           \A v \in Worker \ {w} : HandsKept(v)
    PROVE  IdInv'
<1> USE DomainAssumption, MessageAssumption
    DEF HandsOK, StoreOK, PlaceInv, Placed, IdInv, HandsKept, Resting, Changing, StoreKept,
        rowVars, history
<1>1. CASE Stops(w)
  <2>1. \A m \in Message : snap'[w][m] \in {snap[w][m], NoId}
    BY <1>1 DEF Stops, Rests, Goes, NoSnap, Resting
  <2>2. at'[w] # "send"
    BY <1>1 DEF Stops, Rests, Goes, NoSnap, Resting
  <2>3. UNCHANGED <<row, used>>
    BY <1>1 DEF Stops
  <2>4. \A v \in Worker, m \in Message : snap'[v][m] # NoId => snap'[v][m] = row'[m].id
    <3> HIDE DEF HandsOK, StoreOK, PlaceInv, IdInv, HandsKept
    <3> QED
      BY <2>1, <2>3, SnapsKept
  <2>5. \A v \in Worker : at'[v] = "send" => id'[v] = row[cur'[v]].id /\ id'[v] \in Domain
    BY <2>2
  <2> QED
    BY <2>3, <2>4, <2>5
<1>2. CASE RetryHeldDiagnostics(w)
  BY <1>2 DEF RetryHeldDiagnostics
<1>3. CASE RetriesDiagnostic(w)
  BY <1>3 DEF RetriesDiagnostic
<1>4. CASE Scans(w)
  BY <1>4 DEF Scans
<1>5. ASSUME NEW m \in Message, Picks(w, m) PROVE IdInv'
  <2>1. \A n \in Message : snap'[w][n] \in {snap[w][n], NoId}
    BY <1>5 DEF Picks
  <2>2. at'[w] = "send" => id'[w] = row[cur'[w]].id /\ id'[w] \in Domain
    BY <1>5 DEF Picks, Goes
  <2>3. UNCHANGED <<row, used>>
    BY <1>5 DEF Picks
  <2>4. \A v \in Worker, n \in Message : snap'[v][n] # NoId => snap'[v][n] = row'[n].id
    <3> HIDE DEF HandsOK, StoreOK, PlaceInv, IdInv, HandsKept
    <3> QED
      BY <2>1, <2>3, SnapsKept
  <2>5. \A v \in Worker : at'[v] = "send" => id'[v] = row[cur'[v]].id /\ id'[v] \in Domain
    BY <2>2
  <2> QED
    BY <2>3, <2>4, <2>5
<1>6. CASE Passes(w)
  <2>1. \A m \in Message : snap'[w][m] \in {snap[w][m], NoId}
    BY <1>6 DEF Passes, Goes, PageKept
  <2>2. at'[w] # "send"
    BY <1>6 DEF Passes, Goes, PageKept
  <2>3. UNCHANGED <<row, used>>
    BY <1>6 DEF Passes
  <2>4. \A v \in Worker, m \in Message : snap'[v][m] # NoId => snap'[v][m] = row'[m].id
    <3> HIDE DEF HandsOK, StoreOK, PlaceInv, IdInv, HandsKept
    <3> QED
      BY <2>1, <2>3, SnapsKept
  <2>5. \A v \in Worker : at'[v] = "send" => id'[v] = row[cur'[v]].id /\ id'[v] \in Domain
    BY <2>2
  <2> QED
    BY <2>3, <2>4, <2>5
<1>7. CASE Misses(w)
  <2>1. \A m \in Message : snap'[w][m] \in {snap[w][m], NoId}
    BY <1>7 DEF Misses, GoesOn, Excuses, Rests, Goes, PageKept, NoSnap, Resting
  <2>2. at'[w] # "send"
    BY <1>7 DEF Misses, GoesOn, Excuses, Rests, Goes, PageKept, NoSnap, Resting
  <2>3. UNCHANGED <<row, used>>
    BY <1>7 DEF Misses
  <2>4. \A v \in Worker, m \in Message : snap'[v][m] # NoId => snap'[v][m] = row'[m].id
    <3> HIDE DEF HandsOK, StoreOK, PlaceInv, IdInv, HandsKept
    <3> QED
      BY <2>1, <2>3, SnapsKept
  <2>5. \A v \in Worker : at'[v] = "send" => id'[v] = row[cur'[v]].id /\ id'[v] \in Domain
    BY <2>2
  <2> QED
    BY <2>3, <2>4, <2>5
<1>8. CASE Stamps(w)
  <2>1. StampEffect(w) /\ used' = used
    BY <1>8, StampsEffect DEF Stamps
  <2>2. \A m \in Message : row[m].id # NoId => row'[m].id = row[m].id
    <3> HIDE DEF HandsOK, StoreOK, PlaceInv, IdInv
    <3> QED
      BY <2>1 DEF StampEffect
  <2>3. \A m \in Message : snap'[w][m] \in {snap[w][m], NoId}
    BY <1>8 DEF Stamps, GoesOn, Rests, PageKept, NoSnap
  <2>4. at'[w] = "send" => id'[w] = row'[cur'[w]].id /\ id'[w] \in Domain
    BY <1>8, <2>1 DEF Stamps, GoesOn, Rests, Goes, StampEffect
  <2>5. \A m \in Message : used[m] \subseteq {row'[m].id} \cap Domain
    BY <2>2
  <2>6. \A v \in Worker \ {w} :
          at'[v] = "send" => id'[v] = row'[cur'[v]].id /\ id'[v] \in Domain
    <3>1. \A v \in Worker : at[v] = "send" => cur[v] \in Message /\ id[v] # NoId
      OBVIOUS
    <3> HIDE DEF HandsOK, StoreOK, PlaceInv
    <3> QED
      BY <2>2, <3>1
  <2>7. \A v \in Worker, m \in Message : snap'[v][m] # NoId => snap'[v][m] = row'[m].id
    <3> HIDE DEF HandsOK, StoreOK, PlaceInv, IdInv, HandsKept
    <3> QED
      BY <2>2, <2>3, SnapsKept
  <2> QED
    BY <2>1, <2>4, <2>5, <2>6, <2>7
<1>9. CASE Diagnoses(w)
  BY <1>9 DEF Diagnoses, Turns
<1>10. CASE Submits(w)
  <2>1. \A m \in Message : snap'[w][m] \in {snap[w][m], NoId}
    BY <1>10 DEF Submits, PageKept
  <2>2. at'[w] # "send"
    BY <1>10 DEF Submits, Goes
  <2>3. \A m \in Message : used'[m] \subseteq {row[m].id} \cap Domain
    BY <1>10 DEF Submits
  <2>4. row' = row
    BY <1>10 DEF Submits
  <2>5. \A v \in Worker, m \in Message : snap'[v][m] # NoId => snap'[v][m] = row'[m].id
    <3> HIDE DEF HandsOK, StoreOK, PlaceInv, IdInv, HandsKept
    <3> QED
      BY <2>1, <2>4, SnapsKept
  <2> QED
    BY <2>2, <2>3, <2>4, <2>5
<1> QED
  BY <1>1, <1>2, <1>3, <1>4, <1>5, <1>6, <1>7, <1>8, <1>9, <1>10 DEF Moves

-----------------------------------------------------------------------------
(* Which messages are in whose pass.                                       *)

\* A worker that sends or stamps has its message in its pass.
LEMMA BusyActive ==
    ASSUME PlaceInv, NEW w \in Worker,
           at[w] = "send" \/ (at[w] \in Changing /\ job[w] # "noted")
    PROVE  Active(w, cur[w])
  BY DEF PlaceInv, Placed, Active, Holding, OnHolds, Changing

\* Only a scan brings a message into a pass.
LEMMA ActiveMine ==
    ASSUME HandsOK, PlaceInv, NEW w \in Worker, Moves(w), ~Scans(w),
           NEW m \in Message, Active(w, m)'
    PROVE  Active(w, m)
<1> USE MessageAssumption DEF HandsOK, PlaceInv, Placed, Active, Holding, OnHolds,
        Changing, Resting
<1>1. CASE Stops(w)
  BY <1>1 DEF Stops, Rests, Goes
<1>2. CASE RetryHeldDiagnostics(w) \/ RetriesDiagnostic(w)
  BY <1>2 DEF RetryHeldDiagnostics, RetriesDiagnostic
<1>3. ASSUME NEW n \in Message, Picks(w, n) PROVE Active(w, m)
  BY <1>3 DEF Picks, Goes
<1>4. CASE Passes(w)
  BY <1>4 DEF Passes, Goes, PageKept
<1>5. CASE Misses(w) \/ Stamps(w)
  BY <1>5 DEF Misses, Stamps, GoesOn, Rests, Goes, PageKept
<1>6. CASE Diagnoses(w)
  BY <1>6 DEF Diagnoses, Turns
<1>7. CASE Submits(w)
  BY <1>7 DEF Submits, Goes, PageKept
<1> QED
  BY <1>1, <1>2, <1>3, <1>4, <1>5, <1>6, <1>7 DEF Moves

LEMMA ActiveOthers ==
    ASSUME NEW v \in Worker, NEW m \in Message, HandsKept(v)
    PROVE  Active(v, m)' <=> Active(v, m)
  BY DEF HandsKept, Active, Holding, OnHolds

\* What any move leaves true.
LEMMA MoveHistory ==
    ASSUME StoreOK, NEW w \in Worker, Moves(w)
    PROVE  /\ excused \subseteq excused'
           /\ Stamps(w) \/ row' = row
           /\ Submits(w) \/ taken' = taken
  BY DEF Moves, Stops, RetryHeldDiagnostics, RetriesDiagnostic, Scans, Picks, Passes, Misses,
         Stamps, Diagnoses, Submits, StoreKept, Excuses, rowVars, history

\* A stamp in hand is kept, written, or excused.
LEMMA StampInHand ==
    ASSUME HandsOK, StoreOK, PlaceInv, FreshInv, NEW w \in Worker, Moves(w),
           job[w] = "delivered"
    PROVE  \/ job'[w] = "delivered" /\ cur'[w] = cur[w]
           \/ row'[cur[w]].delivery = "delivered"
           \/ cur[w] \in excused'
<1>0. at[w] \in Changing
  BY DEF PlaceInv, Placed
<1>1. CASE Stops(w)
  BY <1>1 DEF Stops
<1>2. CASE Passes(w)
  BY <1>2 DEF Passes, Goes
<1>3. CASE Misses(w)
  BY <1>3 DEF Misses, Excuses
<1>4. CASE Stamps(w)
  <2>1. row'[cur[w]].delivery = "delivered"
    BY <1>4, StampsEffect DEF StampEffect, Failures
  <2> QED
    BY <2>1
<1> QED
  BY <1>0, <1>1, <1>2, <1>3, <1>4
  DEF Moves, RetryHeldDiagnostics, RetriesDiagnostic, Scans, Picks, Diagnoses, Submits, Changing

\* Nothing that is not excused is sent twice, or after its outcome is recorded.
LEMMA SubmitsOnce ==
    ASSUME HandsOK, StoreOK, PlaceInv, PassInv, NEW w \in Worker, at[w] = "send",
           cur[w] \notin excused
    PROVE  /\ cur[w] \in Message /\ taken[cur[w]] = 0 /\ ~Terminal(row[cur[w]])
<1>1. cur[w] \in Message /\ job[w] = "none" /\ Active(w, cur[w])
  BY BusyActive DEF HandsOK, PlaceInv, Placed, Changing
<1>2. ~Terminal(row[cur[w]])
  BY <1>1 DEF PassInv
<1>3. row[cur[w]].delivery # "delivered"
  BY <1>2 DEF Terminal
<1>4. ASSUME NEW v \in Worker, cur[v] = cur[w], job[v] = "delivered" PROVE FALSE
  <2>1. Active(v, cur[w])
    BY <1>4, BusyActive DEF PlaceInv, Placed
  <2> QED
    BY <1>1, <1>4, <2>1 DEF PassInv
<1>5. ~(taken[cur[w]] > 0)
  BY <1>1, <1>3, <1>4 DEF PassInv
<1> QED
  BY <1>1, <1>2, <1>5 DEF StoreOK

\* ... every message that is not excused in one pass, ...
LEMMA MovePass ==
    ASSUME HandsOK, StoreOK, PlaceInv, FreshInv, PassInv, NEW w \in Worker, Moves(w),
           \A v \in Worker \ {w} : HandsKept(v)
    PROVE  PassInv'
<1> SUFFICES ASSUME NEW m \in Message, m \notin excused'
             PROVE  /\ \A u, v \in Worker : Active(u, m)' /\ Active(v, m)' => u = v
                    /\ Terminal(row'[m]) => \A v \in Worker : ~Active(v, m)'
                    /\ taken'[m] > 0 => \/ row'[m].delivery = "delivered"
                                        \/ \E v \in Worker : cur'[v] = m /\ job'[v] = "delivered"
                    /\ taken'[m] <= 1
  BY DEF PassInv
<1>0. m \notin excused
  BY MoveHistory
<1>o. \A v \in Worker \ {w} : Active(v, m)' <=> Active(v, m)
  BY ActiveOthers
<1>s. ASSUME Scans(w), Active(w, m)'
      PROVE  ~Terminal(row'[m]) /\ \A v \in Worker \ {w} : ~Active(v, m)
  <2> DEFINE found == {n \in Message : Pending(row[n])}
  <2>1. /\ page'[w] = found /\ cur'[w] = NoMessage /\ row' = row
        /\ \A n \in found : (\E v \in Worker \ {w} : Holding(v, n)) => n \in excused'
    BY <1>s DEF Scans, HandsOK, PlaceInv, Placed, rowVars, Changing
  <2>2. m \in found
    BY <1>s, <2>1, MessageAssumption DEF Active, Holding
  <2> QED
    BY <2>1, <2>2 DEF Pending, Active
<1>1. \A u, v \in Worker : Active(u, m)' /\ Active(v, m)' => u = v
  <2>1. CASE Scans(w)
    BY <1>0, <1>o, <1>s, <2>1 DEF PassInv
  <2>2. CASE ~Scans(w)
    <3>1. \A v \in Worker : Active(v, m)' => Active(v, m)
      BY <1>o, <2>2, ActiveMine
    <3> QED
      BY <1>0, <3>1 DEF PassInv
  <2> QED
    BY <2>1, <2>2
<1>2. ASSUME Terminal(row'[m]), NEW v \in Worker, Active(v, m)' PROVE FALSE
  <2>1. CASE Scans(w)
    <3>1. row' = row
      BY <2>1 DEF Scans, rowVars
    <3> QED
      BY <1>0, <1>2, <1>o, <1>s, <2>1, <3>1 DEF PassInv
  <2>2. CASE ~Scans(w) /\ row'[m] = row[m]
    <3>1. Active(v, m)
      BY <1>2, <1>o, <2>2, ActiveMine
    <3> QED
      BY <1>0, <1>2, <2>2, <3>1 DEF PassInv
  <2>3. CASE ~Scans(w) /\ Stamps(w) /\ row'[m] # row[m]
    <3>1. Active(v, m)
      BY <1>2, <1>o, <2>3, ActiveMine
    <3>2. ~Terminal(row[m])
      BY <1>0, <3>1 DEF PassInv
    <3>3. StampEffect(w) /\ cur[w] = m
      BY <2>3, StampsEffect DEF StampEffect
    <3>4. job[w] \in Failures \cup {"delivered"}
      BY <1>2, <3>2, <3>3 DEF StampEffect, Terminal
    <3>5. Active(w, m)
      BY <2>3, <3>3, <3>4, BusyActive DEF Stamps, Changing, Failures
    <3>6. v = w
      BY <1>0, <3>1, <3>5 DEF PassInv
    <3>7. m \notin page[w]
      BY <3>3 DEF PlaceInv, Placed
    <3>8. ~Active(w, m)'
      BY <2>3, <3>4, <3>7, MessageAssumption
         DEF Stamps, GoesOn, Rests, Goes, PageKept, Failures, Active, Holding
    <3> QED
      BY <1>2, <3>6, <3>8
  <2> QED
    BY <2>1, <2>2, <2>3, MoveHistory
<1>3. ASSUME taken'[m] > 0
      PROVE  \/ row'[m].delivery = "delivered"
             \/ \E v \in Worker : cur'[v] = m /\ job'[v] = "delivered"
  <2>1. CASE Submits(w) /\ cur[w] = m
    <3>1. taken[m] = 0
      BY <1>0, <2>1, SubmitsOnce DEF Submits
    <3>2. taken' # taken
      BY <1>3, <3>1
    <3> QED
      BY <2>1, <3>2 DEF Submits, Goes
  <2>2. CASE taken'[m] = taken[m]
    <3>1. CASE row[m].delivery = "delivered"
      BY <3>1, MoveHistory, StampsEffect DEF StampEffect, Terminal
    <3>2. ASSUME NEW v \in Worker, cur[v] = m, job[v] = "delivered"
          PROVE  \/ row'[m].delivery = "delivered"
                 \/ \E u \in Worker : cur'[u] = m /\ job'[u] = "delivered"
      <4>1. CASE v = w
        BY <3>2, <4>1, StampInHand
      <4>2. CASE v # w
        BY <3>2, <4>2 DEF HandsKept
      <4> QED
        BY <4>1, <4>2
    <3> QED
      BY <1>0, <1>3, <2>2, <3>1, <3>2 DEF PassInv
  <2>3. taken'[m] = taken[m] \/ (Submits(w) /\ cur[w] = m)
    BY MoveHistory DEF Submits, Accepted, StoreOK
  <2> QED
    BY <2>1, <2>2, <2>3
<1>4. taken'[m] <= 1
  <2>1. CASE taken'[m] = taken[m]
    BY <1>0, <2>1 DEF PassInv
  <2>2. CASE Submits(w) /\ cur[w] = m
    <3>1. taken[m] = 0
      BY <1>0, <2>2, SubmitsOnce DEF Submits
    <3> QED
      BY <2>2, <3>1 DEF Submits, Accepted, StoreOK
  <2> QED
    BY <2>1, <2>2, MoveHistory DEF Submits, Accepted, StoreOK
<1> QED
  BY <1>1, <1>2, <1>3, <1>4

\* ... and every record true.
LEMMA MoveStamp ==
    ASSUME HandsOK, StoreOK, PlaceInv, FreshInv, PassInv, StampInv, NEW w \in Worker, Moves(w),
           \A v \in Worker \ {w} : HandsKept(v)
    PROVE  StampInv'
<1>0. \A m \in Message : taken[m] > 0 => taken'[m] > 0
  BY MoveHistory DEF Submits, Accepted, StoreOK
<1>1. ASSUME NEW v \in Worker, job'[v] = "delivered" PROVE taken'[cur'[v]] > 0
  <2>1. CASE v # w
    <3>1. job[v] = "delivered" /\ cur'[v] = cur[v] /\ cur[v] \in Message
      BY <1>1, <2>1 DEF HandsKept, HandsOK, PlaceInv, Placed
    <3> QED
      BY <1>0, <3>1 DEF StampInv
  <2>2. CASE v = w /\ Passes(w)
    <3>1. job[w] = "delivered" /\ cur'[w] = cur[w] /\ cur[w] \in Message
      BY <1>1, <2>2 DEF Passes, Goes, HandsOK, PlaceInv, Placed, Changing
    <3> QED
      BY <1>0, <2>2, <3>1 DEF StampInv
  <2>3. CASE v = w /\ Submits(w)
    <3>1. cur'[w] = cur[w] /\ cur[w] \in Message /\ Accepted(cur[w])
      BY <1>1, <2>3 DEF Submits, Goes, HandsOK, PlaceInv, Placed, Changing
    <3> QED
      BY <2>3, <3>1 DEF Accepted, StoreOK
  <2>4. Passes(w) \/ Submits(w) \/ job'[w] # "delivered"
    BY DEF Moves, Stops, RetryHeldDiagnostics, RetriesDiagnostic, Scans, Picks, Misses, Stamps,
           Diagnoses, Turns, GoesOn, Rests, Goes, PlaceInv, Placed, HandsOK, Changing
  <2> QED
    BY <1>1, <2>1, <2>2, <2>3, <2>4
<1>2. ASSUME NEW m \in Message, row'[m].delivery = "delivered" PROVE taken'[m] > 0
  <2>1. CASE row[m].delivery = "delivered"
    BY <1>0, <2>1 DEF StampInv
  <2>2. CASE row[m].delivery # "delivered"
    <3>1. Stamps(w) /\ StampEffect(w)
      BY <1>2, <2>2, MoveHistory, StampsEffect
    <3>2. cur[w] = m /\ job[w] = "delivered"
      BY <1>2, <2>2, <3>1 DEF StampEffect
    <3> QED
      BY <1>0, <3>2 DEF StampInv
  <2> QED
    BY <2>1, <2>2
<1>3. ASSUME NEW m \in Message, row'[m].delivery = "failed", taken'[m] > 0, m \notin excused'
      PROVE  FALSE
  <2>0. m \notin excused
    BY <1>3, MoveHistory
  <2>1. CASE Submits(w) /\ taken'[m] # taken[m]
    <3>1. cur[w] = m /\ row'[m] = row[m]
      BY <2>1 DEF Submits, Accepted, StoreOK
    <3>2. ~Terminal(row[m])
      BY <2>0, <2>1, <3>1, SubmitsOnce DEF Submits
    <3> QED
      BY <1>3, <3>1, <3>2 DEF Terminal
  <2>2. CASE taken'[m] = taken[m] /\ row'[m] = row[m]
    BY <1>3, <2>0, <2>2 DEF StampInv
  <2>3. CASE taken'[m] = taken[m] /\ Stamps(w) /\ row'[m] # row[m]
    <3>1. StampEffect(w) /\ cur[w] = m
      BY <2>3, StampsEffect DEF StampEffect
    <3>2. row[m].delivery # "failed"
      BY <1>3, <2>0, <2>3 DEF StampInv
    <3>3. job[w] \in Failures /\ ~Terminal(row[m])
      BY <1>3, <3>1, <3>2 DEF StampEffect
    <3>4. PICK v \in Worker : cur[v] = m /\ job[v] = "delivered"
      BY <1>3, <2>0, <2>3, <3>3 DEF PassInv, Terminal
    <3>5. Active(v, m) /\ Active(w, m)
      BY <2>3, <3>1, <3>3, <3>4, BusyActive DEF PlaceInv, Placed, Stamps, Changing, Failures
    <3> QED
      BY <2>0, <3>3, <3>4, <3>5 DEF PassInv, Failures
  <2> QED
    BY <2>1, <2>2, <2>3, MoveHistory
<1> QED
  BY <1>1, <1>2, <1>3 DEF StampInv

-----------------------------------------------------------------------------
(* The theorems.                                                           *)

\* The invariant, with TypeOK split in two.
IInv == HandsOK /\ StoreOK /\ PlaceInv /\ FreshInv /\ IdInv /\ PassInv /\ StampInv /\ NoteInv

LEMMA InitIInv == Init => IInv
<1> SUFFICES ASSUME Init PROVE IInv
  OBVIOUS
<1>1. \A m \in Message :
        /\ row[m] \in Rows /\ row[m].delivery = "pending" /\ row[m].noted = FALSE
        /\ row[m].held = FALSE /\ row[m].id \in {NoId, Alien}
  <2> SUFFICES ASSUME NEW m \in Message
               PROVE  /\ row[m] \in Rows /\ row[m].delivery = "pending"
                      /\ row[m].noted = FALSE /\ row[m].held = FALSE
                      /\ row[m].id \in {NoId, Alien}
    OBVIOUS
  <2>1. PICK i \in {NoId, Alien} :
          row[m] = [id |-> i, delivery |-> "pending", due |-> TRUE, held |-> FALSE,
                    noted |-> FALSE]
    BY DEF Init
  <2> QED
    BY <2>1 DEF Rows, Ids
<1>2. row \in [Message -> Rows]
  BY <1>1 DEF Init
<1>3. NoSnap \in [Message -> Ids]
  BY DEF NoSnap, Ids
<1>4. HandsOK
  BY <1>3 DEF Init, HandsOK, Places, Jobs, Ids
<1>5. StoreOK
  BY <1>2, MessageAssumption DEF Init, StoreOK, Ids
<1>6. PlaceInv
  BY DEF Init, PlaceInv, Placed, Changing, Resting
<1>7. FreshInv
  BY DEF Init, FreshInv
<1>8. IdInv
  BY <1>1 DEF Init, IdInv, NoSnap
<1>9. PassInv
  BY <1>1, MessageAssumption DEF Init, PassInv, Active, Holding, Terminal
<1>10. StampInv /\ NoteInv
  BY <1>1 DEF Init, StampInv, NoteInv
<1> QED
  BY <1>4, <1>5, <1>6, <1>7, <1>8, <1>9, <1>10 DEF IInv

LEMMA WorkerIInv ==
    ASSUME IInv, NEW w \in Worker,
           Boots(w) \/ Crashes(w) \/ Restarts(w) \/ Works(w) \/ Fails(w)
    PROVE  IInv'
<1>1. HandsOK' /\ StoreOK'
  BY WorkerType DEF IInv
<1>2. Moves(w) /\ \A v \in Worker \ {w} : HandsKept(v)
  BY WorkerMoves, OthersKept DEF IInv
<1> QED
  BY <1>1, <1>2, MovePlace, MoveFresh, MoveId, MovePass, MoveStamp, MoveNote DEF IInv

\* next_attempt_at does not matter to any check.
LEMMA DueIInv ==
    ASSUME IInv, NEW m \in Message, ComesDue(m)
    PROVE  IInv'
<1>0. /\ UNCHANGED <<recipient, noted, workVars, history, crashes>>
      /\ row \in [Message -> Rows]
      /\ row' = [row EXCEPT ![m] = [row[m] EXCEPT !.due = TRUE]]
  BY DEF ComesDue, IInv, StoreOK
<1>1. \A n \in Message :
        /\ row'[n] \in Rows /\ row[n] \in Rows
        /\ row'[n].id = row[n].id /\ row'[n].delivery = row[n].delivery
        /\ row'[n].held = row[n].held /\ row'[n].noted = row[n].noted
  BY <1>0 DEF Rows
<1>2. StoreOK'
  BY <1>0, <1>1 DEF IInv, StoreOK, history, workVars
<1>3. HandsOK' /\ PlaceInv'
  BY <1>0 DEF IInv, HandsOK, PlaceInv, Placed, workVars
<1>4. FreshInv'
  <2> SUFFICES ASSUME NEW w \in Worker, fresh[w]
               PROVE  Checked(job[w], row'[cur[w]]) = "write"
    BY <1>0 DEF FreshInv, workVars
  <2>1. cur[w] \in Message /\ Checked(job[w], row[cur[w]]) = "write"
    BY DEF IInv, HandsOK, PlaceInv, Placed, FreshInv, Changing
  <2> QED
    BY <1>1, <2>1 DEF Checked, Terminal
<1>5. IdInv'
  <2>1. \A w \in Worker : at[w] = "send" => cur[w] \in Message
    BY DEF IInv, HandsOK, PlaceInv, Placed, Changing
  <2> QED
    BY <1>0, <1>1, <2>1 DEF IInv, IdInv, workVars, history
<1>6. PassInv'
  BY <1>0, <1>1 DEF IInv, PassInv, Active, Holding, OnHolds, Terminal, workVars, history
<1>7. StampInv' /\ NoteInv'
  BY <1>0, <1>1 DEF IInv, StampInv, NoteInv, workVars, history
<1> QED
  BY <1>2, <1>3, <1>4, <1>5, <1>6, <1>7 DEF IInv

LEMMA NextIInv == IInv /\ [Next]_vars => IInv'
<1> SUFFICES ASSUME IInv, [Next]_vars PROVE IInv'
  OBVIOUS
<1>1. CASE UNCHANGED vars
  BY <1>1 DEF IInv, HandsOK, StoreOK, PlaceInv, Placed, FreshInv, IdInv, PassInv,
     StampInv, NoteInv,
              Active, Holding, OnHolds, vars, rowVars, workVars, history
<1> QED
  BY <1>1, WorkerIInv, DueIInv DEF Next, Undisturbed

\* Type correctness, for every set of messages, daemons and domains.
THEOREM TypeCorrect == Spec => []TypeOK
<1>1. IInv => TypeOK
  BY TypeSplit DEF IInv
<1> QED
  BY <1>1, InitIInv, NextIInv, PTL DEF Spec

\* However many daemons overlap, crash and lose answers: a message goes out
\* under the id its row holds and no other, twice only with an excuse, and its
\* recorded outcome is what happened (outbox_once, prepare_email,
\* claim_outbound_message_external_id, mark_outbound_message_delivered).
THEOREM SendsAreAccounted == Spec => []SendsAccounted
<1>1. IInv => SendsAccounted
  BY DEF IInv, StoreOK, IdInv, PassInv, StampInv, NoteInv, SendsAccounted
<1> QED
  BY <1>1, InitIInv, NextIInv, PTL DEF Spec

\* A recorded outcome, a claimed id and a hold are never taken back: what a
\* late worker writes passed its checks on the very row it replaces
\* (outbound_delivery_is_terminal, replace_note_if_unchanged).
THEOREM RowsAreFinal == Spec => RowIsFinal
<1> DEFINE A == \A m \in Message :
         /\ Terminal(row[m]) => row'[m].delivery = row[m].delivery
         /\ row[m].id # NoId => row'[m].id = row[m].id
         /\ row[m].held => row'[m].held
<1>1. IInv /\ [Next]_vars => [A]_vars
  <2> SUFFICES ASSUME IInv, Next PROVE A
    OBVIOUS
  <2>1. ASSUME NEW w \in Worker,
               Boots(w) \/ Crashes(w) \/ Restarts(w) \/ Works(w) \/ Fails(w)
        PROVE  A
    <3>1. Stamps(w) \/ row' = row
      BY <2>1, WorkerMoves, MoveHistory DEF IInv
    <3>2. CASE Stamps(w)
      <4>1. StampEffect(w)
        BY <3>2, StampsEffect DEF IInv
      <4> QED
        BY <4>1 DEF StampEffect
    <3> QED
      BY <3>1, <3>2
  <2>2. ASSUME NEW n \in Message, ComesDue(n) PROVE A
    <3>1. /\ row \in [Message -> Rows]
          /\ row' = [row EXCEPT ![n] = [row[n] EXCEPT !.due = TRUE]]
      BY <2>2 DEF ComesDue, IInv, StoreOK
    <3> QED
      BY <3>1 DEF Rows
  <2> QED
    BY <2>1, <2>2 DEF Next, Undisturbed
<1> QED
  BY <1>1, InitIInv, NextIInv, PTL DEF Spec, RowIsFinal
=============================================================================
