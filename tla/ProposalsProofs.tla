-------------------------- MODULE ProposalsProofs ---------------------------
(***************************************************************************)
(* For any proposals, requests and actors, whatever requests race, are     *)
(* given up or lose an acknowledgement: the graph takes a changeset at     *)
(* most once and as it was approved (GraphFollowsVerdict), and the claim   *)
(* of the apply worker excludes and is accounted for (ClaimIsAccounted).   *)
(***************************************************************************)
EXTENDS Proposals, TLAPS, SequenceTheorems, FiniteSetTheorems

-----------------------------------------------------------------------------
(* Types.                                                                  *)

\* A review from the recorded approval on: the apply worker.
Working == {"check", "claim"} \cup Applying
Whats == Decisions \cup {"created", "withdrawn", "success", "failed"}

Rows == [status : Statuses, approvals : Nat, rejections : Nat, archived : BOOLEAN]
Events == [what : Whats, by : Actor \cup {System}]
Resting == [at : {"idle", "ended"}]
Withdrawing == [at : {"withdraw"}, p : Proposal, actor : Actor]
Reviewing == [at : {"record"} \cup Working, p : Proposal, actor : Actor,
              decision : Decisions]

\* TypeOK says little of the requests' fields and of the events; what a request
\* carries is fixed by where it is.
TypeInv ==
    /\ kind \in [Proposal -> {"canonical", "atomic", "merge"}]
    /\ proposer \in [Proposal -> Actor]
    /\ proposing \in [Proposal -> {"new", "logged", "ended"}]
    /\ row \in [Proposal -> Rows]
    /\ log \in [Proposal -> Seq(Events)]
    /\ graph \in [Proposal -> Nat]
    /\ req \in [Request -> Resting \cup Withdrawing \cup Reviewing]
    /\ troubled \subseteq Proposal

LEMMA InitType == Init => TypeInv
<1> SUFFICES ASSUME Init PROVE TypeInv
  OBVIOUS
<1>1. NoRow \in Rows
  <2>1. FALSE \in BOOLEAN
    OBVIOUS
  <2> QED
    BY <2>1 DEF NoRow, Rows, Statuses
<1>2. row \in [Proposal -> Rows]
  BY <1>1 DEF Init
<1>3. log \in [Proposal -> Seq(Events)]
  BY EmptySeq DEF Init
<1>4. req \in [Request -> Resting \cup Withdrawing \cup Reviewing]
  BY DEF Init, Resting
<1> QED
  BY <1>2, <1>3, <1>4 DEF Init, TypeInv

\* The record of a request that has recorded a review, or is about to.
LEMMA ReviewRecord ==
    ASSUME TypeInv, NEW r \in Request
    PROVE  /\ req[r].at \in {"record"} \cup Working => req[r] \in Reviewing
           /\ req[r].at = "withdraw" => req[r] \in Withdrawing
  BY DEF TypeInv, Resting, Withdrawing, Reviewing, Working, Applying

LEMMA EmitType ==
    ASSUME TypeInv, NEW p \in Proposal, NEW e \in Events, Emit(p, e)
    PROVE  log' \in [Proposal -> Seq(Events)]
<1>1. Append(log[p], e) \in Seq(Events)
  BY AppendProperties DEF TypeInv
<1> QED
  BY <1>1 DEF Emit, TypeInv

LEMMA EventTypes ==
    ASSUME NEW by \in Actor \cup {System}, NEW what \in Whats
    PROVE  Event(what, by) \in Events /\ Event(what, by).what = what
           /\ Event(what, by).by = by
  BY DEF Event, Events

LEMMA GoesType ==
    ASSUME TypeInv, NEW r \in Request, NEW step \in Working,
           req[r].at \in {"record"} \cup Working, Goes(r, step)
    PROVE  /\ req' \in [Request -> Resting \cup Withdrawing \cup Reviewing]
           /\ req'[r] \in Reviewing /\ req'[r].at = step /\ req'[r].p = req[r].p
           /\ \A s \in Request \ {r} : req'[s] = req[s]
<1>1. req[r] \in Reviewing
  BY ReviewRecord
<1>2. /\ [req[r] EXCEPT !.at = step] \in Reviewing
      /\ [req[r] EXCEPT !.at = step].at = step
      /\ [req[r] EXCEPT !.at = step].p = req[r].p
  BY <1>1 DEF Reviewing
<1>3. req' = [req EXCEPT ![r] = [req[r] EXCEPT !.at = step]]
  BY DEF Goes
<1> HIDE DEF Goes
<1> QED
  BY <1>2, <1>3 DEF TypeInv

LEMMA EndsType ==
    ASSUME TypeInv, NEW r \in Request, Ends(r)
    PROVE  /\ req' \in [Request -> Resting \cup Withdrawing \cup Reviewing]
           /\ req'[r].at = "ended"
           /\ \A s \in Request \ {r} : req'[s] = req[s]
<1>1. Ended \in Resting /\ Ended.at = "ended"
  BY DEF Ended, Resting
<1> QED
  BY <1>1 DEF Ends, TypeInv

LEMMA StatusSet ==
    ASSUME NEW old \in Rows, NEW s \in Statuses
    PROVE  [old EXCEPT !.status = s] \in Rows /\ [old EXCEPT !.status = s].status = s
  BY DEF Rows

LEMMA CountSet ==
    ASSUME NEW old \in Rows
    PROVE  /\ [old EXCEPT !.approvals = @ + 1] \in Rows
           /\ [old EXCEPT !.approvals = @ + 1].status = old.status
           /\ [old EXCEPT !.rejections = @ + 1] \in Rows
           /\ [old EXCEPT !.rejections = @ + 1].status = old.status
  BY DEF Rows

\* What the row becomes when a review is recorded.
DecidedStatus(old, d) ==
    CASE d = "approve" -> "approved"
      [] d = "reject" -> "rejected"
      [] d = "request_changes" -> "changes_requested"
      [] d = "comment" -> old

LEMMA ReviewType ==
    ASSUME NEW old \in Rows, NEW d \in Decisions
    PROVE  /\ ReviewDecisionEffect(old, d) \in Rows
           /\ ReviewDecisionEffect(old, d).status = DecidedStatus(old.status, d)
<1>1. CASE d = "approve"
  <2> DEFINE mid == [old EXCEPT !.status = "approved"]
  <2>1. ReviewDecisionEffect(old, d) = [mid EXCEPT !.approvals = @ + 1]
    BY <1>1 DEF ReviewDecisionEffect
  <2>2. mid \in Rows /\ mid.status = "approved"
    BY StatusSet DEF Statuses
  <2> HIDE DEF mid
  <2> QED
    BY <1>1, <2>1, <2>2, CountSet DEF DecidedStatus
<1>2. CASE d = "reject"
  <2> DEFINE mid == [old EXCEPT !.status = "rejected"]
  <2>1. ReviewDecisionEffect(old, d) = [mid EXCEPT !.rejections = @ + 1]
    BY <1>2 DEF ReviewDecisionEffect
  <2>2. mid \in Rows /\ mid.status = "rejected"
    BY StatusSet DEF Statuses
  <2> HIDE DEF mid
  <2> QED
    BY <1>2, <2>1, <2>2, CountSet DEF DecidedStatus
<1>3. CASE d = "request_changes"
  <2>1. ReviewDecisionEffect(old, d) = [old EXCEPT !.status = "changes_requested"]
    BY <1>3 DEF ReviewDecisionEffect
  <2>2. "changes_requested" \in Statuses
    BY DEF Statuses
  <2> QED
    BY <1>3, <2>1, <2>2, StatusSet DEF DecidedStatus
<1>4. CASE d = "comment"
  BY <1>4 DEF ReviewDecisionEffect, DecidedStatus
<1> QED
  BY <1>1, <1>2, <1>3, <1>4 DEF Decisions

-----------------------------------------------------------------------------
(* What a step does, as the invariant sees it: where the worker of a        *)
(* proposal is, what the log says, and the status of the row.               *)

\* Where request r is as the apply worker of p.
At(r, p) == IF req[r].at \in Working /\ req[r].p = p THEN req[r].at ELSE "none"

\* Request r is the only one that moves, to b, and its proposal is p.
Moves(r, p, b) ==
    \A s \in Request, q \in Proposal :
      At(s, q)' = IF s = r /\ q = p THEN b ELSE At(s, q)

NobodyMoves == \A s \in Request, q \in Proposal : At(s, q)' = At(s, q)

\* The events in ws were added to the log of p.
Says(p, ws) ==
    /\ \A q \in Proposal, w \in Whats :
         Recorded(q, w)' <=> Recorded(q, w) \/ (q = p /\ w \in ws)
    /\ \A q \in Proposal : OthersApproval(q) => OthersApproval(q)'

\* The log of p now holds an approval of somebody entitled to it.
Approved(p) == \A q \in Proposal : q = p => OthersApproval(q)'

\* The status of p is s now.
Turns(p, s) ==
    \A q \in Proposal : row'[q].status = IF q = p THEN s ELSE row[q].status

\* An update of the status alone.
LEMMA StatusTurns ==
    ASSUME TypeInv, NEW p \in Proposal, NEW s \in Statuses,
           row' = [row EXCEPT ![p].status = s]
    PROVE  row' \in [Proposal -> Rows] /\ Turns(p, s)
<1>1. row' = [row EXCEPT ![p] = [row[p] EXCEPT !.status = s]]
  OBVIOUS
<1>2. [row[p] EXCEPT !.status = s] \in Rows /\ [row[p] EXCEPT !.status = s].status = s
  BY StatusSet DEF TypeInv
<1> QED
  BY <1>1, <1>2 DEF TypeInv, Turns

LEMMA LogSays ==
    ASSUME TypeInv, NEW p \in Proposal, proposer' = proposer
    PROVE  /\ log' = log => Says(p, {})
           /\ \A e \in Events : Emit(p, e) =>
                /\ Says(p, {e.what})
                /\ e.what = "approve" /\ (e.by # proposer[p] \/ e.by = Local) =>
                     OthersApproval(p)'
<1>1. ASSUME log' = log PROVE Says(p, {})
  BY <1>1 DEF Says, Recorded, OthersApproval
<1>2. ASSUME NEW e \in Events, Emit(p, e)
      PROVE  /\ Says(p, {e.what})
             /\ e.what = "approve" /\ (e.by # proposer[p] \/ e.by = Local) =>
                  OthersApproval(p)'
  <2>1. log' = [log EXCEPT ![p] = Append(log[p], e)]
    BY <1>2 DEF Emit
  <2>2. log[p] \in Seq(Events) /\ Len(log[p]) \in Nat /\ DOMAIN log[p] = 1 .. Len(log[p])
    BY LenProperties DEF TypeInv
  <2>3. /\ DOMAIN log'[p] = 1 .. Len(log[p]) + 1
        /\ log'[p][Len(log[p]) + 1] = e
        /\ \A i \in 1 .. Len(log[p]) : log'[p][i] = log[p][i]
    <3>1. log'[p] = Append(log[p], e)
      BY <2>1 DEF TypeInv
    <3>2. /\ Append(log[p], e) \in Seq(Events)
          /\ Len(Append(log[p], e)) = Len(log[p]) + 1
          /\ \A i \in 1 .. Len(log[p]) : Append(log[p], e)[i] = log[p][i]
          /\ Append(log[p], e)[Len(log[p]) + 1] = e
      BY <2>2, AppendProperties
    <3>3. DOMAIN Append(log[p], e) = 1 .. Len(Append(log[p], e))
      BY <3>2, LenProperties
    <3> QED
      BY <3>1, <3>2, <3>3
  <2>4. \A q \in Proposal \ {p} : log'[q] = log[q]
    BY <2>1 DEF TypeInv
  <2>5. ASSUME NEW w PROVE Recorded(p, w)' <=> Recorded(p, w) \/ w = e.what
    <3>1. Recorded(p, w) => Recorded(p, w)'
      BY <2>2, <2>3 DEF Recorded
    <3>2. w = e.what => Recorded(p, w)'
      BY <2>2, <2>3 DEF Recorded
    <3>3. ASSUME NEW i \in 1 .. Len(log[p]) + 1, log'[p][i].what = w
          PROVE  Recorded(p, w) \/ w = e.what
      <4>1. CASE i = Len(log[p]) + 1
        BY <2>3, <3>3, <4>1
      <4>2. CASE i # Len(log[p]) + 1
        <5>1. i \in 1 .. Len(log[p])
          BY <2>2, <4>2
        <5> QED
          BY <2>2, <2>3, <3>3, <5>1 DEF Recorded
      <4> QED
        BY <4>1, <4>2
    <3> QED
      BY <2>3, <3>1, <3>2, <3>3 DEF Recorded
  <2>6. ASSUME NEW q \in Proposal \ {p}, NEW w PROVE Recorded(q, w)' <=> Recorded(q, w)
    BY <2>4 DEF Recorded
  <2>7. ASSUME NEW q \in Proposal, OthersApproval(q) PROVE OthersApproval(q)'
    <3>1. CASE q = p
      BY <2>2, <2>3, <2>7, <3>1 DEF OthersApproval
    <3>2. CASE q # p
      BY <2>4, <2>7, <3>2 DEF OthersApproval
    <3> QED
      BY <3>1, <3>2
  <2>8. ASSUME e.what = "approve", e.by # proposer[p] \/ e.by = Local
        PROVE  OthersApproval(p)'
    BY <2>2, <2>3, <2>8 DEF OthersApproval
  <2>9. Says(p, {e.what})
    BY <2>5, <2>6, <2>7 DEF Says
  <2> QED
    BY <2>8, <2>9
<1> QED
  BY <1>1, <1>2

LEMMA EndsMoves ==
    ASSUME TypeInv, NEW r \in Request, NEW p \in Proposal, Ends(r),
           req[r].at \in Working => req[r].p = p
    PROVE  Moves(r, p, "none")
<1>1. req'[r].at = "ended" /\ \A s \in Request \ {r} : req'[s] = req[s]
  BY EndsType
<1> QED
  BY <1>1 DEF Moves, At, Working, Applying

LEMMA GoesMoves ==
    ASSUME TypeInv, NEW r \in Request, NEW step \in Working,
           req[r].at \in {"record"} \cup Working, Goes(r, step)
    PROVE  Moves(r, req[r].p, step)
<1>1. /\ req'[r].at = step /\ req'[r].p = req[r].p
      /\ \A s \in Request \ {r} : req'[s] = req[s]
  BY GoesType
<1> QED
  BY <1>1 DEF Moves, At

\* The two outcomes of a guarded event.
LEMMA GuardedHit ==
    ASSUME TypeInv, proposer' = proposer, NEW p \in Proposal, NEW new \in Rows,
           NEW e \in Events, row' = [row EXCEPT ![p] = new], Emit(p, e)
    PROVE  /\ row' \in [Proposal -> Rows] /\ log' \in [Proposal -> Seq(Events)]
           /\ Turns(p, new.status) /\ Says(p, {e.what})
           /\ e.what = "approve" /\ (e.by # proposer[p] \/ e.by = Local) =>
                Approved(p)
<1>1. row' \in [Proposal -> Rows] /\ Turns(p, new.status)
  BY DEF TypeInv, Turns
<1> QED
  BY <1>1, EmitType, LogSays DEF Approved

LEMMA GuardedMiss ==
    ASSUME TypeInv, proposer' = proposer, NEW p \in Proposal, UNCHANGED <<row, log>>
    PROVE  /\ row' \in [Proposal -> Rows] /\ log' \in [Proposal -> Seq(Events)]
           /\ Turns(p, row[p].status) /\ Says(p, {})
  BY LogSays DEF TypeInv, Turns

LEMMA AppendedEvent ==
    ASSUME TypeInv, proposer' = proposer, NEW p \in Proposal, NEW e \in Events, NEW ack,
           AppendEvent(p, e, ack)
    PROVE  /\ log' \in [Proposal -> Seq(Events)]
           /\ Says(p, {}) \/ Says(p, {e.what})
  BY EmitType, LogSays DEF AppendEvent, TypeInv

-----------------------------------------------------------------------------
(* The actions, one by one.                                                *)

\* What stays as it is in every step.
Fixed == kind' = kind /\ proposer' = proposer

\* What the later steps of a request leave alone as well.
Alone == Fixed /\ proposing' = proposing

LEMMA ProposeLogsView ==
    ASSUME TypeInv, NEW p \in Proposal, ProposeLogs(p)
    PROVE  /\ TypeInv' /\ Fixed /\ NobodyMoves /\ Turns(p, row[p].status)
           /\ Says(p, {}) \/ Says(p, {"created"})
           /\ proposing[p] = "new"
           /\ \A q \in Proposal \ {p} : proposing'[q] = proposing[q]
           /\ UNCHANGED <<req, graph, troubled>>
<1>1. proposer[p] \in Actor
  BY DEF TypeInv
<1>2. /\ Event("created", proposer[p]) \in Events
      /\ Event("created", proposer[p]).what = "created"
  BY <1>1, EventTypes DEF Whats
<1>3. /\ UNCHANGED <<kind, proposer, row, graph, req, troubled>> /\ proposing[p] = "new"
      /\ \E ack \in Acks : AppendEvent(p, Event("created", proposer[p]), ack)
      /\ \E to \in {"logged", "ended"} : proposing' = [proposing EXCEPT ![p] = to]
  BY DEF ProposeLogs
<1>4. log' \in [Proposal -> Seq(Events)] /\ (Says(p, {}) \/ Says(p, {"created"}))
  BY <1>2, <1>3, AppendedEvent
<1>5. NobodyMoves /\ Turns(p, row[p].status)
  BY <1>3 DEF NobodyMoves, At, Turns
<1>6. TypeInv'
  BY <1>3, <1>4 DEF TypeInv
<1> QED
  BY <1>3, <1>4, <1>5, <1>6 DEF Fixed, TypeInv

LEMMA OnProposalCreatedView ==
    ASSUME TypeInv, NEW p \in Proposal, OnProposalCreated(p) \/ ProposeGivesUp(p)
    PROVE  /\ TypeInv' /\ Fixed /\ NobodyMoves /\ Says(p, {})
           /\ Turns(p, row[p].status) \/ Turns(p, "open")
           /\ proposing[p] = "logged" /\ proposing'[p] = "ended"
           /\ \A q \in Proposal \ {p} : proposing'[q] = proposing[q]
           /\ UNCHANGED <<req, graph, troubled>>
<1>1. /\ UNCHANGED <<kind, proposer, log, graph, req, troubled>> /\ proposing[p] = "logged"
      /\ proposing' = [proposing EXCEPT ![p] = "ended"]
      /\ row' = row \/ \E ack \in Acks : ExecuteStatusTransition(p, TRUE, "open", ack)
  BY DEF OnProposalCreated, ProposeGivesUp
<1>2. /\ row' \in [Proposal -> Rows]
      /\ Turns(p, row[p].status) \/ Turns(p, "open")
  <2>1. "open" \in Statuses
    BY DEF Statuses
  <2>2. CASE row' = row
    BY <2>2 DEF TypeInv, Turns
  <2>3. ASSUME NEW ack, ExecuteStatusTransition(p, TRUE, "open", ack)
        PROVE  /\ row' \in [Proposal -> Rows]
               /\ Turns(p, row[p].status) \/ Turns(p, "open")
    <3>1. CASE Landed(ack)
      BY <2>1, <2>3, <3>1, StatusTurns DEF ExecuteStatusTransition
    <3>2. CASE ~Landed(ack)
      BY <2>3, <3>2 DEF ExecuteStatusTransition, TypeInv, Turns
    <3> QED
      BY <3>1, <3>2
  <2> QED
    BY <1>1, <2>2, <2>3
<1>3. NobodyMoves /\ Says(p, {})
  BY <1>1, LogSays DEF NobodyMoves, At
<1>4. TypeInv'
  BY <1>1, <1>2 DEF TypeInv
<1> QED
  BY <1>1, <1>2, <1>3, <1>4 DEF Fixed, TypeInv

LEMMA StartsView ==
    ASSUME TypeInv, NEW r \in Request, Starts(r)
    PROVE  /\ TypeInv' /\ Alone /\ NobodyMoves
           /\ UNCHANGED <<row, log, graph, troubled>>
           /\ \A s \in Request \ {r} : req'[s] = req[s]
           /\ req'[r].at = "record" /\ req'[r].decision = "approve" =>
                req'[r].actor # proposer[req'[r].p] \/ req'[r].actor = Local
<1>1. /\ UNCHANGED <<kind, proposer, proposing, row, log, graph, troubled>>
      /\ req[r].at = "idle"
  BY DEF Starts, Refuses, WithdrawReads, ReviewReads
<1>2. PICK x \in (Resting \cup Withdrawing \cup Reviewing) :
        /\ req' = [req EXCEPT ![r] = x] /\ x.at \notin Working
        /\ x.at = "record" /\ x.decision = "approve" =>
             x.actor # proposer[x.p] \/ x.actor = Local
  <2>1. CASE Refuses(r)
    <3>1. Ended \in Resting /\ Ended.at = "ended"
      BY DEF Ended, Resting
    <3> QED
      BY <2>1, <3>1 DEF Refuses, Ends, Working, Applying
  <2>2. ASSUME NEW p \in Proposal, NEW actor \in Actor, WithdrawReads(r, p, actor)
        PROVE  \E x \in Withdrawing : req' = [req EXCEPT ![r] = x] /\ x.at = "withdraw"
    <3> DEFINE x == [at |-> "withdraw", p |-> p, actor |-> actor]
    <3>1. x \in Withdrawing /\ x.at = "withdraw"
      BY DEF Withdrawing
    <3> QED
      BY <2>2, <3>1 DEF WithdrawReads
  <2>3. ASSUME NEW p \in Proposal, NEW actor \in Actor, NEW decision \in Decisions,
               ReviewReads(r, p, actor, decision)
        PROVE  \E x \in Reviewing :
                 /\ req' = [req EXCEPT ![r] = x] /\ x.at = "record"
                 /\ x.decision = "approve" => x.actor # proposer[x.p] \/ x.actor = Local
    <3> DEFINE x == [at |-> "record", p |-> p, actor |-> actor, decision |-> decision]
    <3>1. x \in Reviewing /\ x.at = "record"
      BY DEF Reviewing
    <3>2. x.decision = "approve" => x.actor # proposer[x.p] \/ x.actor = Local
      BY <2>3 DEF ReviewReads, ReviewAdmits
    <3> QED
      BY <2>3, <3>1, <3>2 DEF ReviewReads
  <2> QED
    BY <2>1, <2>2, <2>3 DEF Starts, Working, Applying
<1>3. req'[r] = x /\ \A s \in Request \ {r} : req'[s] = req[s]
  BY <1>2 DEF TypeInv
<1>4. req' \in [Request -> Resting \cup Withdrawing \cup Reviewing]
  BY <1>2 DEF TypeInv
<1>5. NobodyMoves
  BY <1>1, <1>2, <1>3 DEF NobodyMoves, At, Working, Applying
<1>6. TypeInv'
  BY <1>1, <1>4 DEF TypeInv
<1> QED
  BY <1>1, <1>2, <1>3, <1>5, <1>6 DEF Alone, Fixed

\* Nothing is forgotten about trouble, and it concerns p only.
Troubles(p) == troubled' = troubled \/ troubled' = troubled \cup {p}

\* What holds of every later step of request r, which concerns p.
Later(r, p) ==
    /\ p = req[r].p /\ p \in Proposal
    /\ TypeInv' /\ Alone /\ Troubles(p)
    /\ \A s \in Request \ {r} : req'[s] = req[s]
    /\ req'[r].at # "record"

\* The request's proposal and the types of what it writes.
LEMMA LaterStep ==
    ASSUME TypeInv, NEW r \in Request, req[r].at \in {"record", "withdraw"} \cup Working,
           UNCHANGED <<kind, proposer, proposing>>, Troubles(req[r].p),
           row' \in [Proposal -> Rows], log' \in [Proposal -> Seq(Events)],
           graph' \in [Proposal -> Nat],
           Ends(r) \/ /\ req[r].at # "withdraw"
                      /\ \E step \in Working : Goes(r, step)
    PROVE  Later(r, req[r].p)
<1>1. req[r].p \in Proposal
  BY ReviewRecord DEF Reviewing, Withdrawing
<1>2. /\ req' \in [Request -> Resting \cup Withdrawing \cup Reviewing]
      /\ \A s \in Request \ {r} : req'[s] = req[s]
      /\ req'[r].at # "record"
  <2>1. CASE Ends(r)
    BY <2>1, EndsType
  <2>2. ASSUME NEW step \in Working, Goes(r, step), req[r].at # "withdraw"
        PROVE  /\ req' \in [Request -> Resting \cup Withdrawing \cup Reviewing]
               /\ \A s \in Request \ {r} : req'[s] = req[s]
               /\ req'[r].at = step
    BY <2>2, GoesType
  <2> QED
    BY <2>1, <2>2 DEF Working, Applying
<1>3. troubled' \subseteq Proposal
  BY <1>1 DEF Troubles, TypeInv
<1> QED
  BY <1>1, <1>2, <1>3 DEF Later, TypeInv, Alone, Fixed

LEMMA ReviewRecordsView ==
    ASSUME TypeInv, NEW r \in Request, ReviewRecords(r),
           req[r].decision = "approve" =>
             req[r].actor # proposer[req[r].p] \/ req[r].actor = Local
    PROVE  LET p == req[r].p
               d == req[r].decision
           IN  /\ Later(r, p) /\ d \in Decisions /\ UNCHANGED graph
               /\ \/ /\ d = "comment" \/ PendingReview(row[p].status)
                     /\ Turns(p, DecidedStatus(row[p].status, d)) /\ Says(p, {d})
                     /\ d = "approve" => Approved(p)
                     /\ Moves(r, p, "none") \/ (d = "approve" /\ Moves(r, p, "check"))
                  \/ /\ Turns(p, row[p].status) /\ Says(p, {}) /\ Moves(r, p, "none")
<1> DEFINE p == req[r].p
           d == req[r].decision
           hit == d = "comment" \/ PendingReview(row[p].status)
           e == Event(d, req[r].actor)
           new == ReviewDecisionEffect(row[p], d)
<1>1. req[r].at = "record" /\ UNCHANGED <<kind, proposer, proposing, graph>>
  BY DEF ReviewRecords
<1>2. req[r] \in Reviewing /\ p \in Proposal /\ d \in Decisions /\ req[r].actor \in Actor
  BY <1>1, ReviewRecord DEF Reviewing
<1>3. e \in Events /\ e.what = d /\ e.by = req[r].actor
  BY <1>2, EventTypes DEF Whats
<1>4. new \in Rows /\ new.status = DecidedStatus(row[p].status, d)
  BY <1>2, ReviewType DEF TypeInv
<1>5. PICK ack \in Acks :
        /\ ExecuteGuardedEvent(p, hit, new, e, ack)
        /\ IF d = "approve" /\ hit
           THEN /\ IF ack = "ok" THEN Goes(r, "check") ELSE Ends(r)
                /\ Trouble(p, ack)
           ELSE Ends(r) /\ UNCHANGED troubled
  BY DEF ReviewRecords
<1> HIDE DEF hit, e, new, d
<1>6. /\ row' \in [Proposal -> Rows] /\ log' \in [Proposal -> Seq(Events)]
      /\ Landed(ack) /\ hit =>
           /\ Turns(p, new.status) /\ Says(p, {e.what})
           /\ e.what = "approve" /\ (e.by # proposer[p] \/ e.by = Local) =>
                Approved(p)
      /\ ~(Landed(ack) /\ hit) => Turns(p, row[p].status) /\ Says(p, {})
  <2>1. CASE Landed(ack) /\ hit
    <3>1. row' = [row EXCEPT ![p] = new] /\ Emit(p, e)
      BY <1>5, <2>1 DEF ExecuteGuardedEvent
    <3>2. /\ row' \in [Proposal -> Rows] /\ log' \in [Proposal -> Seq(Events)]
          /\ Turns(p, new.status) /\ Says(p, {e.what})
          /\ e.what = "approve" /\ (e.by # proposer[p] \/ e.by = Local) =>
               Approved(p)
      BY <1>1, <1>2, <1>3, <1>4, <3>1, GuardedHit
    <3> QED
      BY <2>1, <3>2
  <2>2. CASE ~(Landed(ack) /\ hit)
    <3>1. UNCHANGED <<row, log>>
      BY <1>5, <2>2 DEF ExecuteGuardedEvent
    <3> QED
      BY <1>1, <1>2, <2>2, <3>1, GuardedMiss
  <2> QED
    BY <2>1, <2>2
<1>7. Troubles(p) /\ (Ends(r) \/ Goes(r, "check"))
  BY <1>5 DEF Trouble, Troubles
<1>8. Later(r, p)
  <2>1. "check" \in Working /\ req[r].at \in {"record", "withdraw"} \cup Working
    BY <1>1 DEF Working
  <2>2. graph' \in [Proposal -> Nat]
    BY <1>1 DEF TypeInv
  <2> QED
    BY <1>1, <1>6, <1>7, <2>1, <2>2, LaterStep
<1>9. Ends(r) => Moves(r, p, "none")
  BY <1>2, EndsMoves
<1>10. Goes(r, "check") => Moves(r, p, "check")
  BY <1>1, GoesMoves DEF Working
<1>11. CASE Landed(ack) /\ hit
  <2>1. Moves(r, p, "none") \/ (d = "approve" /\ Moves(r, p, "check"))
    BY <1>5, <1>9, <1>10
  <2> QED
    BY <1>1, <1>2, <1>3, <1>4, <1>6, <1>8, <1>11, <2>1 DEF hit, d
<1>12. CASE ~(Landed(ack) /\ hit)
  <2>1. Ends(r)
    BY <1>5, <1>12 DEF Landed
  <2> QED
    BY <1>1, <1>2, <1>6, <1>8, <1>9, <1>12, <2>1 DEF d
<1> QED
  BY <1>11, <1>12

LEMMA WithdrawRecordsView ==
    ASSUME TypeInv, NEW r \in Request, WithdrawRecords(r)
    PROVE  LET p == req[r].p
           IN  /\ Later(r, p) /\ Moves(r, p, "none") /\ UNCHANGED graph
               /\ \/ /\ MayWithdraw(row[p].status)
                     /\ Turns(p, "withdrawn") /\ Says(p, {"withdrawn"})
                  \/ Turns(p, row[p].status) /\ Says(p, {})
<1> DEFINE p == req[r].p
           hit == MayWithdraw(row[p].status)
           e == Event("withdrawn", req[r].actor)
           new == [row[p] EXCEPT !.status = "withdrawn"]
<1>1. /\ req[r].at = "withdraw" /\ UNCHANGED <<kind, proposer, proposing, graph, troubled>>
      /\ Ends(r)
  BY DEF WithdrawRecords
<1>2. req[r] \in Withdrawing /\ p \in Proposal /\ req[r].actor \in Actor
  BY <1>1, ReviewRecord DEF Withdrawing
<1>3. e \in Events /\ e.what = "withdrawn"
  BY <1>2, EventTypes DEF Whats
<1>4. new \in Rows /\ new.status = "withdrawn"
  BY <1>2, StatusSet DEF TypeInv, Statuses
<1>5. PICK ack \in Acks : ExecuteGuardedEvent(p, hit, new, e, ack)
  BY DEF WithdrawRecords
<1> HIDE DEF hit, e, new
<1>6. /\ row' \in [Proposal -> Rows] /\ log' \in [Proposal -> Seq(Events)]
      /\ Landed(ack) /\ hit => Turns(p, new.status) /\ Says(p, {e.what})
      /\ ~(Landed(ack) /\ hit) => Turns(p, row[p].status) /\ Says(p, {})
  <2>1. CASE Landed(ack) /\ hit
    <3>1. row' = [row EXCEPT ![p] = new] /\ Emit(p, e)
      BY <1>5, <2>1 DEF ExecuteGuardedEvent
    <3> QED
      BY <1>1, <1>2, <1>3, <1>4, <2>1, <3>1, GuardedHit
  <2>2. CASE ~(Landed(ack) /\ hit)
    <3>1. UNCHANGED <<row, log>>
      BY <1>5, <2>2 DEF ExecuteGuardedEvent
    <3> QED
      BY <1>1, <1>2, <2>2, <3>1, GuardedMiss
  <2> QED
    BY <2>1, <2>2
<1>7. Later(r, p)
  <2>1. graph' \in [Proposal -> Nat] /\ Troubles(p)
    BY <1>1 DEF TypeInv, Troubles
  <2> QED
    BY <1>1, <1>6, <2>1, LaterStep
<1>8. Moves(r, p, "none")
  BY <1>1, <1>2, EndsMoves DEF Working, Applying
<1> QED
  BY <1>1, <1>3, <1>4, <1>6, <1>7, <1>8 DEF hit

\* Every step of the apply worker keeps what the caller's steps decide.
LEMMA WorkerStep ==
    ASSUME TypeInv, NEW r \in Request, req[r].at \in Working
    PROVE  /\ req[r] \in Reviewing /\ req[r].p \in Proposal
           /\ At(r, req[r].p) = req[r].at
           /\ Ends(r) => Moves(r, req[r].p, "none")
           /\ \A step \in Working : Goes(r, step) => Moves(r, req[r].p, step)
<1>1. req[r] \in Reviewing /\ req[r].p \in Proposal
  BY ReviewRecord DEF Reviewing
<1>2. Ends(r) => Moves(r, req[r].p, "none")
  BY <1>1, EndsMoves
<1>3. \A step \in Working : Goes(r, step) => Moves(r, req[r].p, step)
  BY GoesMoves
<1> QED
  BY <1>1, <1>2, <1>3 DEF At

\* A step of the worker that writes neither the row, the log nor the graph.
LEMMA QuietView ==
    ASSUME TypeInv, NEW r \in Request, req[r].at \in Working,
           UNCHANGED <<kind, proposer, proposing, row, log, graph>>,
           Troubles(req[r].p), Ends(r) \/ \E step \in Working : Goes(r, step)
    PROVE  LET p == req[r].p
           IN  Later(r, p) /\ Turns(p, row[p].status) /\ Says(p, {})
<1>1. req[r].p \in Proposal
  BY WorkerStep
<1>2. Turns(req[r].p, row[req[r].p].status)
  BY DEF Turns
<1>3. Says(req[r].p, {})
  BY <1>1, LogSays
<1>4. /\ row' \in [Proposal -> Rows] /\ log' \in [Proposal -> Seq(Events)]
      /\ graph' \in [Proposal -> Nat]
  BY DEF TypeInv
<1>5. req[r].at # "withdraw"
  BY DEF Working, Applying
<1> QED
  BY <1>2, <1>3, <1>4, <1>5, LaterStep

\* A step that only appends an event of the worker.
LEMMA AnnounceView ==
    ASSUME TypeInv, NEW r \in Request, req[r].at \in Working,
           UNCHANGED <<kind, proposer, proposing, row, graph>>,
           NEW ack \in Acks, AppendEvent(req[r].p, Event("failed", System), ack),
           Trouble(req[r].p, ack), Ends(r) \/ \E step \in Working : Goes(r, step)
    PROVE  LET p == req[r].p
           IN  /\ Later(r, p) /\ Turns(p, row[p].status)
               /\ Says(p, {}) \/ Says(p, {"failed"})
<1>1. req[r].p \in Proposal
  BY WorkerStep
<1>2. Turns(req[r].p, row[req[r].p].status)
  BY DEF Turns
<1>3. Event("failed", System) \in Events /\ Event("failed", System).what = "failed"
  BY EventTypes DEF Whats
<1>4. /\ log' \in [Proposal -> Seq(Events)]
      /\ Says(req[r].p, {}) \/ Says(req[r].p, {"failed"})
  BY <1>1, <1>3, AppendedEvent
<1>5. /\ row' \in [Proposal -> Rows] /\ graph' \in [Proposal -> Nat]
      /\ Troubles(req[r].p) /\ req[r].at # "withdraw"
  BY DEF TypeInv, Trouble, Troubles, Working, Applying
<1> QED
  BY <1>2, <1>4, <1>5, LaterStep

\* A compare-and-set of the status by the worker.
LEMMA SettleView ==
    ASSUME TypeInv, NEW r \in Request, req[r].at \in Working,
           UNCHANGED <<kind, proposer, proposing, log, graph>>, NEW s \in Statuses,
           row' = row \/ row' = [row EXCEPT ![req[r].p].status = s],
           NEW ack \in Acks, Trouble(req[r].p, ack),
           Ends(r) \/ \E step \in Working : Goes(r, step)
    PROVE  LET p == req[r].p
           IN  /\ Later(r, p) /\ Says(p, {})
               /\ row' = row => Turns(p, row[p].status)
               /\ row' = [row EXCEPT ![p].status = s] => Turns(p, s)
               /\ ack # "ok" => p \in troubled'
<1>1. req[r].p \in Proposal
  BY WorkerStep
<1>2. row' = row => Turns(req[r].p, row[req[r].p].status)
  BY DEF Turns
<1>3. row' = [row EXCEPT ![req[r].p].status = s] =>
        Turns(req[r].p, s) /\ row' \in [Proposal -> Rows]
  BY <1>1, StatusTurns
<1>4. Says(req[r].p, {})
  BY <1>1, LogSays
<1>5. /\ row' \in [Proposal -> Rows]
      /\ log' \in [Proposal -> Seq(Events)] /\ graph' \in [Proposal -> Nat]
      /\ Troubles(req[r].p) /\ req[r].at # "withdraw"
  BY <1>3 DEF TypeInv, Trouble, Troubles, Working, Applying
<1>6. ack # "ok" => req[r].p \in troubled'
  BY DEF Trouble
<1> QED
  BY <1>2, <1>3, <1>4, <1>5, <1>6, LaterStep

LEMMA FinalizeView ==
    ASSUME TypeInv, NEW r \in Request, FinalizeApplySuccess(r)
    PROVE  LET p == req[r].p
           IN  /\ Later(r, p) /\ Moves(r, p, "none") /\ UNCHANGED graph
               /\ At(r, p) = "finalize"
               /\ \/ row[p].status = "applying" /\ Turns(p, "applied") /\ Says(p, {"success"})
                  \/ /\ Turns(p, row[p].status) /\ Says(p, {})
                     /\ p \in troubled' \/ row[p].status # "applying"
<1> DEFINE p == req[r].p
           hit == row[p].status = "applying"
           e == Event("success", System)
           new == [row[p] EXCEPT !.status = "applied"]
<1>1. /\ req[r].at = "finalize" /\ UNCHANGED <<kind, proposer, proposing, graph>>
      /\ Ends(r)
  BY DEF FinalizeApplySuccess
<1>w. req[r].at \in Working
  BY <1>1 DEF Working, Applying
<1>2. p \in Proposal /\ At(r, p) = "finalize" /\ Moves(r, p, "none")
  BY <1>1, <1>w, WorkerStep
<1>3. e \in Events /\ e.what = "success"
  BY EventTypes DEF Whats
<1>4. new \in Rows /\ new.status = "applied"
  BY <1>2, StatusSet DEF TypeInv, Statuses
<1>5. PICK ack \in Acks : ExecuteGuardedEvent(p, hit, new, e, ack) /\ Trouble(p, ack)
  BY DEF FinalizeApplySuccess
<1> HIDE DEF hit, e, new
<1>6. /\ row' \in [Proposal -> Rows] /\ log' \in [Proposal -> Seq(Events)]
      /\ Landed(ack) /\ hit => Turns(p, new.status) /\ Says(p, {e.what})
      /\ ~(Landed(ack) /\ hit) => Turns(p, row[p].status) /\ Says(p, {})
  <2>1. CASE Landed(ack) /\ hit
    <3>1. row' = [row EXCEPT ![p] = new] /\ Emit(p, e)
      BY <1>5, <2>1 DEF ExecuteGuardedEvent
    <3> QED
      BY <1>1, <1>2, <1>3, <1>4, <2>1, <3>1, GuardedHit
  <2>2. CASE ~(Landed(ack) /\ hit)
    <3>1. UNCHANGED <<row, log>>
      BY <1>5, <2>2 DEF ExecuteGuardedEvent
    <3> QED
      BY <1>1, <1>2, <2>2, <3>1, GuardedMiss
  <2> QED
    BY <2>1, <2>2
<1>7. Later(r, p)
  <2>1. graph' \in [Proposal -> Nat] /\ Troubles(p)
    BY <1>1, <1>5 DEF TypeInv, Trouble, Troubles
  <2> QED
    BY <1>1, <1>w, <1>6, <2>1, LaterStep
<1>8. ~Landed(ack) => p \in troubled'
  BY <1>5 DEF Landed, Trouble
<1> QED
  BY <1>1, <1>2, <1>3, <1>4, <1>6, <1>7, <1>8 DEF hit

-----------------------------------------------------------------------------
(* The invariant.                                                          *)

\* The row and the log.  Every resolved status is final, an approval is given
\* once and by somebody entitled to it, and the row exists only when its propose
\* request is through.
RowInv(p) ==
    /\ proposing[p] # "ended" => row[p].status = "none"
    /\ Recorded(p, "approve") =>
         row[p].status \in {"approved", "applying", "applied", "withdrawn"}
    /\ row[p].status \in {"approved", "applying", "applied"} =>
         OthersApproval(p) /\ Recorded(p, "approve")
    /\ Recorded(p, "reject") => row[p].status = "rejected"
    /\ Recorded(p, "withdrawn") => row[p].status = "withdrawn"
    /\ Recorded(p, "success") <=> row[p].status = "applied"
    /\ Recorded(p, "failed") => Recorded(p, "approve")

\* The apply worker: there is one at most, the review whose approval was
\* recorded, and the changeset goes in between its claim and its post-commit work.
WorkerInv(p) ==
    /\ \A r, s \in Request : At(r, p) # "none" /\ At(s, p) # "none" => r = s
    /\ \A r \in Request :
         /\ At(r, p) # "none" => Recorded(p, "approve")
         /\ At(r, p) \in {"check", "claim", "apply"} =>
              graph[p] = 0 /\ ~Recorded(p, "failed")
         /\ At(r, p) \in {"post_commit", "finalize"} => graph[p] = 1
         /\ At(r, p) \in Applying => row[p].status = "applying"

\* The graph against both.
GraphInv(p) ==
    /\ graph[p] \in {0, 1}
    /\ graph[p] = 1 => OthersApproval(p) /\ Recorded(p, "approve")
    /\ row[p].status = "applied" => graph[p] = 1
    /\ graph[p] = 1 /\ (kind[p] = "canonical" \/ p \notin troubled) =>
         /\ row[p].status \in {"applying", "applied"}
         /\ ~Recorded(p, "failed")
         /\ \A r \in Request : At(r, p) \in {"none", "post_commit", "finalize"}
    /\ row[p].status = "applying" /\ (\A r \in Request : At(r, p) \notin Applying) =>
         p \in troubled \/ graph[p] = 1

ProposalInv(p) == RowInv(p) /\ WorkerInv(p) /\ GraphInv(p)

\* A review in flight that approves is by somebody who may.
EntitledInv ==
    \A r \in Request :
      req[r].at = "record" /\ req[r].decision = "approve" =>
        req[r].actor # proposer[req[r].p] \/ req[r].actor = Local

IInv == TypeInv /\ EntitledInv /\ \A p \in Proposal : ProposalInv(p)

LEMMA InitIInv == Init => IInv
<1> SUFFICES ASSUME Init PROVE IInv
  OBVIOUS
<1>1. \A r \in Request : req[r].at = "idle"
  BY DEF Init
<1>2. \A p \in Proposal : /\ row[p].status = "none" /\ graph[p] = 0
                          /\ DOMAIN log[p] = {}
  BY DEF Init, NoRow
<1>3. \A p \in Proposal : \A w : ~Recorded(p, w)
  BY <1>2 DEF Recorded
<1>4. \A p \in Proposal, r \in Request : At(r, p) = "none"
  BY <1>1 DEF At, Working, Applying
<1>5. \A p \in Proposal : ProposalInv(p)
  BY <1>2, <1>3, <1>4 DEF ProposalInv, RowInv, WorkerInv, GraphInv, Applying
<1> QED
  BY <1>1, <1>5, InitType DEF IInv, EntitledInv

\* A step leaves the other proposals alone.
LEMMA Elsewhere ==
    ASSUME NEW p \in Proposal, NEW q \in Proposal \ {p}, ProposalInv(q), Fixed,
           proposing'[q] = proposing[q], NEW s, Turns(p, s), NEW ws, Says(p, ws),
           \A r \in Request : At(r, q)' = At(r, q),
           graph'[q] = graph[q], q \in troubled' <=> q \in troubled
    PROVE  ProposalInv(q)'
<1>1. row'[q].status = row[q].status
  BY DEF Turns
<1>2. \A w \in {"approve", "reject", "withdrawn", "success", "failed"} :
        Recorded(q, w)' <=> Recorded(q, w)
  BY DEF Says, Whats, Decisions
<1>3. OthersApproval(q) => OthersApproval(q)'
  BY DEF Says
<1>4. /\ Recorded(q, "approve")' <=> Recorded(q, "approve")
      /\ Recorded(q, "reject")' <=> Recorded(q, "reject")
      /\ Recorded(q, "withdrawn")' <=> Recorded(q, "withdrawn")
      /\ Recorded(q, "success")' <=> Recorded(q, "success")
      /\ Recorded(q, "failed")' <=> Recorded(q, "failed")
  BY <1>2
<1>5. RowInv(q)'
  BY <1>1, <1>3, <1>4 DEF ProposalInv, RowInv
<1>6. WorkerInv(q)'
  BY <1>1, <1>4 DEF ProposalInv, WorkerInv
<1>7. GraphInv(q)'
  BY <1>1, <1>3, <1>4 DEF ProposalInv, GraphInv, Fixed
<1> QED
  BY <1>5, <1>6, <1>7 DEF ProposalInv

\* The events the invariant speaks of, after a step that concerns p.
LEMMA SaysHere ==
    ASSUME NEW p \in Proposal, NEW ws, Says(p, ws)
    PROVE  /\ Recorded(p, "approve")' <=> Recorded(p, "approve") \/ "approve" \in ws
           /\ Recorded(p, "reject")' <=> Recorded(p, "reject") \/ "reject" \in ws
           /\ Recorded(p, "withdrawn")' <=> Recorded(p, "withdrawn") \/ "withdrawn" \in ws
           /\ Recorded(p, "success")' <=> Recorded(p, "success") \/ "success" \in ws
           /\ Recorded(p, "failed")' <=> Recorded(p, "failed") \/ "failed" \in ws
           /\ OthersApproval(p) => OthersApproval(p)'
  BY DEF Says, Whats, Decisions

\* It is enough to look at the proposal a request's step concerns.
LEMMA OnlyHere ==
    ASSUME IInv, NEW r \in Request, NEW p \in Proposal, Later(r, p),
           NEW s, Turns(p, s), NEW ws, Says(p, ws), NEW b, Moves(r, p, b),
           \A q \in Proposal \ {p} : graph'[q] = graph[q],
           ProposalInv(p)'
    PROVE  IInv'
<1>1. EntitledInv'
  BY DEF IInv, EntitledInv, Later, Alone, Fixed
<1>2. ASSUME NEW q \in Proposal \ {p} PROVE ProposalInv(q)'
  <2>1. /\ Fixed /\ proposing'[q] = proposing[q] /\ graph'[q] = graph[q]
        /\ q \in troubled' <=> q \in troubled
    BY DEF Later, Alone, Troubles
  <2>2. \A x \in Request : At(x, q)' = At(x, q)
    BY DEF Moves
  <2>3. ProposalInv(q)
    BY DEF IInv
  <2> QED
    BY <2>1, <2>2, <2>3, Elsewhere
<1>3. \A q \in Proposal : ProposalInv(q)'
  BY <1>2
<1> QED
  BY <1>1, <1>3 DEF IInv, Later

\* propose.
LEMMA ProposeStep ==
    ASSUME IInv, NEW p \in Proposal,
           ProposeLogs(p) \/ OnProposalCreated(p) \/ ProposeGivesUp(p)
    PROVE  IInv'
<1>t. TypeInv /\ ProposalInv(p) /\ \A q \in Proposal : ProposalInv(q)
  BY DEF IInv
<1>1. /\ TypeInv' /\ Fixed /\ NobodyMoves
      /\ \E s \in {row[p].status, "open"} : Turns(p, s)
      /\ \E ws \in {{}, {"created"}} : Says(p, ws)
      /\ proposing[p] # "ended"
      /\ proposing'[p] # "ended" => Turns(p, row[p].status)
      /\ \A q \in Proposal \ {p} : proposing'[q] = proposing[q]
      /\ UNCHANGED <<req, graph, troubled>>
  BY <1>t, ProposeLogsView, OnProposalCreatedView
<1>2. EntitledInv'
  BY <1>1 DEF IInv, EntitledInv, Fixed
<1>3. PICK s \in {row[p].status, "open"} : Turns(p, s) /\ (proposing'[p] # "ended" => s = row[p].status)
  <2>1. CASE proposing'[p] # "ended"
    BY <1>1, <2>1
  <2>2. CASE proposing'[p] = "ended"
    BY <1>1, <2>2
  <2> QED
    BY <2>1, <2>2
<1>4. PICK ws \in {{}, {"created"}} : Says(p, ws)
  BY <1>1
<1>5. ASSUME NEW q \in Proposal \ {p} PROVE ProposalInv(q)'
  BY <1>t, <1>1, <1>3, <1>4, Elsewhere DEF NobodyMoves
<1>6. ProposalInv(p)'
  <2>1. /\ row[p].status = "none" /\ row'[p].status = s
        /\ s \in {"none", "open"} /\ (proposing'[p] # "ended" => s = "none")
    BY <1>t, <1>1, <1>3 DEF ProposalInv, RowInv, Turns
  <2>2. /\ Recorded(p, "approve")' <=> Recorded(p, "approve")
        /\ Recorded(p, "reject")' <=> Recorded(p, "reject")
        /\ Recorded(p, "withdrawn")' <=> Recorded(p, "withdrawn")
        /\ Recorded(p, "success")' <=> Recorded(p, "success")
        /\ Recorded(p, "failed")' <=> Recorded(p, "failed")
    BY <1>4, SaysHere
  <2>3. \A r \in Request : At(r, p)' = At(r, p)
    BY <1>1 DEF NobodyMoves
  <2>4. graph'[p] = graph[p]
    BY <1>1
  <2>5. OthersApproval(p) => OthersApproval(p)'
    BY <1>4, SaysHere
  <2>6. RowInv(p)'
    BY <1>t, <2>1, <2>2 DEF ProposalInv, RowInv
  <2>7. WorkerInv(p)'
    BY <1>t, <2>1, <2>2, <2>3, <2>4 DEF ProposalInv, RowInv, WorkerInv
  <2>8. GraphInv(p)'
    BY <1>t, <2>1, <2>2, <2>3, <2>4, <2>5 DEF ProposalInv, RowInv, WorkerInv, GraphInv
  <2> QED
    BY <2>6, <2>7, <2>8 DEF ProposalInv
<1> QED
  BY <1>1, <1>2, <1>5, <1>6 DEF IInv

-----------------------------------------------------------------------------
(* Each step of a request, for the proposal it concerns.                   *)

LEMMA StillInv ==
    ASSUME NEW p \in Proposal, ProposalInv(p), Alone, NobodyMoves,
           row'[p].status = row[p].status, UNCHANGED <<log, graph, troubled>>
    PROVE  ProposalInv(p)'
<1>1. \A w : Recorded(p, w)' <=> Recorded(p, w)
  BY DEF Recorded
<1>2. OthersApproval(p) => OthersApproval(p)'
  BY DEF OthersApproval, Alone, Fixed
<1>3. \A r \in Request : At(r, p)' = At(r, p)
  BY DEF NobodyMoves
<1>4. /\ Recorded(p, "approve")' <=> Recorded(p, "approve")
      /\ Recorded(p, "reject")' <=> Recorded(p, "reject")
      /\ Recorded(p, "withdrawn")' <=> Recorded(p, "withdrawn")
      /\ Recorded(p, "success")' <=> Recorded(p, "success")
      /\ Recorded(p, "failed")' <=> Recorded(p, "failed")
  BY <1>1
<1>5. RowInv(p)'
  BY <1>2, <1>4 DEF ProposalInv, RowInv, Alone
<1>6. WorkerInv(p)'
  BY <1>3, <1>4 DEF ProposalInv, WorkerInv
<1>7. GraphInv(p)'
  BY <1>2, <1>3, <1>4 DEF ProposalInv, GraphInv, Alone, Fixed
<1> QED
  BY <1>5, <1>6, <1>7 DEF ProposalInv

\* Steps that begin a request, or that clean up, change nothing of this.
LEMMA StartsStep ==
    ASSUME IInv, NEW r \in Request, Starts(r)
    PROVE  IInv'
<1>t. TypeInv /\ \A q \in Proposal : ProposalInv(q)
  BY DEF IInv
<1>1. /\ TypeInv' /\ Alone /\ NobodyMoves
      /\ UNCHANGED <<row, log, graph, troubled>>
      /\ \A s \in Request \ {r} : req'[s] = req[s]
      /\ req'[r].at = "record" /\ req'[r].decision = "approve" =>
           req'[r].actor # proposer[req'[r].p] \/ req'[r].actor = Local
  BY <1>t, StartsView
<1>2. EntitledInv'
  BY <1>1 DEF IInv, EntitledInv, Alone, Fixed
<1>3. ASSUME NEW q \in Proposal PROVE ProposalInv(q)'
  BY <1>t, <1>1, StillInv
<1> QED
  BY <1>1, <1>2, <1>3 DEF IInv

LEMMA CleanupStep ==
    ASSUME IInv, ProposalCleanup
    PROVE  IInv'
<1>t. TypeInv /\ \A q \in Proposal : ProposalInv(q)
  BY DEF IInv
<1>1. PICK old : /\ row' = [p \in Proposal |-> IF p \in old THEN [row[p] EXCEPT !.archived = TRUE]
                                                         ELSE row[p]]
                 /\ UNCHANGED <<kind, proposer, proposing, log, graph, req, troubled>>
  BY DEF ProposalCleanup
<1>2. \A p \in Proposal : /\ [row[p] EXCEPT !.archived = TRUE] \in Rows
                          /\ [row[p] EXCEPT !.archived = TRUE].status = row[p].status
  BY <1>t DEF TypeInv, Rows
<1>3. row' \in [Proposal -> Rows] /\ \A p \in Proposal : row'[p].status = row[p].status
  BY <1>t, <1>1, <1>2 DEF TypeInv
<1>4. TypeInv'
  BY <1>t, <1>1, <1>3 DEF TypeInv
<1>5. EntitledInv'
  BY <1>1 DEF IInv, EntitledInv
<1>6. Alone /\ NobodyMoves
  BY <1>1 DEF Alone, Fixed, NobodyMoves, At
<1>7. ASSUME NEW q \in Proposal PROVE ProposalInv(q)'
  BY <1>t, <1>1, <1>3, <1>6, StillInv
<1> QED
  BY <1>4, <1>5, <1>7 DEF IInv

\* The worker moves on, or ends, and tells nobody.
LEMMA LocalQuiet ==
    ASSUME NEW p \in Proposal, NEW r \in Request, ProposalInv(p), Alone, Troubles(p),
           NEW b \in Working \cup {"none"},
           UNCHANGED graph,
           Moves(r, p, b),
           Turns(p, row[p].status),
           Says(p, {}),
           At(r, p) = "none" => b = "none",
           At(r, p) \in {"check", "claim"} => b \in {"claim", "none"},
           At(r, p) \in {"post_commit", "finalize"} => b \in {"finalize", "none"},
           At(r, p) \in Applying /\ b = "none" => p \in troubled' \/ At(r, p) = "post_commit",
           At(r, p) \in {"apply", "fail", "revert"} => b \in {"fail", "revert", "none"}
    PROVE  ProposalInv(p)'
<1>a. At(r, p) \in Working \cup {"none"}
  BY DEF At
<1>s. row'[p].status = row[p].status
  BY DEF Turns
<1>m. \A x \in Request : At(x, p)' = IF x = r THEN b ELSE At(x, p)
  BY DEF Moves
<1>w. /\ Recorded(p, "approve")' <=> Recorded(p, "approve")
      /\ Recorded(p, "reject")' <=> Recorded(p, "reject")
      /\ Recorded(p, "withdrawn")' <=> Recorded(p, "withdrawn")
      /\ Recorded(p, "success")' <=> Recorded(p, "success")
      /\ Recorded(p, "failed")' <=> Recorded(p, "failed")
      /\ OthersApproval(p) => OthersApproval(p)'
  BY SaysHere
<1>f. kind' = kind /\ proposing' = proposing /\ (p \in troubled => p \in troubled')
  BY DEF Alone, Fixed, Troubles
<1>1. RowInv(p)'
  BY <1>s, <1>w, <1>f DEF ProposalInv, RowInv, WorkerInv, Applying, Working
<1>2. WorkerInv(p)'
  BY <1>a, <1>s, <1>m, <1>w DEF ProposalInv, RowInv, WorkerInv, Applying, Working
<1>3. GraphInv(p)'
  BY <1>a, <1>s, <1>m, <1>w, <1>f DEF ProposalInv, RowInv, WorkerInv, GraphInv, Applying,
     Working
<1> QED
  BY <1>1, <1>2, <1>3 DEF ProposalInv

\* A review is recorded; an approval that was acknowledged becomes the worker.
LEMMA LocalReview ==
    ASSUME NEW p \in Proposal, NEW r \in Request, ProposalInv(p), Alone, Troubles(p),
           NEW d \in Decisions,
           UNCHANGED graph,
           d = "comment" \/ PendingReview(row[p].status),
           At(r, p) = "none",
           NEW b \in {"none", "check"},
           b = "check" => d = "approve",
           Moves(r, p, b),
           Turns(p, DecidedStatus(row[p].status, d)),
           Says(p, {d}),
           d = "approve" => Approved(p),
           row[p].status \in Statuses
    PROVE  ProposalInv(p)'
<1>d. d = "comment" \/ row[p].status \in {"open", "changes_requested"}
  BY DEF PendingReview, Statuses
<1>s. row'[p].status = DecidedStatus(row[p].status, d)
  BY DEF Turns
<1>m. \A x \in Request : At(x, p)' = IF x = r THEN b ELSE At(x, p)
  BY DEF Moves
<1>w. /\ Recorded(p, "approve")' <=> Recorded(p, "approve") \/ d = "approve"
      /\ Recorded(p, "reject")' <=> Recorded(p, "reject") \/ d = "reject"
      /\ Recorded(p, "withdrawn")' <=> Recorded(p, "withdrawn")
      /\ Recorded(p, "success")' <=> Recorded(p, "success")
      /\ Recorded(p, "failed")' <=> Recorded(p, "failed")
      /\ OthersApproval(p) => OthersApproval(p)'
      /\ d = "approve" => OthersApproval(p)'
  BY SaysHere DEF Decisions, Approved
<1>f. kind' = kind /\ proposing' = proposing /\ (p \in troubled => p \in troubled')
  BY DEF Alone, Fixed, Troubles
<1>1. RowInv(p)'
  BY <1>d, <1>s, <1>w, <1>f DEF ProposalInv, RowInv, DecidedStatus, Decisions
<1>2. WorkerInv(p)'
  BY <1>d, <1>s, <1>m, <1>w
     DEF ProposalInv, RowInv, WorkerInv, GraphInv, Applying, DecidedStatus, Decisions
<1>3. GraphInv(p)'
  BY <1>d, <1>s, <1>m, <1>w, <1>f
     DEF ProposalInv, RowInv, WorkerInv, GraphInv, Applying, DecidedStatus, Decisions
<1> QED
  BY <1>1, <1>2, <1>3 DEF ProposalInv

\* A withdrawal is recorded: the proposal was undecided or approved.
LEMMA LocalWithdraw ==
    ASSUME NEW p \in Proposal, NEW r \in Request, ProposalInv(p), Alone, Troubles(p),
           UNCHANGED graph,
           MayWithdraw(row[p].status),
           At(r, p) = "none",
           row[p].status \in Statuses,
           Moves(r, p, "none"),
           Turns(p, "withdrawn"),
           Says(p, {"withdrawn"})
    PROVE  ProposalInv(p)'
<1>s. row'[p].status = "withdrawn"
  BY DEF Turns
<1>m. \A x \in Request : At(x, p)' = IF x = r THEN "none" ELSE At(x, p)
  BY DEF Moves
<1>w. /\ Recorded(p, "approve")' <=> Recorded(p, "approve")
      /\ Recorded(p, "reject")' <=> Recorded(p, "reject")
      /\ Recorded(p, "withdrawn")'
      /\ Recorded(p, "success")' <=> Recorded(p, "success")
      /\ Recorded(p, "failed")' <=> Recorded(p, "failed")
      /\ OthersApproval(p) => OthersApproval(p)'
  BY SaysHere
<1>f. kind' = kind /\ proposing' = proposing /\ (p \in troubled => p \in troubled')
  BY DEF Alone, Fixed, Troubles
<1>1. RowInv(p)'
  BY <1>s, <1>w, <1>f DEF ProposalInv, RowInv, WorkerInv, Applying, MayWithdraw, Statuses
<1>2. WorkerInv(p)'
  BY <1>s, <1>m, <1>w DEF ProposalInv, RowInv, WorkerInv, Applying, MayWithdraw, Statuses
<1>3. GraphInv(p)'
  BY <1>s, <1>m, <1>w, <1>f DEF ProposalInv, RowInv, WorkerInv, GraphInv, Applying,
     MayWithdraw, Statuses
<1> QED
  BY <1>1, <1>2, <1>3 DEF ProposalInv

\* The worker claims the row.
LEMMA LocalClaim ==
    ASSUME NEW p \in Proposal, NEW r \in Request, ProposalInv(p), Alone, Troubles(p),
           UNCHANGED graph,
           At(r, p) = "claim",
           row[p].status = "approved",
           NEW b \in {"apply", "none"},
           b = "none" => p \in troubled',
           Moves(r, p, b),
           Turns(p, "applying"),
           Says(p, {})
    PROVE  ProposalInv(p)'
<1>s. row'[p].status = "applying"
  BY DEF Turns
<1>m. \A x \in Request : At(x, p)' = IF x = r THEN b ELSE At(x, p)
  BY DEF Moves
<1>w. /\ Recorded(p, "approve")' <=> Recorded(p, "approve")
      /\ Recorded(p, "reject")' <=> Recorded(p, "reject")
      /\ Recorded(p, "withdrawn")' <=> Recorded(p, "withdrawn")
      /\ Recorded(p, "success")' <=> Recorded(p, "success")
      /\ Recorded(p, "failed")' <=> Recorded(p, "failed")
      /\ OthersApproval(p) => OthersApproval(p)'
  BY SaysHere
<1>f. kind' = kind /\ proposing' = proposing /\ (p \in troubled => p \in troubled')
  BY DEF Alone, Fixed, Troubles
<1>1. RowInv(p)'
  BY <1>s, <1>w, <1>f DEF ProposalInv, RowInv, WorkerInv, Applying
<1>2. WorkerInv(p)'
  BY <1>s, <1>m, <1>w DEF ProposalInv, RowInv, WorkerInv, Applying
<1>3. GraphInv(p)'
  BY <1>s, <1>m, <1>w, <1>f DEF ProposalInv, RowInv, WorkerInv, GraphInv, Applying
<1> QED
  BY <1>1, <1>2, <1>3 DEF ProposalInv

\* The changeset is committed, or may have been.
LEMMA LocalCommit ==
    ASSUME NEW p \in Proposal, NEW r \in Request, ProposalInv(p), Alone, Troubles(p),
           At(r, p) = "apply",
           NEW n \in {0, 1},
           graph'[p] = graph[p] + n,
           NEW b \in {"post_commit", "fail", "none"},
           b = "post_commit" => n = 1,
           b # "post_commit" => p \in troubled',
           b = "fail" => kind[p] # "canonical",
           Moves(r, p, b),
           Turns(p, row[p].status),
           Says(p, {})
    PROVE  ProposalInv(p)'
<1>s. row'[p].status = row[p].status
  BY DEF Turns
<1>m. \A x \in Request : At(x, p)' = IF x = r THEN b ELSE At(x, p)
  BY DEF Moves
<1>w. /\ Recorded(p, "approve")' <=> Recorded(p, "approve")
      /\ Recorded(p, "reject")' <=> Recorded(p, "reject")
      /\ Recorded(p, "withdrawn")' <=> Recorded(p, "withdrawn")
      /\ Recorded(p, "success")' <=> Recorded(p, "success")
      /\ Recorded(p, "failed")' <=> Recorded(p, "failed")
      /\ OthersApproval(p) => OthersApproval(p)'
  BY SaysHere
<1>f. kind' = kind /\ proposing' = proposing /\ (p \in troubled => p \in troubled')
  BY DEF Alone, Fixed, Troubles
<1>1. RowInv(p)'
  BY <1>s, <1>w, <1>f DEF ProposalInv, RowInv, WorkerInv, Applying
<1>2. WorkerInv(p)'
  BY <1>s, <1>m, <1>w DEF ProposalInv, RowInv, WorkerInv, Applying
<1>3. GraphInv(p)'
  BY <1>s, <1>m, <1>w, <1>f DEF ProposalInv, RowInv, WorkerInv, GraphInv, Applying
<1> QED
  BY <1>1, <1>2, <1>3 DEF ProposalInv

\* The worker announces that the changeset failed.
LEMMA LocalFail ==
    ASSUME NEW p \in Proposal, NEW r \in Request, ProposalInv(p), Alone, Troubles(p),
           UNCHANGED graph,
           NEW b, \/ At(r, p) = "claim" /\ b = "none"
                  \/ At(r, p) = "fail" /\ b = "revert",
           Moves(r, p, b),
           Turns(p, row[p].status),
           Says(p, {"failed"})
    PROVE  ProposalInv(p)'
<1>s. row'[p].status = row[p].status
  BY DEF Turns
<1>m. \A x \in Request : At(x, p)' = IF x = r THEN b ELSE At(x, p)
  BY DEF Moves
<1>w. /\ Recorded(p, "approve")' <=> Recorded(p, "approve")
      /\ Recorded(p, "reject")' <=> Recorded(p, "reject")
      /\ Recorded(p, "withdrawn")' <=> Recorded(p, "withdrawn")
      /\ Recorded(p, "success")' <=> Recorded(p, "success")
      /\ Recorded(p, "failed")'
      /\ OthersApproval(p) => OthersApproval(p)'
  BY SaysHere
<1>f. kind' = kind /\ proposing' = proposing /\ (p \in troubled => p \in troubled')
  BY DEF Alone, Fixed, Troubles
<1>1. RowInv(p)'
  BY <1>s, <1>w, <1>f DEF ProposalInv, RowInv, WorkerInv, Applying
<1>2. WorkerInv(p)'
  BY <1>s, <1>m, <1>w DEF ProposalInv, RowInv, WorkerInv, Applying
<1>3. GraphInv(p)'
  BY <1>s, <1>m, <1>w, <1>f DEF ProposalInv, RowInv, WorkerInv, GraphInv, Applying
<1> QED
  BY <1>1, <1>2, <1>3 DEF ProposalInv

\* The worker settles the row as applied.
LEMMA LocalSuccess ==
    ASSUME NEW p \in Proposal, NEW r \in Request, ProposalInv(p), Alone, Troubles(p),
           UNCHANGED graph,
           At(r, p) = "finalize",
           Moves(r, p, "none"),
           Turns(p, "applied"),
           Says(p, {"success"})
    PROVE  ProposalInv(p)'
<1>s. row'[p].status = "applied"
  BY DEF Turns
<1>m. \A x \in Request : At(x, p)' = IF x = r THEN "none" ELSE At(x, p)
  BY DEF Moves
<1>w. /\ Recorded(p, "approve")' <=> Recorded(p, "approve")
      /\ Recorded(p, "reject")' <=> Recorded(p, "reject")
      /\ Recorded(p, "withdrawn")' <=> Recorded(p, "withdrawn")
      /\ Recorded(p, "success")'
      /\ Recorded(p, "failed")' <=> Recorded(p, "failed")
      /\ OthersApproval(p) => OthersApproval(p)'
  BY SaysHere
<1>f. kind' = kind /\ proposing' = proposing /\ (p \in troubled => p \in troubled')
  BY DEF Alone, Fixed, Troubles
<1>1. RowInv(p)'
  BY <1>s, <1>w, <1>f DEF ProposalInv, RowInv, WorkerInv, Applying
<1>2. WorkerInv(p)'
  BY <1>s, <1>m, <1>w DEF ProposalInv, RowInv, WorkerInv, Applying
<1>3. GraphInv(p)'
  BY <1>s, <1>m, <1>w, <1>f DEF ProposalInv, RowInv, WorkerInv, GraphInv, Applying
<1> QED
  BY <1>1, <1>2, <1>3 DEF ProposalInv

\* The worker gives the claim back.
LEMMA LocalRevert ==
    ASSUME NEW p \in Proposal, NEW r \in Request, ProposalInv(p), Alone, Troubles(p),
           UNCHANGED graph,
           At(r, p) = "revert",
           Moves(r, p, "none"),
           Turns(p, "approved"),
           Says(p, {})
    PROVE  ProposalInv(p)'
<1>s. row'[p].status = "approved"
  BY DEF Turns
<1>m. \A x \in Request : At(x, p)' = IF x = r THEN "none" ELSE At(x, p)
  BY DEF Moves
<1>w. /\ Recorded(p, "approve")' <=> Recorded(p, "approve")
      /\ Recorded(p, "reject")' <=> Recorded(p, "reject")
      /\ Recorded(p, "withdrawn")' <=> Recorded(p, "withdrawn")
      /\ Recorded(p, "success")' <=> Recorded(p, "success")
      /\ Recorded(p, "failed")' <=> Recorded(p, "failed")
      /\ OthersApproval(p) => OthersApproval(p)'
  BY SaysHere
<1>f. kind' = kind /\ proposing' = proposing /\ (p \in troubled => p \in troubled')
  BY DEF Alone, Fixed, Troubles
<1>1. RowInv(p)'
  BY <1>s, <1>w, <1>f DEF ProposalInv, RowInv, WorkerInv, Applying
<1>2. WorkerInv(p)'
  BY <1>s, <1>m, <1>w DEF ProposalInv, RowInv, WorkerInv, Applying
<1>3. GraphInv(p)'
  BY <1>s, <1>m, <1>w, <1>f DEF ProposalInv, RowInv, WorkerInv, GraphInv, Applying
<1> QED
  BY <1>1, <1>2, <1>3 DEF ProposalInv

-----------------------------------------------------------------------------
(* The steps of a request.                                                 *)

LEMMA ReviewStep ==
    ASSUME IInv, NEW r \in Request, ReviewRecords(r)
    PROVE  IInv'
<1>1. TypeInv /\ req[r].at = "record" /\ \A q \in Proposal : ProposalInv(q)
  BY DEF IInv, ReviewRecords
<1>2. req[r] \in Reviewing /\ req[r].p \in Proposal
  BY <1>1, ReviewRecord DEF Reviewing
<1>3. req[r].decision = "approve" =>
        req[r].actor # proposer[req[r].p] \/ req[r].actor = Local
  BY <1>1 DEF IInv, EntitledInv
<1>4. PICK p \in Proposal, d \in Decisions :
        /\ Later(r, p) /\ At(r, p) = "none" /\ UNCHANGED graph
        /\ \/ /\ d = "comment" \/ PendingReview(row[p].status)
              /\ Turns(p, DecidedStatus(row[p].status, d)) /\ Says(p, {d})
              /\ d = "approve" => Approved(p)
              /\ Moves(r, p, "none") \/ (d = "approve" /\ Moves(r, p, "check"))
           \/ /\ Turns(p, row[p].status) /\ Says(p, {}) /\ Moves(r, p, "none")
  <2>1. At(r, req[r].p) = "none"
    BY <1>1 DEF At, Working, Applying
  <2> QED
    BY <1>1, <1>2, <1>3, <2>1, ReviewRecordsView
<1>5. Alone /\ Troubles(p) /\ ProposalInv(p) /\ row[p].status \in Statuses
  BY <1>1, <1>4 DEF Later, TypeInv, Rows
<1>6. CASE Turns(p, row[p].status) /\ Says(p, {}) /\ Moves(r, p, "none")
  <2>1. ProposalInv(p)'
    BY <1>4, <1>5, <1>6, LocalQuiet DEF Applying
  <2> QED
    BY <1>4, <1>6, <2>1, OnlyHere
<1>7. ASSUME d = "comment" \/ PendingReview(row[p].status),
             Turns(p, DecidedStatus(row[p].status, d)), Says(p, {d}),
             d = "approve" => Approved(p),
             NEW b \in {"none", "check"}, Moves(r, p, b), b = "check" => d = "approve"
      PROVE  IInv'
  <2>1. ProposalInv(p)'
    BY <1>4, <1>5, <1>7, LocalReview
  <2> QED
    BY <1>4, <1>7, <2>1, OnlyHere
<1> QED
  BY <1>4, <1>6, <1>7

LEMMA WithdrawStep ==
    ASSUME IInv, NEW r \in Request, WithdrawRecords(r)
    PROVE  IInv'
<1>1. TypeInv /\ req[r].at = "withdraw" /\ \A q \in Proposal : ProposalInv(q)
  BY DEF IInv, WithdrawRecords
<1>2. PICK p \in Proposal :
        /\ Later(r, p) /\ At(r, p) = "none" /\ Moves(r, p, "none") /\ UNCHANGED graph
        /\ \/ /\ MayWithdraw(row[p].status)
              /\ Turns(p, "withdrawn") /\ Says(p, {"withdrawn"})
           \/ Turns(p, row[p].status) /\ Says(p, {})
  <2>1. At(r, req[r].p) = "none" /\ req[r].p \in Proposal
    BY <1>1, ReviewRecord DEF At, Working, Applying, Withdrawing
  <2> QED
    BY <1>1, <2>1, WithdrawRecordsView
<1>3. Alone /\ Troubles(p) /\ ProposalInv(p) /\ row[p].status \in Statuses
  BY <1>1, <1>2 DEF Later, TypeInv, Rows
<1>4. CASE Turns(p, row[p].status) /\ Says(p, {})
  <2>1. ProposalInv(p)'
    BY <1>2, <1>3, <1>4, LocalQuiet DEF Applying
  <2> QED
    BY <1>2, <1>4, <2>1, OnlyHere
<1>5. CASE MayWithdraw(row[p].status) /\ Turns(p, "withdrawn") /\ Says(p, {"withdrawn"})
  <2>1. ProposalInv(p)'
    BY <1>2, <1>3, <1>5, LocalWithdraw
  <2> QED
    BY <1>2, <1>5, <2>1, OnlyHere
<1> QED
  BY <1>2, <1>4, <1>5

\* A step of the worker that writes neither the row, the log nor the graph, from
\* where it is to b.
LEMMA QuietStep ==
    ASSUME IInv, NEW r \in Request, req[r].at \in Working,
           UNCHANGED <<kind, proposer, proposing, row, log, graph>>,
           Troubles(req[r].p), NEW b \in Working \cup {"none"},
           b = "none" => Ends(r), b # "none" => Goes(r, b),
           req[r].at \in {"check", "claim"} => b \in {"claim", "none"},
           req[r].at \in {"post_commit", "finalize"} => b \in {"finalize", "none"},
           req[r].at \in Applying /\ b = "none" =>
             req[r].p \in troubled' \/ req[r].at = "post_commit",
           req[r].at \in {"apply", "fail", "revert"} => b \in {"fail", "revert", "none"}
    PROVE  IInv'
<1>1. TypeInv /\ \A q \in Proposal : ProposalInv(q)
  BY DEF IInv
<1>2. /\ Moves(r, req[r].p, b) /\ req[r].p \in Proposal /\ At(r, req[r].p) = req[r].at
      /\ Ends(r) \/ \E step \in Working : Goes(r, step)
  BY <1>1, WorkerStep
<1>3. Later(r, req[r].p) /\ Turns(req[r].p, row[req[r].p].status) /\ Says(req[r].p, {})
  BY <1>1, <1>2, QuietView
<1>4. PICK p \in Proposal :
        /\ Later(r, p) /\ Turns(p, row[p].status) /\ Says(p, {}) /\ Moves(r, p, b)
        /\ At(r, p) = req[r].at
        /\ req[r].at \in Applying /\ b = "none" => p \in troubled' \/ req[r].at = "post_commit"
  BY <1>2, <1>3
<1>5. Alone /\ Troubles(p) /\ ProposalInv(p)
  BY <1>1, <1>4 DEF Later
<1>6. At(r, p) = "none" => b = "none"
  BY <1>4 DEF Working, Applying
<1>7. ProposalInv(p)'
  BY <1>4, <1>5, <1>6, LocalQuiet
<1> QED
  BY <1>4, <1>7, OnlyHere

LEMMA ApplyChecksStep ==
    ASSUME IInv, NEW r \in Request, ApplyChecks(r) \/ ApplyCheckFails(r)
    PROVE  IInv'
<1>1. /\ req[r].at = "check"
      /\ UNCHANGED <<kind, proposer, proposing, row, log, graph>>
      /\ Troubles(req[r].p)
      /\ Ends(r) \/ Goes(r, "claim")
  BY DEF ApplyChecks, ApplyCheckFails, Troubles
<1>2. CASE Ends(r)
  BY <1>1, <1>2, QuietStep DEF Working, Applying
<1>3. CASE Goes(r, "claim")
  BY <1>1, <1>3, QuietStep DEF Working, Applying
<1> QED
  BY <1>1, <1>2, <1>3

LEMMA RollsBackStep ==
    ASSUME IInv, NEW r \in Request, ApplyRollsBack(r)
    PROVE  IInv'
<1>1. /\ req[r].at = "apply" /\ Goes(r, "fail") /\ Troubles(req[r].p)
      /\ UNCHANGED <<kind, proposer, proposing, row, log, graph>>
  BY DEF ApplyRollsBack, Troubles
<1> QED
  BY <1>1, QuietStep DEF Working, Applying

LEMMA PostCommitStep ==
    ASSUME IInv, NEW r \in Request, PostCommit(r) \/ PostCommitFails(r)
    PROVE  IInv'
<1>1. /\ req[r].at = "post_commit" /\ Troubles(req[r].p)
      /\ UNCHANGED <<kind, proposer, proposing, row, log, graph>>
      /\ Ends(r) \/ Goes(r, "finalize")
  BY DEF PostCommit, PostCommitFails, Troubles
<1>2. CASE Ends(r)
  BY <1>1, <1>2, QuietStep DEF Working, Applying
<1>3. CASE Goes(r, "finalize")
  BY <1>1, <1>3, QuietStep DEF Working, Applying
<1> QED
  BY <1>1, <1>2, <1>3

\* The worker, or the request before it, is given up.
LEMMA GivesUpStep ==
    ASSUME IInv, NEW r \in Request, GivesUp(r)
    PROVE  IInv'
<1>1. /\ TypeInv /\ Ends(r) /\ req[r].at \notin {"idle", "ended"}
      /\ UNCHANGED <<kind, proposer, proposing, row, log, graph>>
      /\ req[r].at \in Working => troubled' = troubled \cup {req[r].p}
      /\ req[r].at \notin Working => troubled' = troubled
  BY DEF IInv, GivesUp, Working
<1>2. CASE req[r].at \in Working
  <2>1. Troubles(req[r].p) /\ req[r].p \in troubled'
    BY <1>1, <1>2 DEF Troubles
  <2> QED
    BY <1>1, <1>2, <2>1, QuietStep DEF Working, Applying
<1>3. CASE req[r].at \notin Working
  <2>1. req[r].at \in {"record", "withdraw"}
    BY <1>1, <1>3 DEF TypeInv, Resting, Withdrawing, Reviewing
  <2>2. req[r].p \in Proposal
    BY <1>1, <2>1, ReviewRecord DEF Reviewing, Withdrawing
  <2>3. Later(r, req[r].p)
    <3>1. Troubles(req[r].p) /\ row' \in [Proposal -> Rows]
          /\ log' \in [Proposal -> Seq(Events)] /\ graph' \in [Proposal -> Nat]
      BY <1>1, <1>3 DEF TypeInv, Troubles
    <3> QED
      BY <1>1, <2>1, <3>1, LaterStep
  <2>4. Moves(r, req[r].p, "none") /\ At(r, req[r].p) = "none"
    <3>1. Moves(r, req[r].p, "none")
      BY <1>1, <1>3, <2>2, EndsMoves
    <3> QED
      BY <1>3, <3>1 DEF At
  <2>5. Says(req[r].p, {}) /\ Turns(req[r].p, row[req[r].p].status)
    BY <1>1, <2>2, LogSays DEF Turns
  <2>6. PICK p \in Proposal :
          /\ Later(r, p) /\ Moves(r, p, "none") /\ At(r, p) = "none"
          /\ Says(p, {}) /\ Turns(p, row[p].status)
    BY <2>2, <2>3, <2>4, <2>5
  <2>7. Alone /\ Troubles(p) /\ ProposalInv(p)
    BY <2>6 DEF Later, IInv
  <2>8. ProposalInv(p)'
    BY <1>1, <2>6, <2>7, LocalQuiet DEF Applying
  <2> QED
    BY <1>1, <2>6, <2>8, OnlyHere
<1> QED
  BY <1>2, <1>3

\* The worker announces a failure, before its claim or after it.
LEMMA AnnounceStep ==
    ASSUME IInv, NEW r \in Request, ApplyRefused(r) \/ EmitApplyFailed(r)
    PROVE  IInv'
<1>1. PICK ack \in Acks, b \in {"none", "revert"} :
        /\ AppendEvent(req[r].p, Event("failed", System), ack) /\ Trouble(req[r].p, ack)
        /\ \/ req[r].at = "claim" /\ b = "none" /\ Ends(r)
           \/ req[r].at = "fail" /\ b = "revert" /\ Goes(r, b)
  BY DEF ApplyRefused, EmitApplyFailed
<1>2. TypeInv /\ UNCHANGED <<kind, proposer, proposing, row, graph>>
  BY DEF IInv, ApplyRefused, EmitApplyFailed
<1>3. req[r].at \in Working /\ "revert" \in Working
  BY <1>1 DEF Working, Applying
<1>4. /\ Moves(r, req[r].p, b) /\ req[r].p \in Proposal /\ At(r, req[r].p) = req[r].at
      /\ Ends(r) \/ \E step \in Working : Goes(r, step)
  BY <1>1, <1>2, <1>3, WorkerStep
<1>5. /\ Later(r, req[r].p) /\ Turns(req[r].p, row[req[r].p].status)
      /\ Says(req[r].p, {}) \/ Says(req[r].p, {"failed"})
  BY <1>1, <1>2, <1>3, <1>4, AnnounceView
<1>6. PICK p \in Proposal :
        /\ Later(r, p) /\ Turns(p, row[p].status) /\ Moves(r, p, b)
        /\ Says(p, {}) \/ Says(p, {"failed"})
        /\ \/ At(r, p) = "claim" /\ b = "none"
           \/ At(r, p) = "fail" /\ b = "revert"
  BY <1>1, <1>4, <1>5
<1>7. Alone /\ Troubles(p) /\ ProposalInv(p)
  BY <1>6 DEF Later, IInv
<1>8. CASE Says(p, {})
  <2>1. b \in Working \cup {"none"}
    BY <1>3
  <2>2. ProposalInv(p)'
    BY <1>2, <1>6, <1>7, <1>8, <2>1, LocalQuiet DEF Applying
  <2> QED
    BY <1>2, <1>6, <1>8, <2>2, OnlyHere
<1>9. CASE Says(p, {"failed"})
  <2>1. ProposalInv(p)'
    BY <1>2, <1>6, <1>7, <1>9, LocalFail
  <2> QED
    BY <1>2, <1>6, <1>9, <2>1, OnlyHere
<1> QED
  BY <1>6, <1>8, <1>9

\* pre_apply_cas.
LEMMA ClaimStep ==
    ASSUME IInv, NEW r \in Request, PreApplyCas(r)
    PROVE  IInv'
<1>1. PICK ack \in Acks :
        /\ ExecuteStatusTransition(req[r].p, row[req[r].p].status = "approved", "applying", ack)
        /\ Trouble(req[r].p, ack)
        /\ IF ack = "ok" /\ row[req[r].p].status = "approved" THEN Goes(r, "apply") ELSE Ends(r)
  BY DEF PreApplyCas
<1>2. TypeInv /\ req[r].at = "claim" /\ UNCHANGED <<kind, proposer, proposing, log, graph>>
  BY DEF IInv, PreApplyCas
<1>3. req[r].at \in Working /\ "apply" \in Working /\ "applying" \in Statuses
  BY <1>2 DEF Working, Applying, Statuses
<1>4. /\ req[r].p \in Proposal /\ At(r, req[r].p) = "claim"
      /\ Ends(r) => Moves(r, req[r].p, "none")
      /\ Goes(r, "apply") => Moves(r, req[r].p, "apply")
  BY <1>2, <1>3, WorkerStep
<1>5. /\ row' = row \/ row' = [row EXCEPT ![req[r].p].status = "applying"]
      /\ Ends(r) \/ \E step \in Working : Goes(r, step)
  BY <1>1, <1>3 DEF ExecuteStatusTransition
<1>6. /\ Later(r, req[r].p) /\ Says(req[r].p, {})
      /\ row' = row => Turns(req[r].p, row[req[r].p].status)
      /\ row' = [row EXCEPT ![req[r].p].status = "applying"] => Turns(req[r].p, "applying")
      /\ ack # "ok" => req[r].p \in troubled'
  BY <1>1, <1>2, <1>3, <1>5, SettleView
<1>7. \/ /\ row[req[r].p].status = "approved" /\ Turns(req[r].p, "applying")
         /\ \E b \in {"apply", "none"} :
              Moves(r, req[r].p, b) /\ (b = "none" => req[r].p \in troubled')
      \/ Turns(req[r].p, row[req[r].p].status) /\ Moves(r, req[r].p, "none")
  <2>1. CASE Landed(ack) /\ row[req[r].p].status = "approved"
    <3>1. Turns(req[r].p, "applying")
      BY <1>1, <1>6, <2>1 DEF ExecuteStatusTransition
    <3>2. \/ Moves(r, req[r].p, "apply")
          \/ Moves(r, req[r].p, "none") /\ req[r].p \in troubled'
      BY <1>1, <1>4, <1>6, <2>1
    <3> QED
      BY <2>1, <3>1, <3>2
  <2>2. CASE ~(Landed(ack) /\ row[req[r].p].status = "approved")
    <3>1. row' = row
      BY <1>1, <2>2 DEF ExecuteStatusTransition
    <3>2. Ends(r)
      BY <1>1, <2>2 DEF Landed
    <3> QED
      BY <1>4, <1>6, <3>1, <3>2
  <2> QED
    BY <2>1, <2>2
<1>8. PICK p \in Proposal :
        /\ Later(r, p) /\ Says(p, {}) /\ At(r, p) = "claim"
        /\ \/ /\ row[p].status = "approved" /\ Turns(p, "applying")
              /\ \E b \in {"apply", "none"} :
                   Moves(r, p, b) /\ (b = "none" => p \in troubled')
           \/ Turns(p, row[p].status) /\ Moves(r, p, "none")
  BY <1>4, <1>6, <1>7
<1>9. Alone /\ Troubles(p) /\ ProposalInv(p)
  BY <1>8 DEF Later, IInv
<1>10. CASE Turns(p, row[p].status) /\ Moves(r, p, "none")
  <2>1. ProposalInv(p)'
    BY <1>2, <1>8, <1>9, <1>10, LocalQuiet DEF Applying
  <2> QED
    BY <1>2, <1>8, <1>10, <2>1, OnlyHere
<1>11. ASSUME row[p].status = "approved", Turns(p, "applying"),
              NEW b \in {"apply", "none"}, Moves(r, p, b), b = "none" => p \in troubled'
       PROVE  IInv'
  <2>1. ProposalInv(p)'
    BY <1>2, <1>8, <1>9, <1>11, LocalClaim
  <2> QED
    BY <1>2, <1>8, <1>11, <2>1, OnlyHere
<1> QED
  BY <1>8, <1>10, <1>11

\* The changeset's own transaction.
LEMMA CommitStep ==
    ASSUME IInv, NEW r \in Request, ApplyCommits(r) \/ ApplyUnknown(r)
    PROVE  IInv'
<1>1. /\ TypeInv /\ req[r].at = "apply" /\ UNCHANGED <<kind, proposer, proposing, row, log>>
      /\ Troubles(req[r].p)
  BY DEF IInv, ApplyCommits, ApplyUnknown, Troubles
<1>2. /\ req[r].at \in Working /\ "post_commit" \in Working /\ "fail" \in Working
      /\ req[r].at \in {"record", "withdraw"} \cup Working /\ req[r].at # "withdraw"
  BY <1>1 DEF Working, Applying
<1>3. /\ req[r].p \in Proposal /\ At(r, req[r].p) = "apply"
      /\ Ends(r) => Moves(r, req[r].p, "none")
      /\ Goes(r, "post_commit") => Moves(r, req[r].p, "post_commit")
      /\ Goes(r, "fail") => Moves(r, req[r].p, "fail")
  BY <1>1, <1>2, WorkerStep
<1>4. PICK n \in {0, 1} :
        /\ graph' = [graph EXCEPT ![req[r].p] = @ + n]
        /\ \/ n = 1 /\ Goes(r, "post_commit")
           \/ /\ req[r].p \in troubled'
              /\ Ends(r) \/ (Goes(r, "fail") /\ kind[req[r].p] # "canonical")
  BY DEF ApplyCommits, ApplyUnknown
<1>5. /\ graph' \in [Proposal -> Nat] /\ graph'[req[r].p] = graph[req[r].p] + n
      /\ \A q \in Proposal \ {req[r].p} : graph'[q] = graph[q]
  BY <1>1, <1>3, <1>4 DEF TypeInv
<1>6. Later(r, req[r].p)
  <2>1. row' \in [Proposal -> Rows] /\ log' \in [Proposal -> Seq(Events)]
    BY <1>1 DEF TypeInv
  <2>2. Ends(r) \/ \E step \in Working : Goes(r, step)
    BY <1>2, <1>4
  <2> QED
    BY <1>1, <1>2, <1>5, <2>1, <2>2, LaterStep
<1>7. Says(req[r].p, {}) /\ Turns(req[r].p, row[req[r].p].status)
  BY <1>1, <1>3, LogSays DEF Turns
<1>8. \E b \in {"post_commit", "fail", "none"} :
        /\ Moves(r, req[r].p, b) /\ (b = "post_commit" => n = 1)
        /\ b # "post_commit" => req[r].p \in troubled'
        /\ b = "fail" => kind[req[r].p] # "canonical"
  BY <1>3, <1>4
<1>9. PICK p \in Proposal :
        /\ Later(r, p) /\ Says(p, {}) /\ Turns(p, row[p].status) /\ At(r, p) = "apply"
        /\ graph'[p] = graph[p] + n /\ \A q \in Proposal \ {p} : graph'[q] = graph[q]
        /\ \E b \in {"post_commit", "fail", "none"} :
             /\ Moves(r, p, b) /\ (b = "post_commit" => n = 1)
             /\ b # "post_commit" => p \in troubled'
             /\ b = "fail" => kind[p] # "canonical"
  BY <1>3, <1>5, <1>6, <1>7, <1>8
<1>10. Alone /\ Troubles(p) /\ ProposalInv(p)
  BY <1>9 DEF Later, IInv
<1>11. PICK b \in {"post_commit", "fail", "none"} :
         /\ Moves(r, p, b) /\ (b = "post_commit" => n = 1)
         /\ b # "post_commit" => p \in troubled'
         /\ b = "fail" => kind[p] # "canonical"
  BY <1>9
<1>12. ProposalInv(p)'
  BY <1>9, <1>10, <1>11, LocalCommit
<1> QED
  BY <1>9, <1>11, <1>12, OnlyHere

LEMMA FinalizeStep ==
    ASSUME IInv, NEW r \in Request, FinalizeApplySuccess(r)
    PROVE  IInv'
<1>1. TypeInv /\ req[r].at = "finalize"
  BY DEF IInv, FinalizeApplySuccess
<1>2. req[r].p \in Proposal
  BY <1>1, WorkerStep DEF Working, Applying
<1>3. PICK p \in Proposal :
        /\ Later(r, p) /\ Moves(r, p, "none") /\ UNCHANGED graph
        /\ At(r, p) = "finalize"
        /\ \/ row[p].status = "applying" /\ Turns(p, "applied") /\ Says(p, {"success"})
           \/ /\ Turns(p, row[p].status) /\ Says(p, {})
              /\ p \in troubled' \/ row[p].status # "applying"
  BY <1>1, <1>2, FinalizeView
<1>4. Alone /\ Troubles(p) /\ ProposalInv(p)
  BY <1>3 DEF Later, IInv
<1>5. row[p].status = "applying"
  BY <1>3, <1>4 DEF ProposalInv, WorkerInv, Applying
<1>6. CASE Turns(p, "applied") /\ Says(p, {"success"})
  <2>1. ProposalInv(p)'
    BY <1>3, <1>4, <1>6, LocalSuccess
  <2> QED
    BY <1>3, <1>6, <2>1, OnlyHere
<1>7. CASE Turns(p, row[p].status) /\ Says(p, {}) /\ p \in troubled'
  <2>1. ProposalInv(p)'
    BY <1>3, <1>4, <1>7, LocalQuiet DEF Applying
  <2> QED
    BY <1>3, <1>7, <2>1, OnlyHere
<1> QED
  BY <1>3, <1>5, <1>6, <1>7

LEMMA RevertStep ==
    ASSUME IInv, NEW r \in Request, RevertApplyingToApproved(r)
    PROVE  IInv'
<1>1. PICK ack \in Acks :
        /\ ExecuteStatusTransition(req[r].p, row[req[r].p].status = "applying", "approved", ack)
        /\ Trouble(req[r].p, ack)
  BY DEF RevertApplyingToApproved
<1>2. /\ TypeInv /\ req[r].at = "revert" /\ Ends(r)
      /\ UNCHANGED <<kind, proposer, proposing, log, graph>>
  BY DEF IInv, RevertApplyingToApproved
<1>3. req[r].at \in Working /\ "approved" \in Statuses
  BY <1>2 DEF Working, Applying, Statuses
<1>4. req[r].p \in Proposal /\ At(r, req[r].p) = "revert" /\ Moves(r, req[r].p, "none")
  BY <1>2, <1>3, WorkerStep
<1>5. row[req[r].p].status = "applying"
  BY <1>4 DEF IInv, ProposalInv, WorkerInv, Applying
<1>6. row' = row \/ row' = [row EXCEPT ![req[r].p].status = "approved"]
  BY <1>1 DEF ExecuteStatusTransition
<1>7. /\ Later(r, req[r].p) /\ Says(req[r].p, {})
      /\ row' = row => Turns(req[r].p, row[req[r].p].status)
      /\ row' = [row EXCEPT ![req[r].p].status = "approved"] => Turns(req[r].p, "approved")
      /\ ack # "ok" => req[r].p \in troubled'
  BY <1>1, <1>2, <1>3, <1>6, SettleView
<1>8. \/ Turns(req[r].p, "approved")
      \/ Turns(req[r].p, row[req[r].p].status) /\ req[r].p \in troubled'
  BY <1>1, <1>5, <1>7 DEF ExecuteStatusTransition, Landed
<1>9. PICK p \in Proposal :
        /\ Later(r, p) /\ Says(p, {}) /\ Moves(r, p, "none") /\ At(r, p) = "revert"
        /\ Turns(p, "approved") \/ (Turns(p, row[p].status) /\ p \in troubled')
  BY <1>4, <1>7, <1>8
<1>10. Alone /\ Troubles(p) /\ ProposalInv(p)
  BY <1>9 DEF Later, IInv
<1>11. CASE Turns(p, "approved")
  <2>1. ProposalInv(p)'
    BY <1>2, <1>9, <1>10, <1>11, LocalRevert
  <2> QED
    BY <1>2, <1>9, <1>11, <2>1, OnlyHere
<1>12. CASE Turns(p, row[p].status) /\ p \in troubled'
  <2>1. ProposalInv(p)'
    BY <1>2, <1>9, <1>10, <1>12, LocalQuiet DEF Applying
  <2> QED
    BY <1>2, <1>9, <1>12, <2>1, OnlyHere
<1> QED
  BY <1>9, <1>11, <1>12

LEMMA IInvPreserved == IInv /\ [Next]_vars => IInv'
<1> SUFFICES ASSUME IInv, [Next]_vars PROVE IInv'
  OBVIOUS
<1>1. CASE UNCHANGED vars
  <2>1. TypeInv' /\ EntitledInv'
    BY <1>1 DEF vars, IInv, TypeInv, EntitledInv
  <2>2. ASSUME NEW p \in Proposal PROVE ProposalInv(p)'
    <3>1. ProposalInv(p)
      BY DEF IInv
    <3>2. RowInv(p)'
      BY <1>1, <3>1 DEF vars, ProposalInv, RowInv, Recorded, OthersApproval, At
    <3>3. WorkerInv(p)'
      BY <1>1, <3>1 DEF vars, ProposalInv, WorkerInv, Recorded, OthersApproval, At
    <3>4. GraphInv(p)'
      BY <1>1, <3>1 DEF vars, ProposalInv, GraphInv, Recorded, OthersApproval, At
    <3> QED
      BY <3>2, <3>3, <3>4 DEF ProposalInv
  <2> QED
    BY <2>1, <2>2 DEF IInv
<1>2. ASSUME NEW p \in Proposal,
             ProposeLogs(p) \/ OnProposalCreated(p) \/ ProposeGivesUp(p)
      PROVE  IInv'
  BY <1>2, ProposeStep
<1>3. ASSUME NEW r \in Request, Starts(r) PROVE IInv'
  BY <1>3, StartsStep
<1>4. ASSUME NEW r \in Request, Continues(r) PROVE IInv'
  BY <1>4, ReviewStep, WithdrawStep, ApplyChecksStep, AnnounceStep, ClaimStep, RollsBackStep,
     CommitStep, PostCommitStep, FinalizeStep, RevertStep DEF Continues
<1>5. ASSUME NEW r \in Request, GivesUp(r) PROVE IInv'
  BY <1>5, GivesUpStep
<1>6. CASE ProposalCleanup
  BY <1>6, CleanupStep
<1> QED
  BY <1>1, <1>2, <1>3, <1>4, <1>5, <1>6 DEF Next

LEMMA Invariance == Spec => []IInv
<1> QED
  BY InitIInv, IInvPreserved, PTL DEF Spec

-----------------------------------------------------------------------------
(* The theorems.                                                           *)

\* Every field keeps its type: a row has a known status and counts, an event an
\* author, a request one of the steps of handle_review and handle_withdraw.
THEOREM TypeCorrect == Spec => []TypeOK
<1>1. ASSUME IInv PROVE TypeOK
  <2>1. TypeInv
    BY <1>1 DEF IInv
  <2>2. \A p \in Proposal : /\ row[p].status \in Statuses
                            /\ row[p].approvals \in Nat /\ row[p].rejections \in Nat
    BY <2>1 DEF TypeInv, Rows
  <2>3. \A p \in Proposal : row[p].archived \in BOOLEAN
    BY <2>1, ZenonT(30) DEF TypeInv, Rows
  <2>4. ASSUME NEW p \in Proposal, NEW i \in DOMAIN log[p]
        PROVE  log[p][i].by \in Actor \cup {System}
    <3>1. log[p] \in Seq(Events)
      BY <2>1 DEF TypeInv
    <3>2. log[p][i] \in Events
      BY <3>1, LenProperties, ElementOfSeq
    <3> QED
      BY <3>2 DEF Events
  <2>5. \A r \in Request : req[r].at \in Steps
    BY <2>1 DEF TypeInv, Resting, Withdrawing, Reviewing, Working, Steps
  <2> QED
    BY <2>1, <2>2, <2>3, <2>4, <2>5 DEF TypeInv, TypeOK
<1> QED
  BY <1>1, Invariance, PTL

\* maybe_apply and mark_applying: whatever requests race, are given up or lose an
\* acknowledgement, the graph takes a changeset at most once, after an approval
\* by somebody entitled to it and never after a rejection, and what the log
\* announces agrees with what the graph holds.
THEOREM GraphFollows == Spec => []GraphFollowsVerdict
<1>1. ASSUME IInv PROVE GraphFollowsVerdict
  BY <1>1 DEF IInv, ProposalInv, RowInv, GraphInv, GraphFollowsVerdict
<1> QED
  BY <1>1, Invariance, PTL

\* pre_apply_cas and revert_applying_to_approved: at most one apply worker holds a
\* row, the row stays applying for as long as it does, and a row left applying
\* by nobody is a committed changeset waiting for reconciliation, unless a
\* store call or a request was lost on the way.
THEOREM ClaimsAccounted == Spec => []ClaimIsAccounted
<1>1. ASSUME IInv PROVE ClaimIsAccounted
  <2> SUFFICES ASSUME NEW p \in Proposal
               PROVE  /\ Cardinality(Holders(p)) <= 1
                      /\ Holders(p) # {} => row[p].status = "applying"
                      /\ row[p].status = "applying" /\ Holders(p) = {} =>
                           Reconcilable(p) \/ p \in troubled
    BY DEF ClaimIsAccounted
  <2>1. RowInv(p) /\ WorkerInv(p) /\ GraphInv(p)
    BY <1>1 DEF IInv, ProposalInv
  <2>2. \A r \in Request : r \in Holders(p) <=> At(r, p) \in Applying
    BY DEF Holders, At, Working, Applying
  <2>3. \A r, s \in Holders(p) : r = s
    BY <2>1, <2>2 DEF WorkerInv, Applying, Holders
  <2>4. Cardinality(Holders(p)) <= 1
    <3>1. CASE Holders(p) = {}
      BY <3>1, FS_EmptySet
    <3>2. CASE Holders(p) # {}
      <4>1. PICK r : Holders(p) = {r}
        BY <2>3, <3>2
      <4> QED
        BY <4>1, FS_Singleton
    <3> QED
      BY <3>1, <3>2
  <2>5. Holders(p) # {} => row[p].status = "applying"
    BY <2>1, <2>2 DEF WorkerInv, Holders
  <2>6. ASSUME row[p].status = "applying", Holders(p) = {}, p \notin troubled
        PROVE  Reconcilable(p)
    <3>1. \A r \in Request : At(r, p) \notin Applying
      BY <2>2, <2>6
    <3>2. graph[p] = 1
      BY <2>1, <2>6, <3>1 DEF GraphInv
    <3>3. ~Recorded(p, "failed") /\ ~Recorded(p, "success")
      BY <2>1, <2>6, <3>2 DEF GraphInv, RowInv
    <3> QED
      BY <2>6, <3>2, <3>3 DEF Reconcilable
  <2> QED
    BY <2>4, <2>5, <2>6
<1> QED
  BY <1>1, Invariance, PTL

\* No two verdicts that exclude each other are in the log of a proposal, however
\* its reviews, its withdrawal and the apply worker interleave, and the worker
\* answers only an approval.  (PendingReview, MayWithdraw: the guards of the
\* updates in proposals_open)
Verdicts ==
    \A p \in Proposal :
        /\ ~(Recorded(p, "approve") /\ Recorded(p, "reject"))
        /\ ~(Recorded(p, "withdrawn") /\ Recorded(p, "reject"))
        /\ ~(Recorded(p, "withdrawn") /\ Recorded(p, "success"))
        /\ Recorded(p, "success") \/ Recorded(p, "failed") => Recorded(p, "approve")

\* reviewed_and_emit, withdrawn_and_emit and applied_and_emit: the event and the
\* row change in one transaction, so that the log never contradicts itself.
THEOREM LogIsConsistent == Spec => []Verdicts
<1>1. ASSUME IInv PROVE Verdicts
  BY <1>1 DEF IInv, ProposalInv, RowInv, Verdicts
<1> QED
  BY <1>1, Invariance, PTL
=============================================================================
