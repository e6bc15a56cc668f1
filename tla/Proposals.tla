----------------------------- MODULE Proposals ------------------------------
(***************************************************************************)
(* Proposals of the kg pack: the event log of a proposal, its row in       *)
(* proposals_open, and the changeset it asks the graph to take.            *)
(*                                                                         *)
(* propose, review and withdraw are requests that read the row, and later  *)
(* write it with a compare-and-set whose transaction also inserts the      *)
(* event.  The review that approves goes on as the apply worker: it claims *)
(* the row, commits the changeset in a transaction of its own, and settles *)
(* the row in a third.  Requests run at once and may be given up between   *)
(* any two steps, by a caller that goes away or a process that dies.       *)
(*                                                                         *)
(* Every store call is acknowledged, refused with nothing written, or      *)
(* lost: written although the caller is told of an error.                  *)
(***************************************************************************)
EXTENDS Naturals, Sequences, SequencesExt, FiniteSets

CONSTANTS
    Proposal, Request,
    Actor, Local,  \* the actors; Local may approve its own proposals
    System         \* the apply worker, as the author of events

ASSUME LocalAssumption == Local \in Actor

VARIABLES
    kind,          \* how the changeset is applied
    proposer,
    proposing,     \* how far the propose request is
    row,           \* the row of proposals_open
    log,           \* the events of the proposal's aggregate
    graph,         \* how often the changeset was committed
    req,           \* what each review or withdraw request is about to do
    troubled       \* proposals whose approval or apply a store call failed for,
                   \* or was given up

vars == <<kind, proposer, proposing, row, log, graph, req, troubled>>

Decisions == {"approve", "reject", "comment", "request_changes"}
Acks == {"ok", "refused", "lost"}
Landed(ack) == ack # "refused"

\* The steps of the apply worker that have claimed the row.
Applying == {"apply", "post_commit", "finalize", "fail", "revert"}
Steps == {"idle", "record", "withdraw", "check", "claim", "ended"} \cup Applying
Statuses == {"none", "open", "changes_requested", "approved", "rejected", "withdrawn",
             "applying", "applied"}

NoRow == [status |-> "none", approvals |-> 0, rejections |-> 0, archived |-> FALSE]
Event(what, by) == [what |-> what, by |-> by]
Ended == [at |-> "ended"]

TypeOK ==
    /\ kind \in [Proposal -> {"canonical", "atomic", "merge"}]
    /\ proposer \in [Proposal -> Actor]
    /\ proposing \in [Proposal -> {"new", "logged", "ended"}]
    /\ \A p \in Proposal : /\ row[p].status \in Statuses
                           /\ row[p].approvals \in Nat /\ row[p].rejections \in Nat
                           /\ row[p].archived \in BOOLEAN
    /\ \A p \in Proposal : \A i \in DOMAIN log[p] : log[p][i].by \in Actor \cup {System}
    /\ graph \in [Proposal -> Nat]
    /\ \A r \in Request : req[r].at \in Steps
    /\ troubled \subseteq Proposal

Init ==
    /\ kind \in [Proposal -> {"canonical", "atomic", "merge"}]
    /\ proposer \in [Proposal -> Actor]
    /\ proposing = [p \in Proposal |-> "new"]
    /\ row = [p \in Proposal |-> NoRow]
    /\ log = [p \in Proposal |-> <<>>]
    /\ graph = [p \in Proposal |-> 0]
    /\ req = [r \in Request |-> [at |-> "idle"]]
    /\ troubled = {}

-----------------------------------------------------------------------------
(* Store calls.                                                            *)

Emit(p, e) == log' = [log EXCEPT ![p] = Append(@, e)]

Trouble(p, ack) == troubled' = IF ack = "ok" THEN troubled ELSE troubled \cup {p}

\* append_event, a write of its own.
AppendEvent(p, e, ack) == IF Landed(ack) THEN Emit(p, e) ELSE UNCHANGED log

\* Fault: the event is inserted whether or not the row was changed.
ExecuteGuardedEventAlways(p, hit, new, e, ack) ==
    /\ IF Landed(ack) THEN Emit(p, e) ELSE UNCHANGED log
    /\ row' = IF Landed(ack) /\ hit THEN [row EXCEPT ![p] = new] ELSE row

\* The update and the event are one transaction, the event conditional on
\* the update having changed a row.
ExecuteGuardedEvent(p, hit, new, e, ack) ==
    IF Landed(ack) /\ hit
    THEN row' = [row EXCEPT ![p] = new] /\ Emit(p, e)
    ELSE UNCHANGED <<row, log>>

\* An update of the status alone.
ExecuteStatusTransition(p, hit, status, ack) ==
    row' = IF Landed(ack) /\ hit THEN [row EXCEPT ![p].status = status] ELSE row

\* Fault: a withdrawal may land while the changeset is being applied.
MayWithdrawApplying(s) == s \notin {"applied", "withdrawn", "rejected", "none"}

\* The statuses the guard of each update lets pass.
PendingReview(s) == s \notin {"applied", "applying", "withdrawn", "rejected", "approved", "none"}
MayWithdraw(s) == s \notin {"applied", "applying", "withdrawn", "rejected", "none"}

Goes(r, step) == req' = [req EXCEPT ![r].at = step]
Ends(r) == req' = [req EXCEPT ![r] = Ended]

-----------------------------------------------------------------------------
(* propose: the event first, the row after it.                             *)

ProposeLogs(p) ==
    /\ proposing[p] = "new"
    /\ \E ack \in Acks :
         /\ AppendEvent(p, Event("created", proposer[p]), ack)
         /\ proposing' = [proposing EXCEPT ![p] = IF ack = "ok" THEN "logged" ELSE "ended"]
    /\ UNCHANGED <<kind, proposer, row, graph, req, troubled>>

OnProposalCreated(p) ==
    /\ proposing[p] = "logged"
    /\ \E ack \in Acks : ExecuteStatusTransition(p, TRUE, "open", ack)
    /\ proposing' = [proposing EXCEPT ![p] = "ended"]
    /\ UNCHANGED <<kind, proposer, log, graph, req, troubled>>

-----------------------------------------------------------------------------
(* review and withdraw.                                                    *)

\* The row as the review reads it; the update checks the status again.
ReviewAdmits(p, actor, decision) ==
    /\ row[p].status \notin {"applied", "withdrawn", "rejected", "approved", "none"}
    /\ ~(decision = "approve" /\ actor = proposer[p] /\ actor # Local)

WithdrawAdmits(p, actor) ==
    /\ row[p].status \notin {"applied", "withdrawn", "applying", "none"}
    /\ actor = proposer[p]

\* A read that fails, or that finds a row the request is refused for.
Refuses(r) ==
    /\ req[r].at = "idle"
    /\ Ends(r)
    /\ UNCHANGED <<kind, proposer, proposing, row, log, graph, troubled>>

ReviewReads(r, p, actor, decision) ==
    /\ req[r].at = "idle"
    /\ ReviewAdmits(p, actor, decision)
    /\ req' = [req EXCEPT ![r] = [at |-> "record", p |-> p, actor |-> actor,
                                  decision |-> decision]]
    /\ UNCHANGED <<kind, proposer, proposing, row, log, graph, troubled>>

WithdrawReads(r, p, actor) ==
    /\ req[r].at = "idle"
    /\ WithdrawAdmits(p, actor)
    /\ req' = [req EXCEPT ![r] = [at |-> "withdraw", p |-> p, actor |-> actor]]
    /\ UNCHANGED <<kind, proposer, proposing, row, log, graph, troubled>>

\* What a decision does to the row: comments change neither status nor counts.
ReviewDecisionEffect(old, decision) ==
    CASE decision = "approve" -> [old EXCEPT !.status = "approved", !.approvals = @ + 1]
      [] decision = "reject" -> [old EXCEPT !.status = "rejected", !.rejections = @ + 1]
      [] decision = "request_changes" -> [old EXCEPT !.status = "changes_requested"]
      [] decision = "comment" -> old

\* reviewed_and_emit; an approval that was recorded goes on to apply.
ReviewRecords(r) ==
    LET p == req[r].p
        decision == req[r].decision
        hit == decision = "comment" \/ PendingReview(row[p].status)
    IN
    /\ req[r].at = "record"
    /\ \E ack \in Acks :
         /\ ExecuteGuardedEvent(p, hit, ReviewDecisionEffect(row[p], decision),
                                Event(decision, req[r].actor), ack)
         /\ IF decision = "approve" /\ hit
            THEN /\ IF ack = "ok" THEN Goes(r, "check") ELSE Ends(r)
                 /\ Trouble(p, ack)
            ELSE Ends(r) /\ UNCHANGED troubled
    /\ UNCHANGED <<kind, proposer, proposing, graph>>

WithdrawRecords(r) ==
    LET p == req[r].p IN
    /\ req[r].at = "withdraw"
    /\ \E ack \in Acks :
         ExecuteGuardedEvent(p, MayWithdraw(row[p].status), [row[p] EXCEPT !.status = "withdrawn"],
                             Event("withdrawn", req[r].actor), ack)
    /\ Ends(r)
    /\ UNCHANGED <<kind, proposer, proposing, graph, troubled>>

\* proposal_cleanup archives what was resolved before its cutoff.
ProposalCleanup ==
    \E old \in SUBSET {p \in Proposal : row[p].status \in {"applied", "rejected"}} :
        /\ row' = [p \in Proposal |-> IF p \in old THEN [row[p] EXCEPT !.archived = TRUE]
                                                   ELSE row[p]]
        /\ UNCHANGED <<kind, proposer, proposing, log, graph, req, troubled>>

-----------------------------------------------------------------------------
(* maybe_apply, run by the review that approved.                           *)

\* The row is read again: withdrawn meanwhile, it is left alone.
ApplyChecks(r) ==
    /\ req[r].at = "check"
    /\ IF row[req[r].p].status = "approved" /\ row[req[r].p].rejections = 0
       THEN Goes(r, "claim")
       ELSE Ends(r)
    /\ UNCHANGED <<kind, proposer, proposing, row, log, graph, troubled>>

\* get_proposal_row fails: the review is answered with the error.
ApplyCheckFails(r) ==
    /\ req[r].at = "check"
    /\ troubled' = troubled \cup {req[r].p}
    /\ Ends(r)
    /\ UNCHANGED <<kind, proposer, proposing, row, log, graph>>

\* Fault: the worker leaves without a trace.
ApplyRefusedSilently(r) ==
    /\ req[r].at = "claim"
    /\ Ends(r)
    /\ UNCHANGED <<kind, proposer, proposing, row, log, graph, troubled>>

\* The changeset cannot be loaded, is no longer valid, or is over the budget.
ApplyRefused(r) ==
    /\ req[r].at = "claim"
    /\ \E ack \in Acks : /\ AppendEvent(req[r].p, Event("failed", System), ack)
                         /\ Trouble(req[r].p, ack)
    /\ Ends(r)
    /\ UNCHANGED <<kind, proposer, proposing, row, graph>>

\* Fault: the claim takes any row that is still undecided.
PreApplyCasAnyStatus(r) ==
    LET p == req[r].p IN
    /\ req[r].at = "claim"
    /\ \E ack \in Acks :
         /\ ExecuteStatusTransition(p, TRUE, "applying", ack)
         /\ Trouble(p, ack)
         /\ IF ack = "ok" THEN Goes(r, "apply") ELSE Ends(r)
    /\ UNCHANGED <<kind, proposer, proposing, log, graph>>

\* approved to applying; a miss means that it was withdrawn.
PreApplyCas(r) ==
    LET p == req[r].p
        hit == row[p].status = "approved"
    IN
    /\ req[r].at = "claim"
    /\ \E ack \in Acks :
         /\ ExecuteStatusTransition(p, hit, "applying", ack)
         /\ Trouble(p, ack)
         /\ IF ack = "ok" /\ hit THEN Goes(r, "apply") ELSE Ends(r)
    /\ UNCHANGED <<kind, proposer, proposing, log, graph>>

\* Fails to decode, to authorize or to prepare, or is refused in the transaction.
ApplyRollsBack(r) ==
    /\ req[r].at = "apply"
    /\ Goes(r, "fail")
    /\ UNCHANGED <<kind, proposer, proposing, row, log, graph, troubled>>

ApplyCommits(r) ==
    /\ req[r].at = "apply"
    /\ graph' = [graph EXCEPT ![req[r].p] = @ + 1]
    /\ Goes(r, "post_commit")
    /\ UNCHANGED <<kind, proposer, proposing, row, log, troubled>>

\* The writer answers with an error that does not prove a rollback.  Only a
\* canonical changeset is left applying; the others take it for a failure.
ApplyUnknown(r) ==
    LET p == req[r].p IN
    /\ req[r].at = "apply"
    /\ \E landed \in {0, 1} : graph' = [graph EXCEPT ![p] = @ + landed]
    /\ troubled' = troubled \cup {p}
    /\ IF kind[p] = "canonical" THEN Ends(r) ELSE Goes(r, "fail")
    /\ UNCHANGED <<kind, proposer, proposing, row, log>>

PostCommit(r) ==
    /\ req[r].at = "post_commit"
    /\ Goes(r, "finalize")
    /\ UNCHANGED <<kind, proposer, proposing, row, log, graph, troubled>>

\* Reindexing or resolving the created records fails: CommittedNeedsReconciliation,
\* but a merge reports it in its summary, which the worker does not read.
PostCommitFails(r) ==
    /\ req[r].at = "post_commit"
    /\ IF kind[req[r].p] = "merge" THEN Goes(r, "finalize") ELSE Ends(r)
    /\ UNCHANGED <<kind, proposer, proposing, row, log, graph, troubled>>

\* applied_and_emit.
FinalizeApplySuccess(r) ==
    LET p == req[r].p IN
    /\ req[r].at = "finalize"
    /\ \E ack \in Acks :
         /\ ExecuteGuardedEvent(p, row[p].status = "applying",
                                [row[p] EXCEPT !.status = "applied"],
                                Event("success", System), ack)
         /\ Trouble(p, ack)
    /\ Ends(r)
    /\ UNCHANGED <<kind, proposer, proposing, graph>>

EmitApplyFailed(r) ==
    /\ req[r].at = "fail"
    /\ \E ack \in Acks : /\ AppendEvent(req[r].p, Event("failed", System), ack)
                         /\ Trouble(req[r].p, ack)
    /\ Goes(r, "revert")
    /\ UNCHANGED <<kind, proposer, proposing, row, graph>>

RevertApplyingToApproved(r) ==
    LET p == req[r].p IN
    /\ req[r].at = "revert"
    /\ \E ack \in Acks :
         /\ ExecuteStatusTransition(p, row[p].status = "applying", "approved", ack)
         /\ Trouble(p, ack)
    /\ Ends(r)
    /\ UNCHANGED <<kind, proposer, proposing, log, graph>>

-----------------------------------------------------------------------------

\* The caller goes away or the process dies.  A write already under way counts
\* as the step before.
GivesUp(r) ==
    /\ req[r].at \notin {"idle", "ended"}
    /\ troubled' = IF req[r].at \in {"check", "claim"} \cup Applying
                   THEN troubled \cup {req[r].p} ELSE troubled
    /\ Ends(r)
    /\ UNCHANGED <<kind, proposer, proposing, row, log, graph>>

ProposeGivesUp(p) ==
    /\ proposing[p] = "logged"
    /\ proposing' = [proposing EXCEPT ![p] = "ended"]
    /\ UNCHANGED <<kind, proposer, row, log, graph, req, troubled>>

Starts(r) ==
    \/ Refuses(r)
    \/ \E p \in Proposal, actor \in Actor : WithdrawReads(r, p, actor)
    \/ \E p \in Proposal, actor \in Actor, decision \in Decisions :
          ReviewReads(r, p, actor, decision)

\* The next step of a request that has started.
Continues(r) ==
    \/ ReviewRecords(r) \/ WithdrawRecords(r)
    \/ ApplyChecks(r) \/ ApplyCheckFails(r) \/ ApplyRefused(r) \/ PreApplyCas(r)
    \/ ApplyRollsBack(r) \/ ApplyCommits(r) \/ ApplyUnknown(r)
    \/ PostCommit(r) \/ PostCommitFails(r) \/ FinalizeApplySuccess(r)
    \/ EmitApplyFailed(r) \/ RevertApplyingToApproved(r)

Next ==
    \/ \E p \in Proposal : ProposeLogs(p) \/ OnProposalCreated(p) \/ ProposeGivesUp(p)
    \/ \E r \in Request : Starts(r) \/ Continues(r) \/ GivesUp(r)
    \/ ProposalCleanup

Spec == Init /\ [][Next]_vars

\* The scheduler polls every request that can go on.
Fairness == \A r \in Request : WF_vars(Continues(r))

FairSpec == Spec /\ Fairness

-----------------------------------------------------------------------------
(* Properties.                                                             *)

Recorded(p, what) == \E i \in DOMAIN log[p] : log[p][i].what = what
Count(p, what) == Len(SelectSeq(log[p], LAMBDA e : e.what = what))
Holders(p) == {r \in Request : req[r].at \in Applying /\ req[r].p = p}
OthersApproval(p) ==
    \E i \in DOMAIN log[p] : /\ log[p][i].what = "approve"
                             /\ log[p][i].by # proposer[p] \/ log[p][i].by = Local

\* A changeset reaches the graph at most once, only after somebody entitled to
\* approved it and never after a rejection; success is announced exactly for
\* applied rows whose changeset was committed.  Unless the outcome of the
\* transaction is unknown to a worker that is not canonical, what was announced
\* as failed or withdrawn is not in the graph.  (maybe_apply, mark_applying)
GraphFollowsVerdict ==
    \A p \in Proposal :
        /\ graph[p] <= 1
        /\ graph[p] = 1 => OthersApproval(p) /\ ~Recorded(p, "reject")
        /\ Recorded(p, "success") <=> row[p].status = "applied"
        /\ row[p].status = "applied" => graph[p] = 1
        /\ graph[p] = 1 /\ (kind[p] = "canonical" \/ p \notin troubled)
             => ~Recorded(p, "failed") /\ ~Recorded(p, "withdrawn")

\* What an event does to the status of the proposal.
Folded(status, e) ==
    CASE e.what = "created" -> "open"
      [] e.what \in Decisions -> ReviewDecisionEffect([NoRow EXCEPT !.status = status],
                                                      e.what).status
      [] e.what = "withdrawn" -> "withdrawn"
      [] e.what = "success" -> "applied"
      [] e.what = "failed" -> status

\* proposals_open is the fold of the event log, whatever the order in which
\* racing requests land and whichever acknowledgements are lost; applying alone
\* is not an event.  An archived proposal stays resolved.  (execute_guarded_event)
RowIsFoldOfLog ==
    \A p \in Proposal : row[p].status # "none" =>
        /\ FoldLeft(Folded, "none", log[p])
             = (IF row[p].status = "applying" THEN "approved" ELSE row[p].status)
        /\ row[p].approvals = Count(p, "approve")
        /\ row[p].rejections = Count(p, "reject")
        /\ row[p].archived => row[p].status \in {"applied", "rejected"}

\* Left applying by a commit whose post-commit work failed.
Reconcilable(p) ==
    /\ row[p].status = "applying" /\ graph[p] = 1 /\ Holders(p) = {}
    /\ ~Recorded(p, "failed") /\ ~Recorded(p, "success")

\* The claim excludes: a worker that holds it finds the row applying until it
\* settles it, and no other worker does.  A row nobody holds is applying only if
\* its changeset is committed and waits for reconciliation, or if a store call
\* or a request was lost.  (pre_apply_cas, revert_applying_to_approved)
ClaimIsAccounted ==
    \A p \in Proposal :
        /\ Cardinality(Holders(p)) <= 1
        /\ Holders(p) # {} => row[p].status = "applying"
        /\ row[p].status = "applying" /\ Holders(p) = {} =>
             Reconcilable(p) \/ p \in troubled

\* An approval is followed by a success, a failure, a withdrawal or a row left
\* for reconciliation, unless a store call fails or the worker is lost.
\* (handle_review, maybe_apply_with_report)
ApprovalIsAnswered ==
    \A p \in Proposal :
        Recorded(p, "approve") ~>
            \/ \E what \in {"success", "failed", "withdrawn"} : Recorded(p, what)
            \/ Reconcilable(p)
            \/ p \in troubled

\* "reverts to 'approved' only when failure is known to precede the durable
\* changeset commit" (docs/adr/ADR-046-event-sourced-proposals.md:323-325): a
\* proposal announced as failed is not in the graph.  (maybe_apply_with_report)
FailedMeansNotCommitted ==
    \A p \in Proposal : Recorded(p, "failed") => graph[p] = 0
=============================================================================
