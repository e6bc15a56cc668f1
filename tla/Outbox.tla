------------------------------- MODULE Outbox -------------------------------
(***************************************************************************)
(* The delivery of outbound email: the loops of khive-mcp (serve_outbox)   *)
(* over the message rows of khive-runtime (curation/outbound_messages).    *)
(*                                                                         *)
(* A loop is a daemon's; two of them run on the same rows while one daemon *)
(* replaces another, and their configured sending domains may differ.  A   *)
(* pass reads a page of pending rows, and works from those snapshots until *)
(* the page is done: it verifies or claims the row's Message-ID, sends,    *)
(* and stamps the outcome.  Every change of a row is a fresh read with its *)
(* checks, then a compare-and-set against that read.  The store may fail,  *)
(* or write and lose the answer; other writers may touch the row at any    *)
(* moment; the transport may accept a message and lose the answer.         *)
(*                                                                         *)
(* A Message-ID is a function of the row and a domain, so it is modelled   *)
(* by the domain.  Left out: the page bound, several mailboxes, Telegram   *)
(* (the same loop without claims and policy), deleted rows and callers     *)
(* that stamp delivered_at themselves.                                     *)
(***************************************************************************)
EXTENDS Naturals, FiniteSets

CONSTANTS
    Message, Worker,
    Domain,        \* sending domains
    Current,       \* the domain a worker mints with
    Known,         \* the domains it verifies: the current one and the historical
    Alien,         \* a stored id that is not of its own row
    NoId,
    NoMessage,
    MaxCrashes     \* bound: crashes of daemons

ASSUME DomainAssumption ==
    /\ Current \in [Worker -> Domain] /\ Known \in [Worker -> SUBSET Domain]
    /\ \A w \in Worker : Current[w] \in Known[w]
    /\ {Alien, NoId} \cap Domain = {} /\ Alien # NoId
ASSUME MessageAssumption == NoMessage \notin Message /\ MaxCrashes \in Nat

VARIABLES
    recipient,     \* what the recipient policy says of each message
    row,           \* its row
    noted,         \* the messages whose keyed diagnostic note exists
    at, job,       \* where each worker is, and which change of a row it makes
    page, snap,    \* the rows of its pass still to do, and the ids it read
    cur, id,       \* the message in hand, and its Message-ID
    fresh,         \* the row has not changed since the worker's read
    flaw,          \* what the pass does after the change in hand
    used,          \* the ids each message was handed to the transport with
    taken,         \* how often the transport accepted it, up to 2
    excused,       \* messages whose stamp was lost, or that two passes had
    crashes

rowVars == <<recipient, row, noted>>
workVars == <<at, job, page, snap, cur, id, fresh, flaw>>
history == <<used, taken, excused>>
vars == <<rowVars, workVars, history, crashes>>

Ids == Domain \cup {Alien, NoId}
\* deny and suppress are failures by policy, reject by the transport.
Jobs == {"none", "claim", "claimFailed", "claimRetry", "delivered", "deny", "suppress",
         "reject", "retry", "hold", "noted"}
Failures == {"claimFailed", "deny", "suppress", "reject"}

TypeOK ==
    /\ recipient \in [Message -> {"policy", "external", "denied"}]
    /\ row \in [Message -> [id : Ids, delivery : {"pending", "delivered", "failed"},
                            due : BOOLEAN, held : BOOLEAN, noted : BOOLEAN]]
    /\ noted \subseteq Message
    /\ at \in [Worker -> {"down", "idle", "holds", "pass", "load", "cas", "send", "diagnose",
                          "restart", "ended"}]
    /\ job \in [Worker -> Jobs]
    /\ page \in [Worker -> SUBSET Message]
    /\ snap \in [Worker -> [Message -> Ids]]
    /\ cur \in [Worker -> Message \cup {NoMessage}]
    /\ id \in [Worker -> Ids]
    /\ fresh \in [Worker -> BOOLEAN]
    /\ flaw \in [Worker -> {"none", "holdFailed", "limited", "holds"}]
    /\ used \in [Message -> SUBSET Ids]
    /\ taken \in [Message -> 0 .. 2]
    /\ excused \subseteq Message
    /\ crashes \in 0 .. MaxCrashes

NoSnap == [m \in Message |-> NoId]

\* A row may hold an id that older versions let a caller supply.
Init ==
    /\ recipient \in [Message -> {"policy", "external", "denied"}]
    /\ row \in [Message -> {[id |-> i, delivery |-> "pending", due |-> TRUE, held |-> FALSE,
                             noted |-> FALSE] : i \in {NoId, Alien}}]
    /\ noted = {}
    /\ at = [w \in Worker |-> "down"]
    /\ job = [w \in Worker |-> "none"]
    /\ page = [w \in Worker |-> {}]
    /\ snap = [w \in Worker |-> NoSnap]
    /\ cur = [w \in Worker |-> NoMessage]
    /\ id = [w \in Worker |-> NoId]
    /\ fresh = [w \in Worker |-> FALSE]
    /\ flaw = [w \in Worker |-> "none"]
    /\ used = [m \in Message |-> {}]
    /\ taken = [m \in Message |-> 0]
    /\ excused = {}
    /\ crashes = 0

-----------------------------------------------------------------------------

Terminal(r) == r.delivery # "pending"
Holding(w, m) == m \in page[w] \/ cur[w] = m
Verified(w, i) == i \in Known[w]

\* list_undelivered_outbound_messages.
Pending(r) == ~Terminal(r) /\ r.due /\ ~r.held

\* The worker turns to what follows, with nothing in hand.
Leaves(w, where) ==
    /\ at' = [at EXCEPT ![w] = where]
    /\ job' = [job EXCEPT ![w] = "none"]
    /\ cur' = [cur EXCEPT ![w] = NoMessage]
    /\ id' = [id EXCEPT ![w] = NoId]
    /\ flaw' = [flaw EXCEPT ![w] = "none"]

\* The pass is over as well.
Quits(w, where) ==
    /\ Leaves(w, where)
    /\ page' = [page EXCEPT ![w] = {}]
    /\ snap' = [snap EXCEPT ![w] = NoSnap]

\* Others that have read the row of the message in hand will conflict.
Spoils(w) == fresh' = [v \in Worker |-> fresh[v] /\ v # w /\ cur[v] # cur[w]]
Forgets(w) == fresh' = [fresh EXCEPT ![w] = FALSE]

\* The worker takes m out of its page.
Takes(w, m) ==
    /\ page' = [page EXCEPT ![w] = @ \ {m}]
    /\ snap' = [snap EXCEPT ![w][m] = NoId]

\* On to a change of the row of m.
Turns(w, what, m) ==
    /\ at' = [at EXCEPT ![w] = "load"]
    /\ job' = [job EXCEPT ![w] = what]
    /\ cur' = [cur EXCEPT ![w] = m]

-----------------------------------------------------------------------------
(* The loop and its supervisor.                                            *)

Boots(w) ==
    /\ at[w] = "down"
    /\ at' = [at EXCEPT ![w] = "idle"]
    /\ UNCHANGED <<rowVars, job, page, snap, cur, id, fresh, flaw, history, crashes>>

\* The daemon dies, or a cancelled loop is aborted.
Crashes(w) ==
    /\ at[w] # "down"
    /\ crashes < MaxCrashes
    /\ crashes' = crashes + 1
    /\ excused' = IF job[w] = "delivered" THEN excused \cup {cur[w]} ELSE excused
    /\ Quits(w, "down") /\ Forgets(w)
    /\ UNCHANGED <<rowVars, used, taken>>

\* The supervisor starts a component that failed again, a bounded number of times.
Restarts(w) ==
    /\ at[w] = "restart"
    /\ \E where \in {"idle", "ended"} : at' = [at EXCEPT ![w] = where]
    /\ UNCHANGED <<rowVars, job, page, snap, cur, id, fresh, flaw, history, crashes>>

\* outbox_once: the holds whose diagnostic is missing come first.
RetryHeldDiagnostics(w) ==
    /\ at[w] = "idle"
    /\ at' = [at EXCEPT ![w] = "holds"]
    /\ page' = [page EXCEPT ![w] = {m \in Message : row[m].held /\ ~row[m].noted}]
    /\ UNCHANGED <<rowVars, job, snap, cur, id, fresh, flaw, history, crashes>>

\* persist_email_diagnostic of one of them.
RetriesDiagnostic(w) ==
    /\ at[w] = "holds"
    /\ \E m \in page[w] :
         /\ page' = [page EXCEPT ![w] = @ \ {m}]
         /\ cur' = [cur EXCEPT ![w] = m]
    /\ at' = [at EXCEPT ![w] = "diagnose"]
    /\ flaw' = [flaw EXCEPT ![w] = "holds"]
    /\ UNCHANGED <<rowVars, job, snap, id, fresh, history, crashes>>

\* The scan.
Scans(w) ==
    /\ at[w] = "holds" /\ page[w] = {}
    /\ LET found == {m \in Message : Pending(row[m])} IN
         /\ page' = [page EXCEPT ![w] = found]
         /\ snap' = [snap EXCEPT ![w] = [m \in Message |-> IF m \in found THEN row[m].id ELSE NoId]]
         /\ excused' = excused \cup {m \in found : \E v \in Worker \ {w} : Holding(v, m)}
    /\ at' = [at EXCEPT ![w] = "pass"]
    /\ UNCHANGED <<rowVars, job, cur, id, fresh, flaw, used, taken, crashes>>

\* The namespace is not authorized, for good, or the holds or the pending rows
\* cannot be read: the component fails.
ScanFails(w) ==
    /\ \/ at[w] = "idle" /\ \E where \in {"ended", "restart"} : Quits(w, where)
       \/ at[w] = "holds" /\ page[w] = {} /\ Quits(w, "restart")
    /\ UNCHANGED <<rowVars, fresh, history, crashes>>

PassEnds(w) ==
    /\ at[w] = "pass" /\ page[w] = {}
    /\ Quits(w, "idle")
    /\ UNCHANGED <<rowVars, fresh, history, crashes>>

\* next_attempt_at is reached.
ComesDue(m) ==
    /\ ~row[m].due
    /\ row' = [row EXCEPT ![m].due = TRUE]
    /\ UNCHANGED <<recipient, noted, workVars, history, crashes>>

-----------------------------------------------------------------------------
(* prepare_email.                                                          *)

\* The snapshot's id is verified before anything else is decided.
Verifies(w, m) ==
    /\ at[w] = "pass" /\ m \in page[w]
    /\ snap[w][m] = NoId \/ Verified(w, snap[w][m])

Unverifiable(w, m) ==
    /\ at[w] = "pass" /\ m \in page[w]
    /\ snap[w][m] # NoId /\ ~Verified(w, snap[w][m])
    /\ Turns(w, "hold", m)
    /\ Takes(w, m)
    /\ UNCHANGED <<rowVars, id, fresh, flaw, history, crashes>>

\* Fault: a recipient that is not allowed is passed over with a log line.
PolicyRefusesSilently(w, m) ==
    /\ Verifies(w, m)
    /\ \/ recipient[m] = "denied" /\ UNCHANGED <<at, job, cur>>
       \/ recipient[m] = "external" /\ Turns(w, "suppress", m)
    /\ Takes(w, m)
    /\ UNCHANGED <<rowVars, id, fresh, flaw, history, crashes>>

\* The recipient is refused by the policy, or suppressed, or the message was
\* admitted under a configuration that is no longer there.
PolicyRefuses(w, m) ==
    /\ Verifies(w, m)
    /\ \/ recipient[m] = "denied" /\ Turns(w, "deny", m)
       \/ recipient[m] = "external" /\ Turns(w, "suppress", m)
    /\ Takes(w, m)
    /\ UNCHANGED <<rowVars, id, fresh, flaw, history, crashes>>

\* The suppression mirror could not be refreshed in this pass: left pending.
MirrorStale(w, m) ==
    /\ Verifies(w, m) /\ recipient[m] = "external"
    /\ Takes(w, m)
    /\ UNCHANGED <<rowVars, at, job, cur, id, fresh, flaw, history, crashes>>

\* The suppressions cannot be read: the component fails.
SuppressionUnavailable(w, m) ==
    /\ Verifies(w, m) /\ recipient[m] = "external"
    /\ Quits(w, "restart")
    /\ UNCHANGED <<rowVars, fresh, history, crashes>>

\* Mint before send: a row without an id is claimed first.
Prepares(w, m) ==
    /\ Verifies(w, m) /\ recipient[m] # "denied"
    /\ IF snap[w][m] # NoId
       THEN /\ at' = [at EXCEPT ![w] = "send"]
            /\ cur' = [cur EXCEPT ![w] = m]
            /\ id' = [id EXCEPT ![w] = snap[w][m]]
            /\ UNCHANGED job
       ELSE Turns(w, "claim", m) /\ id' = [id EXCEPT ![w] = Current[w]]
    /\ Takes(w, m)
    /\ UNCHANGED <<rowVars, fresh, flaw, history, crashes>>

-----------------------------------------------------------------------------
(* A change of a row: a read with its checks, then replace_note_if_unchanged. *)

\* What the operation finds: it refuses, has nothing to do, or writes.
Checked(what, r) ==
    CASE what = "claim" -> IF Terminal(r) \/ r.id # NoId THEN "invalid" ELSE "write"
      [] what \in {"claimFailed", "claimRetry"} ->
           IF Terminal(r) \/ r.id # NoId THEN "ok" ELSE "write"
      [] what = "hold" -> CASE r.held -> "ok"
                            [] ~r.held /\ (Terminal(r) \/ r.id = NoId) -> "invalid"
                            [] OTHER -> "write"
      [] what = "noted" -> CASE r.noted -> "ok"
                             [] ~r.noted /\ ~r.held -> "invalid"
                             [] OTHER -> "write"
      [] OTHER -> IF Terminal(r) THEN "invalid" ELSE "write"

Written(what, r, i) ==
    CASE what = "claim" -> [r EXCEPT !.id = i]
      [] what = "delivered" -> [r EXCEPT !.delivery = "delivered", !.due = TRUE]
      [] what \in Failures -> [r EXCEPT !.delivery = "failed", !.due = TRUE]
      [] what \in {"retry", "claimRetry"} -> [r EXCEPT !.due = FALSE]
      [] what = "hold" -> [r EXCEPT !.held = TRUE, !.due = TRUE]
      [] what = "noted" -> [r EXCEPT !.noted = TRUE]

\* A claim that was refused fails the message unless somebody else claimed it;
\* one that failed is tried again later.
ClaimFollows(w, outcome) ==
    /\ IF outcome = "ok"
       THEN /\ at' = [at EXCEPT ![w] = "send"]
            /\ job' = [job EXCEPT ![w] = "none"]
            /\ UNCHANGED id
       ELSE /\ at' = [at EXCEPT ![w] = "load"]
            /\ job' = [job EXCEPT ![w] = IF outcome = "invalid" THEN "claimFailed" ELSE "claimRetry"]
            /\ id' = [id EXCEPT ![w] = NoId]
    /\ UNCHANGED <<page, snap, cur, flaw>>

\* A hold is followed by its diagnostic, whatever came of it.
HoldFollows(w, outcome) ==
    /\ at' = [at EXCEPT ![w] = "diagnose"]
    /\ job' = [job EXCEPT ![w] = "none"]
    /\ flaw' = [flaw EXCEPT ![w] = IF outcome = "ok" THEN "none" ELSE "holdFailed"]
    /\ UNCHANGED <<page, snap, cur, id>>

\* Whether the component fails with the change in hand.
Fatal(w, outcome) ==
    \/ job[w] = "noted" /\ (outcome # "ok" \/ flaw[w] = "holdFailed")
    \/ job[w] = "suppress" /\ outcome # "ok"

\* What the pass does next.  A delivery that was not stamped is logged, and the
\* message sent again.
Follows(w, outcome) ==
    /\ \/ job[w] = "claim" /\ ClaimFollows(w, outcome)
       \/ job[w] = "hold" /\ HoldFollows(w, outcome)
       \/ Fatal(w, outcome) /\ Quits(w, "restart")
       \/ flaw[w] = "limited" /\ Quits(w, "idle")
       \/ /\ job[w] \notin {"claim", "hold"} /\ ~Fatal(w, outcome) /\ flaw[w] # "limited"
          /\ Leaves(w, IF flaw[w] = "holds" THEN "holds" ELSE "pass")
          /\ UNCHANGED <<page, snap>>
    /\ excused' = IF job[w] = "delivered" /\ outcome # "ok" THEN excused \cup {cur[w]} ELSE excused

Loads(w) ==
    /\ at[w] = "load"
    /\ LET found == Checked(job[w], row[cur[w]]) IN
         IF found = "write"
         THEN /\ at' = [at EXCEPT ![w] = "cas"]
              /\ fresh' = [fresh EXCEPT ![w] = TRUE]
              /\ UNCHANGED <<job, page, snap, cur, id, flaw, excused>>
         ELSE Follows(w, found) /\ UNCHANGED fresh
    /\ UNCHANGED <<rowVars, used, taken, crashes>>

LoadFails(w) ==
    /\ at[w] = "load"
    /\ Follows(w, "error")
    /\ UNCHANGED <<rowVars, fresh, used, taken, crashes>>

\* Fault: the row is replaced whatever happened to it.
ReplacesAnyway(w) ==
    /\ at[w] = "cas"
    /\ row' = [row EXCEPT ![cur[w]] = Written(job[w], @, id[w])]
    /\ Follows(w, "ok") /\ Spoils(w)
    /\ UNCHANGED <<recipient, noted, used, taken, crashes>>

Replaces(w) ==
    /\ at[w] = "cas" /\ fresh[w]
    /\ row' = [row EXCEPT ![cur[w]] = Written(job[w], @, id[w])]
    /\ Follows(w, "ok") /\ Spoils(w)
    /\ UNCHANGED <<recipient, noted, used, taken, crashes>>

\* Written, and the answer lost.
ReplaceLost(w) ==
    /\ at[w] = "cas" /\ fresh[w]
    /\ row' = [row EXCEPT ![cur[w]] = Written(job[w], @, id[w])]
    /\ Follows(w, "error") /\ Spoils(w)
    /\ UNCHANGED <<recipient, noted, used, taken, crashes>>

\* Another worker came first.
ReplaceConflicts(w) ==
    /\ at[w] = "cas" /\ ~fresh[w]
    /\ Follows(w, "error")
    /\ UNCHANGED <<rowVars, fresh, used, taken, crashes>>

\* Some other writer of the row did, or the store fails, or refuses the row.
ReplaceFails(w) ==
    /\ at[w] = "cas"
    /\ \E outcome \in {"error", "invalid"} : Follows(w, outcome)
    /\ Forgets(w)
    /\ UNCHANGED <<rowVars, used, taken, crashes>>

\* record_outbound_external_id_diagnostic: keyed, so there is one at most.
Diagnoses(w) ==
    /\ at[w] = "diagnose"
    /\ noted' = noted \cup {cur[w]}
    /\ Turns(w, "noted", cur[w])
    /\ UNCHANGED <<recipient, row, page, snap, id, fresh, flaw, history, crashes>>

\* It may have been written all the same.
DiagnosticFails(w) ==
    /\ at[w] = "diagnose"
    /\ noted' = noted \/ noted' = noted \cup {cur[w]}
    /\ Quits(w, "restart")
    /\ UNCHANGED <<recipient, row, fresh, history, crashes>>

-----------------------------------------------------------------------------
(* The transport.                                                          *)

Sends(w) == at[w] = "send" /\ used' = [used EXCEPT ![cur[w]] = @ \cup {id[w]}]
Accepted(m) == taken' = [taken EXCEPT ![m] = IF @ < 2 THEN @ + 1 ELSE @]

\* Accepted, or rejected for good: on to the stamp.
SendAnswered(w) ==
    /\ Sends(w)
    /\ \/ Accepted(cur[w]) /\ Turns(w, "delivered", cur[w])
       \/ UNCHANGED taken /\ Turns(w, "reject", cur[w])
    /\ UNCHANGED <<rowVars, page, snap, id, fresh, flaw, excused, crashes>>

\* A transport error, after which the message may have been accepted all the
\* same; a rate limit ends the pass as well.
SendFails(w) ==
    /\ Sends(w)
    /\ \/ UNCHANGED <<taken, flaw, excused>>
       \/ Accepted(cur[w]) /\ excused' = excused \cup {cur[w]} /\ UNCHANGED flaw
       \/ flaw' = [flaw EXCEPT ![w] = "limited"] /\ UNCHANGED <<taken, excused>>
    /\ Turns(w, "retry", cur[w])
    /\ UNCHANGED <<rowVars, page, snap, id, fresh, crashes>>

\* The account is refused: the component fails, for good or to be restarted.
SendUnauthorized(w) ==
    /\ at[w] = "send"
    /\ \E where \in {"ended", "restart"} : Quits(w, where)
    /\ UNCHANGED <<rowVars, fresh, history, crashes>>

-----------------------------------------------------------------------------

\* The store, the policy's sources or the transport fail, or another writer
\* touches the row.  Some of these steps cannot be told from the loss of a race
\* with another loop, which is one of Works.
Fails(w) ==
    \/ ScanFails(w) \/ LoadFails(w) \/ ReplaceLost(w) \/ ReplaceFails(w) \/ DiagnosticFails(w)
    \/ \E m \in Message : MirrorStale(w, m) \/ SuppressionUnavailable(w, m)
    \/ SendFails(w) \/ SendUnauthorized(w)

Works(w) ==
    \/ RetryHeldDiagnostics(w) \/ RetriesDiagnostic(w) \/ Scans(w) \/ PassEnds(w)
    \/ \E m \in Message : Unverifiable(w, m) \/ PolicyRefuses(w, m) \/ Prepares(w, m)
    \/ Loads(w) \/ Replaces(w) \/ ReplaceConflicts(w) \/ Diagnoses(w) \/ SendAnswered(w)

\* What needs no failure: the loops, conflicts and lost races included, their
\* daemons, and the deadlines.
Undisturbed ==
    \/ \E w \in Worker : Boots(w) \/ Crashes(w) \/ Restarts(w) \/ Works(w)
    \/ \E m \in Message : ComesDue(m)

Next == Undisturbed \/ \E w \in Worker : Fails(w)

Spec == Init /\ [][Next]_vars

\* The worker is between the read and the write of a change of the row of m, or
\* about to read.
Changes(w, m) == at[w] \in {"load", "cas"} /\ cur[w] = m

\* Daemons are started, loops run and deadlines come; from some moment on
\* nothing fails, while loops may conflict and lose races for ever.  And from
\* some moment on the backoff of a row, which doubles with every attempt up to
\* its ceiling, outlasts the store calls of a change that is under way.
Fairness ==
    /\ \A w \in Worker : WF_vars(Boots(w)) /\ WF_vars(Restarts(w)) /\ WF_vars(Works(w))
    /\ \A m \in Message : WF_vars(ComesDue(m))
    /\ <>[][Undisturbed]_vars
    /\ <>[][\A m \in Message : ComesDue(m) => ~\E w \in Worker : Changes(w, m)]_vars

FairSpec == Spec /\ Fairness

-----------------------------------------------------------------------------
(* Properties.                                                             *)

\* However passes overlap, daemons with other domains take over, and stamps
\* are lost, a message is only ever sent under the one id its row holds, and
\* never under one that is not its own; it is accepted twice, or recorded as
\* failed although it was accepted, only if its stamp or the transport's answer
\* was lost or two passes had it; and what is recorded as delivered was.
\* (claim_outbound_message_external_id, mark_outbound_message_delivered)
SendsAccounted ==
    \A m \in Message :
        /\ used[m] \subseteq {row[m].id} \cap Domain
        /\ taken[m] > 1 => m \in excused
        /\ row[m].delivery = "delivered" => taken[m] > 0
        /\ row[m].delivery = "failed" /\ taken[m] > 0 => m \in excused
        /\ row[m].noted => m \in noted /\ row[m].held

\* A recorded outcome, a claimed id and a hold are never taken back, whichever
\* worker comes late.  (outbound_delivery_is_terminal)
RowIsFinal ==
    [][\A m \in Message :
         /\ Terminal(row[m]) => row'[m].delivery = row[m].delivery
         /\ row[m].id # NoId => row'[m].id = row[m].id
         /\ row[m].held => row'[m].held]_vars

Settled(r) == Terminal(r) \/ (r.held /\ r.noted)

\* Rows only move forward, and every message is delivered, failed or held with
\* its diagnostic in the end, unless the account is refused or the supervisor
\* gives up on every loop.  (outbox_once, run of the component)
MailSettles ==
    /\ RowIsFinal
    /\ \A m \in Message :
         ~Settled(row[m]) ~> Settled(row[m]) \/ \A w \in Worker : at[w] = "ended"
=============================================================================
