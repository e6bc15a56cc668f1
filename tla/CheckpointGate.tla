--------------------------- MODULE CheckpointGate ---------------------------
(***************************************************************************)
(* Who reclaims the WAL: khive-db's CheckpointOwnershipGate (ADR-091       *)
(* Amendment 10).  Writer-capable connections run with SQLite's bounded    *)
(* autocheckpoint ("fallback") until a checkpoint task claims the pool;    *)
(* from then on they run with none ("off").                                *)
(*                                                                         *)
(* Claimers are checkpoint tasks starting up: claim_checkpoint_ownership,  *)
(* then propagate_checkpoint_claim_to_writer_task.  Openers are threads    *)
(* that open a standalone writer-capable connection; TaskOpener is the one *)
(* that belongs to the writer task, opened once and kept.  A user of the   *)
(* pooled writer holds its mutex for as long as it likes and may retire    *)
(* the connection.  The gate's own mutex is held by an opener while it     *)
(* applies its PRAGMA; its condition variable is modelled by the threads   *)
(* "asleep" on it.  The checkpoint task's own connection, which runs no    *)
(* application writes and sets "off" for itself, is not here.              *)
(*                                                                         *)
(* The gate and the reader pool are the two halves of ConnectionPool and   *)
(* can be extended together: Init, Next and their like are GateInit and    *)
(* GateNext here.                                                          *)
(***************************************************************************)
EXTENDS Naturals, FiniteSets

CONSTANTS Claimer, Opener, TaskOpener, Nobody

ASSUME OpenerAssumption == TaskOpener \in Opener
ASSUME NobodyAssumption ==
    /\ Nobody \notin Claimer \cup Opener
    /\ "user" \notin Claimer

VARIABLES
    phase,    \* CheckpointOwnership
    gate,     \* the opener that holds the gate's mutex
    claim,    \* where each claimer is
    opening,  \* where each opener is
    selected, \* the posture an opener read under the gate
    pages,    \* wal_autocheckpoint of an opener's connection
    writer,   \* who holds the pooled writer's mutex
    pooled    \* wal_autocheckpoint of the pooled writer, or "retired"

gateVars == <<phase, gate, claim, opening, selected, pages, writer, pooled>>

ClaimPCs == {"idle", "entering", "asleep", "locking", "applying", "applied",
             "refused", "claimed", "failed", "propagated", "unreached"}
OpenPCs == {"idle", "entering", "asleep", "applying", "open", "failed"}
Settings == {"fallback", "off"}

GateTypeOK ==
    /\ phase \in {"Unclaimed", "Claiming", "Claimed"}
    /\ gate \in Opener \cup {Nobody}
    /\ claim \in [Claimer -> ClaimPCs]
    /\ opening \in [Opener -> OpenPCs]
    /\ selected \in [Opener -> Settings]
    /\ pages \in [Opener -> Settings]
    /\ writer \in Claimer \cup {"user", Nobody}
    /\ pooled \in Settings \cup {"retired"}

GateInit ==
    /\ phase = "Unclaimed"
    /\ gate = Nobody
    /\ claim = [c \in Claimer |-> "idle"]
    /\ opening = [o \in Opener |-> "idle"]
    /\ selected = [o \in Opener |-> "fallback"]
    /\ pages = [o \in Opener |-> "fallback"]
    /\ writer = Nobody
    /\ pooled = "fallback"

\* The setting a settled phase stands for.
Posture(p) == IF p = "Claimed" THEN "off" ELSE "fallback"

Wake(pcs) == [x \in DOMAIN pcs |-> IF pcs[x] = "asleep" THEN "entering" ELSE pcs[x]]

\* changed.notify_all(), by claimer c on its way to l.
NotifyAll(c, l) ==
    /\ claim' = [Wake(claim) EXCEPT ![c] = l]
    /\ opening' = Wake(opening)

-----------------------------------------------------------------------------
(* claim_checkpoint_ownership.                                             *)

ClaimCalled(c) ==
    /\ claim[c] = "idle"
    /\ claim' = [claim EXCEPT ![c] = "entering"]
    /\ UNCHANGED <<phase, gate, opening, selected, pages, writer, pooled>>

\* Fault: ownership is published before the pooled writer is configured.
ClaimStartsPublished(c) ==
    /\ claim[c] = "entering"
    /\ gate = Nobody
    /\ phase = "Unclaimed"
    /\ phase' = "Claimed"
    /\ NotifyAll(c, "locking")
    /\ UNCHANGED <<gate, selected, pages, writer, pooled>>

\* begin_claim: this caller configures the claim.
ClaimStarts(c) ==
    /\ claim[c] = "entering"
    /\ gate = Nobody
    /\ phase = "Unclaimed"
    /\ phase' = "Claiming"
    /\ NotifyAll(c, "locking")
    /\ UNCHANGED <<gate, selected, pages, writer, pooled>>

\* Fault: a claim in flight is taken for a claim.
ClaimJoinsAsClaimed(c) ==
    /\ claim[c] = "entering"
    /\ gate = Nobody
    /\ phase = "Claiming"
    /\ claim' = [claim EXCEPT ![c] = "claimed"]
    /\ UNCHANGED <<phase, gate, opening, selected, pages, writer, pooled>>

\* ... waits for the claim in flight ...
ClaimJoins(c) ==
    /\ claim[c] = "entering"
    /\ gate = Nobody
    /\ phase = "Claiming"
    /\ claim' = [claim EXCEPT ![c] = "asleep"]
    /\ UNCHANGED <<phase, gate, opening, selected, pages, writer, pooled>>

\* ... or finds the claim made.
ClaimKnown(c) ==
    /\ claim[c] = "entering"
    /\ gate = Nobody
    /\ phase = "Claimed"
    /\ claim' = [claim EXCEPT ![c] = "claimed"]
    /\ UNCHANGED <<phase, gate, opening, selected, pages, writer, pooled>>

\* writer_for_checkpoint_operation: the pooled writer's mutex is locked and
\* the connection is not retired.
ClaimLocks(c) ==
    /\ claim[c] = "locking"
    /\ writer = Nobody
    /\ pooled # "retired"
    /\ writer' = c
    /\ claim' = [claim EXCEPT ![c] = "applying"]
    /\ UNCHANGED <<phase, gate, opening, selected, pages, pooled>>

\* Fault: the mutex is waited for without a bound.
ClaimRefusedUnbounded(c) ==
    /\ claim[c] = "locking"
    /\ writer = Nobody
    /\ claim' = [claim EXCEPT ![c] = "refused"]
    /\ UNCHANGED <<phase, gate, opening, selected, pages, writer, pooled>>

\* ... or checkout_timeout elapses, the writer is retired, or the file
\* identity check fails.
ClaimRefused(c) ==
    /\ claim[c] = "locking"
    /\ claim' = [claim EXCEPT ![c] = "refused"]
    /\ UNCHANGED <<phase, gate, opening, selected, pages, writer, pooled>>

\* The pooled writer takes the claimed setting, or refuses it; its guard drops.
ClaimApplies(c) ==
    /\ claim[c] = "applying"
    /\ writer' = Nobody
    /\ \/ pooled' = "off" /\ claim' = [claim EXCEPT ![c] = "applied"]
       \/ UNCHANGED pooled /\ claim' = [claim EXCEPT ![c] = "refused"]
    /\ UNCHANGED <<phase, gate, opening, selected, pages>>

\* finish_claim: publish the outcome and wake everyone.
ClaimFinishes(c) ==
    /\ claim[c] \in {"applied", "refused"}
    /\ gate = Nobody
    /\ phase' = IF claim[c] = "applied" THEN "Claimed" ELSE "Unclaimed"
    /\ NotifyAll(c, IF claim[c] = "applied" THEN "claimed" ELSE "failed")
    /\ UNCHANGED <<gate, selected, pages, writer, pooled>>

-----------------------------------------------------------------------------
(* propagate_checkpoint_claim_to_writer_task, after a successful claim.    *)

\* writer_task_handle: the first caller spawns the task and opens its
\* connection; the others wait for that open (OnceLock::get_or_init).
PropagateSpawns(c) ==
    /\ claim[c] = "claimed"
    /\ opening[TaskOpener] = "idle"
    /\ opening' = [opening EXCEPT ![TaskOpener] = "entering"]
    /\ UNCHANGED <<phase, gate, claim, selected, pages, writer, pooled>>

\* Fault: the task's connection is taken to have inherited the setting.
PropagateAssumed(c) ==
    /\ claim[c] = "claimed"
    /\ claim' = [claim EXCEPT ![c] = "propagated"]
    /\ UNCHANGED <<phase, gate, opening, selected, pages, writer, pooled>>

\* The request runs on the task's connection, or no task could be spawned.
Propagate(c) ==
    /\ claim[c] = "claimed"
    /\ opening[TaskOpener] \in {"open", "failed"}
    /\ pages' = IF opening[TaskOpener] = "open"
                  THEN [pages EXCEPT ![TaskOpener] = "off"] ELSE pages
    /\ claim' = [claim EXCEPT ![c] = "propagated"]
    /\ UNCHANGED <<phase, gate, opening, selected, writer, pooled>>

\* The request is refused or fails; the task warns and goes on.
PropagateFails(c) ==
    /\ claim[c] = "claimed"
    /\ opening[TaskOpener] = "open"
    /\ claim' = [claim EXCEPT ![c] = "unreached"]
    /\ UNCHANGED <<phase, gate, opening, selected, pages, writer, pooled>>

-----------------------------------------------------------------------------
(* configure_wal_autocheckpoint, called by every standalone open.          *)

OpenCalled(o) ==
    /\ opening[o] = "idle"
    /\ opening' = [opening EXCEPT ![o] = "entering"]
    /\ UNCHANGED <<phase, gate, claim, selected, pages, writer, pooled>>

\* settled_state: wait while a claim is in flight.
OpenWaits(o) ==
    /\ opening[o] = "entering"
    /\ gate = Nobody
    /\ phase = "Claiming"
    /\ opening' = [opening EXCEPT ![o] = "asleep"]
    /\ UNCHANGED <<phase, gate, claim, selected, pages, writer, pooled>>

\* Fault: the gate is let go as soon as the posture is read.
OpenSelectsUnguarded(o) ==
    /\ opening[o] = "entering"
    /\ gate = Nobody
    /\ phase # "Claiming"
    /\ selected' = [selected EXCEPT ![o] = Posture(phase)]
    /\ opening' = [opening EXCEPT ![o] = "applying"]
    /\ UNCHANGED <<phase, gate, claim, pages, writer, pooled>>

\* The settled posture is selected, and the gate stays locked.
OpenSelects(o) ==
    /\ opening[o] = "entering"
    /\ gate = Nobody
    /\ phase # "Claiming"
    /\ gate' = o
    /\ selected' = [selected EXCEPT ![o] = Posture(phase)]
    /\ opening' = [opening EXCEPT ![o] = "applying"]
    /\ UNCHANGED <<phase, claim, pages, writer, pooled>>

\* The PRAGMA is applied, or fails and the open with it; the gate is released.
OpenApplies(o) ==
    /\ opening[o] = "applying"
    /\ gate' = IF gate = o THEN Nobody ELSE gate
    /\ \/ /\ pages' = [pages EXCEPT ![o] = selected[o]]
          /\ opening' = [opening EXCEPT ![o] = "open"]
       \/ /\ opening' = [opening EXCEPT ![o] = "failed"]
          /\ UNCHANGED pages
    /\ UNCHANGED <<phase, claim, selected, writer, pooled>>

\* A standalone connection is closed, or a failed open is tried again; the
\* writer task's is kept, and its failure remembered.
OpenerReturns(o) ==
    /\ o # TaskOpener
    /\ opening[o] \in {"open", "failed"}
    /\ opening' = [opening EXCEPT ![o] = "idle"]
    /\ UNCHANGED <<phase, gate, claim, selected, pages, writer, pooled>>

-----------------------------------------------------------------------------
(* Another user of the pooled writer.                                      *)

UserLocks ==
    /\ writer = Nobody
    /\ pooled # "retired"
    /\ writer' = "user"
    /\ UNCHANGED <<phase, gate, claim, opening, selected, pages, pooled>>

\* The guard drops; a retired connection has been replaced by then.
UserReleases ==
    /\ writer = "user"
    /\ writer' = Nobody
    /\ pooled' \in {pooled, "retired"}
    /\ UNCHANGED <<phase, gate, claim, opening, selected, pages>>

-----------------------------------------------------------------------------
ClaimStep(c) ==
    \/ ClaimCalled(c) \/ ClaimStarts(c) \/ ClaimJoins(c) \/ ClaimKnown(c)
    \/ ClaimLocks(c) \/ ClaimRefused(c) \/ ClaimApplies(c) \/ ClaimFinishes(c)
    \/ PropagateSpawns(c) \/ Propagate(c) \/ PropagateFails(c)

OpenStep(o) ==
    \/ OpenCalled(o) \/ OpenWaits(o) \/ OpenSelects(o) \/ OpenApplies(o)
    \/ OpenerReturns(o)

GateNext ==
    \/ \E c \in Claimer : ClaimStep(c)
    \/ \E o \in Opener : OpenStep(o)
    \/ UserLocks
    \/ UserReleases

GateSpec == GateInit /\ [][GateNext]_gateVars

(***************************************************************************)
(* Fairness.  A thread that can run runs, and the gate's mutex (a          *)
(* parking_lot mutex, eventually fair) does not starve one that keeps      *)
(* finding it free.  Nothing is assumed of the pooled writer's user, who   *)
(* may keep the mutex forever: checkout_timeout bounds the claimer's wait. *)
(***************************************************************************)
GateFairness ==
    /\ \A c \in Claimer :
         /\ SF_gateVars(ClaimStarts(c) \/ ClaimJoins(c) \/ ClaimKnown(c) \/ ClaimFinishes(c))
         /\ WF_gateVars(ClaimLocks(c) \/ ClaimRefused(c) \/ ClaimApplies(c))
    /\ \A o \in Opener :
         /\ SF_gateVars(OpenWaits(o) \/ OpenSelects(o))
         /\ WF_gateVars(OpenApplies(o))

GateFairSpec == GateSpec /\ GateFairness

-----------------------------------------------------------------------------
(* Properties.                                                             *)

\* A settled posture is everyone's: while the pool is unclaimed (a failed
\* claim included) no connection is without reclamation of its WAL, and once
\* it is claimed the pooled writer is not on the fallback.
PostureIsSettled ==
    /\ phase = "Unclaimed" =>
         pooled # "off" /\ \A o \in Opener : opening[o] = "open" => pages[o] = "fallback"
    /\ phase = "Claimed" => pooled # "fallback"

\* A claim falls before or after the configuration of a connection, never
\* inside it: a connection is configured with the setting of the phase it is
\* configured under, and never while a claim is in flight.
OpenLinearized ==
    [][\A o \in Opener : opening[o] # "open" /\ opening'[o] = "open" =>
          phase # "Claiming" /\ pages'[o] = Posture(phase')]_gateVars

\* Whoever is told that the pool is claimed is told the truth, the callers
\* that joined another's claim included, and the claim is never undone.
ClaimIsHonest ==
    \A c \in Claimer :
      claim[c] \in {"claimed", "propagated", "unreached"} => phase = "Claimed"

\* The claimers that are configuring a claim.
Configuring == {c \in Claimer : claim[c] \in {"locking", "applying", "applied", "refused"}}

\* One caller at a time configures a claim, exactly while one is in flight
\* (finish_claim's debug_assert), and only with the gate unlocked.
OneClaimInFlight ==
    /\ phase = "Claiming" <=> Configuring # {}
    /\ \A c, d \in Configuring : c = d
    /\ phase = "Claiming" => gate = Nobody

\* Once a claim was propagated the writer task's connection is not left with
\* the autocheckpoint on its commit path, whether it was opened before,
\* during or after the claim.
TaskConnectionReached ==
    (\E c \in Claimer : claim[c] = "propagated") =>
      opening[TaskOpener] = "failed" \/ pages[TaskOpener] = "off"

\* Every claim ends, even when a user never gives the pooled writer back.
ClaimsEnd ==
    \A c \in Claimer :
      claim[c] \in {"entering", "asleep", "locking"} ~> claim[c] \in {"claimed", "failed"}

\* No open waits forever behind a claim.
OpensEnd ==
    \A o \in Opener : opening[o] \in {"entering", "asleep"} ~> opening[o] \in {"open", "failed"}

\* The gate never gets stuck: neither a claim that holds it while it waits for
\* the pooled writer nor the opens behind that claim.
GateNeverStuck == ClaimsEnd /\ OpensEnd
=============================================================================
