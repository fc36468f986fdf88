-------------------------- MODULE ProviderAdmission --------------------------
(***************************************************************************)
(* The Provider Admission Kernel (src/macr_runtime/provider_admission.py)  *)
(* for one provider domain: the shared SQLite tables that every process    *)
(* consults before it may use the provider's network transport.            *)
(*                                                                         *)
(* Every kernel method runs its reads and writes in one BEGIN IMMEDIATE    *)
(* transaction, so each is one action here, with the expiry sweep that     *)
(* try_admit and begin_transport run first inside the same action.  The    *)
(* exception is try_admit, which verifies the caller's dispatch authority  *)
(* in an earlier transaction: VerifyAuthority and TryAdmit are two steps.  *)
(*                                                                         *)
(* Time is not a number: `lapsed' holds the live rows whose expires_at has *)
(* been reached, `lost' the requests whose dispatch authority no longer    *)
(* verifies (revoked, expired, or issued in an earlier epoch); neither     *)
(* ever recovers.  A permit is named by its request: a row is granted at   *)
(* most once, so the fencing token adds nothing to the request id.  The    *)
(* receipts' digest chain is abstracted by control.episode.                *)
(***************************************************************************)
EXTENDS Integers, FiniteSets

CONSTANTS
    Requests,        \* request ids; a request id is a fresh UUIDv4 per attempt
    Projects,        \* project binding digests
    ProjectOf,       \* ProviderAdmissionRequest.project_binding_digest
    LaneOf,          \* ProviderAdmissionRequest.lane
    LastPolicy,      \* newest built-in policy revision; revisions are 1..LastPolicy
    Scope,           \* policy.uncertain_dispatch_scope
    HardMax,         \* policy.hard_max
    Cap,             \* policy.per_project_cap
    FirstTarget,     \* effective_target of the policy installed at genesis
    Targets,         \* effective targets an operator may ask for
    Authorities,     \* one-use control authorities an operator may issue
    None

Policies == 1 .. LastPolicy
Lanes == {"interactive", "routine", "bulk"}

ASSUME ConstantsAssumption ==
    /\ IsFiniteSet(Requests) /\ IsFiniteSet(Projects)
    /\ ProjectOf \in [Requests -> Projects]
    /\ LaneOf \in [Requests -> Lanes]
    /\ LastPolicy \in Nat \ {0}
    /\ Scope \in [Policies -> {"global", "capacity_reservation"}]
    /\ HardMax \in [Policies -> Nat \ {0}]
    /\ Cap \in [Policies -> Nat \ {0}]
    /\ Targets \subseteq Nat
    /\ FirstTarget \in Targets \cap (1 .. HardMax[1])
    /\ None \notin Requests \cup Lanes

VARIABLES
    req,        \* provider_admission_requests.state ("absent": no row)
    before,     \* <<r, s>>: r's requested_at is earlier than s's (both may wait)
    lapsed,     \* live rows with expires_at <= now
    evidenced,  \* unresolved rows with a terminal_evidence_digest
    units,      \* provider_admission_projects.active_units
    lastGrant,  \* provider_admission_projects.last_grant_sequence
    grantSeq,   \* provider_admission_state.grant_sequence
    lastLane,   \* provider_admission_state.last_granted_lane
    control,    \* the rest of provider_admission_state, and what the receipts say
    checked,    \* callers between _verify_authority and the locked part of try_admit
    lost,       \* requests whose dispatch authority does not verify any more
    ctl,        \* control authorities: what each is issued for, or Spent
    stopEvidence \* history: pressure or missing evidence not yet answered by a probe

rows == <<req, lapsed, evidenced, units>>
fairness == <<lastGrant, grantSeq, lastLane>>
vars == <<req, before, lapsed, evidenced, units, lastGrant, grantSeq, lastLane,
          control, checked, lost, ctl, stopEvidence>>

States == {"absent", "waiting", "granted", "dispatched", "completed",
           "cancelled", "reconciliation_required", "reconciled"}
Live == {"waiting", "granted", "dispatched"}
Holding == {"granted", "dispatched", "reconciliation_required"}
Circuits == {"closed", "open", "half_open"}
Episodes == {"none", "unknown_only", "mixed"}

InState(q, S) == {r \in Requests : q[r] \in S}
Unresolved(q) == InState(q, {"reconciliation_required"})
Active(q) == InState(q, Holding)
ActiveOf(q, p) == {r \in Active(q) : ProjectOf[r] = p}

\* What _reconciliation_isolation_snapshot_digest tells apart: the holding rows.
\* (A receipt that leaves them alone cannot follow while an outcome is unresolved.)
NoSnapshot == {}
Snapshot == IF Unresolved(req) = {} THEN NoSnapshot ELSE Active(req)

\* What an operator's one-use authority is issued for (the *Binding classes).
Unissued == [kind |-> "unissued"]
Spent == [kind |-> "spent"]
TargetBindings == [kind : {"target"}, policy : Policies, target : Targets]
SupersedeBindings ==
    [kind : {"supersede"}, policy : Policies, target : Targets, snapshot : SUBSET Requests]
HalfOpenBindings == [kind : {"half_open"}, policy : Policies, probe : Requests]
Bindings == TargetBindings \cup SupersedeBindings \cup HalfOpenBindings

(***************************************************************************)
(* Control receipts.  Every change of the circuit, target or policy is     *)
(* appended to a digest chain; the chain is represented by what            *)
(* _open_episode_is_unknown_only computes from it: whether the current     *)
(* open episode began with, and holds, nothing but unknown outcomes.       *)
(***************************************************************************)
\* (Definitions with a suffix are mutants: bugs the runs show the properties to catch.)
Disqualifying == {"circuit_opened", "half_open_failed", "half_open_cancelled",
                  "permit_expired"}

NextEpisode_KeepsUnknown(c, kind, circuit, signal) ==
    IF circuit # "open" THEN "none"
    ELSE IF c.circuit # "open"
         THEN IF kind = "unknown_after_dispatch" THEN "unknown_only" ELSE "mixed"
         ELSE c.episode

NextEpisode(c, kind, circuit, signal) ==
    IF circuit # "open" THEN "none"
    ELSE IF c.circuit # "open"
         THEN IF kind = "unknown_after_dispatch" THEN "unknown_only" ELSE "mixed"
         ELSE IF kind \in Disqualifying \/ signal \in {"local_integrity_stop", "pressure"}
              THEN "mixed" ELSE c.episode

AppendTransition(c, kind, circuit, signal) ==
    [c EXCEPT !.circuit = circuit, !.probe = None,
              !.episode = NextEpisode(c, kind, circuit, signal)]

(***************************************************************************)
(* _expire, the sweep at the head of try_admit and begin_transport.        *)
(***************************************************************************)
ExpiredGrants == {r \in lapsed : req[r] = "granted"}
ExpiredDispatches == {r \in lapsed : req[r] = "dispatched"}

SweptState_Drops(r) == IF r \notin lapsed THEN req[r] ELSE "cancelled"
SweptState(r) ==
    IF r \notin lapsed THEN req[r]
    ELSE IF req[r] = "dispatched" THEN "reconciliation_required" ELSE "cancelled"

SweptReq == [r \in Requests |-> SweptState(r)]

SweptUnits_Forgets == units
SweptUnits ==
    [p \in Projects |-> units[p] - Cardinality({r \in ExpiredGrants : ProjectOf[r] = p})]

SweptControl ==
    IF ExpiredDispatches # {}
    THEN IF Scope[control.policy] = "capacity_reservation" /\ control.circuit = "closed"
         THEN AppendTransition(control, "dispatch_expired_isolated", "closed",
                               "dispatch_expired_isolated")
         ELSE AppendTransition(control, "permit_expired", "open", "permit_expired")
    ELSE IF control.circuit = "half_open" /\ ExpiredGrants # {}
         THEN AppendTransition(control, "half_open_cancelled", "open",
                               "half_open_probe_expired")
         ELSE control

\* The sweep appends each receipt from the control row it read first, so a
\* second append in one sweep fails its compare-and-set and rolls back.
SweepConflicts ==
    control.circuit = "half_open" /\ Cardinality(ExpiredGrants)
        + (IF ExpiredDispatches # {} THEN 1 ELSE 0) > 1

\* Only the order of rows that wait, or are about to be inserted, matters.
MayWait(q, ch) == {r \in Requests : q[r] = "waiting" \/ (q[r] = "absent" /\ r \in ch)}
KeepOrder == before' = before \cap (MayWait(req', checked') \X MayWait(req', checked'))

CommitSweep ==
    /\ req' = SweptReq
    /\ lapsed' = {}
    /\ units' = SweptUnits
    /\ control' = SweptControl

(***************************************************************************)
(* Grant selection.                                                        *)
(***************************************************************************)
Eligible(q) ==
    {r \in InState(q, {"waiting"}) :
        Cardinality(ActiveOf(q, ProjectOf[r])) + 1 <= Cap[control.policy]}

\* Interactive takes the next slot unless it had the previous one.
LaneRows(q) ==
    LET interactive == {r \in Eligible(q) : LaneOf[r] = "interactive"}
        others == Eligible(q) \ interactive
    IN  IF interactive # {} /\ (lastLane # "interactive" \/ others = {})
        THEN interactive ELSE others

\* Least recently granted project first, then request order.
Precedes_AnyOrder(r, s) == lastGrant[ProjectOf[r]] <= lastGrant[ProjectOf[s]]
Precedes(r, s) ==
    \/ lastGrant[ProjectOf[r]] < lastGrant[ProjectOf[s]]
    \/ lastGrant[ProjectOf[r]] = lastGrant[ProjectOf[s]] /\ <<r, s>> \in before

Selected(q) ==
    {r \in LaneRows(q) : \A s \in LaneRows(q) \ {r} : Precedes(r, s)}

EffectiveCapacity(c) == IF c.circuit = "half_open" THEN 1 ELSE c.target

(***************************************************************************)
(* Initial state: genesis on a quiescent runtime (_install_policy).        *)
(***************************************************************************)
Init ==
    /\ req = [r \in Requests |-> "absent"]
    /\ before = {}
    /\ lapsed = {}
    /\ evidenced = {}
    /\ units = [p \in Projects |-> 0]
    /\ lastGrant = [p \in Projects |-> 0]
    /\ grantSeq = 0
    /\ lastLane = None
    /\ control = [policy |-> 1, target |-> FirstTarget, circuit |-> "closed",
                  probe |-> None, episode |-> "none"]
    /\ checked = {}
    /\ lost = {}
    /\ ctl = [a \in Authorities |-> Unissued]
    /\ stopEvidence = FALSE

(***************************************************************************)
(* Environment: the clock passes a row's expiry, an authority stops        *)
(* verifying, an operator issues a control authority for what is now read. *)
(***************************************************************************)
Lapse(r) ==
    /\ req[r] \in Live /\ r \notin lapsed
    /\ lapsed' = lapsed \cup {r}
    /\ UNCHANGED <<req, before, evidenced, units, fairness, control, checked,
                   lost, ctl, stopEvidence>>

LoseAuthority(r) ==
    /\ req[r] \in {"absent", "waiting", "granted"} /\ r \notin lost
    /\ lost' = lost \cup {r}
    /\ UNCHANGED <<rows, before, fairness, control, checked, ctl, stopEvidence>>

IssueControl(a) ==
    /\ ctl[a] = Unissued
    /\ \E b \in [kind : {"target"}, policy : {control.policy}, target : Targets]
            \cup [kind : {"supersede"}, policy : {control.policy}, target : Targets,
                  snapshot : {NoSnapshot, Snapshot}]
            \cup [kind : {"half_open"}, policy : {control.policy}, probe : Requests] :
          ctl' = [ctl EXCEPT ![a] = b]
    /\ UNCHANGED <<rows, before, fairness, control, checked, lost, stopEvidence>>

(***************************************************************************)
(* try_admit.  The caller verifies its authority and reads the clock, then *)
(* takes the write lock; requested_at is that earlier clock reading.       *)
(***************************************************************************)
\* r, if it has no row yet, would be inserted with the latest requested_at.
Youngest(r) == before \cup ((MayWait(req, checked) \ {r}) \X {r})

VerifyAuthority(r) ==
    /\ r \notin lost /\ r \notin checked
    /\ checked' = checked \cup {r}
    /\ before' = IF req[r] = "absent" THEN Youngest(r) ELSE before
    /\ UNCHANGED <<rows, fairness, control, lost, ctl, stopEvidence>>

\* Refusals that commit the sweep and raise ProviderAdmissionReconciliationError.
AdmitRefused(r) ==
    \/ SweptControl.circuit = "open"
    \/ SweptControl.circuit = "half_open" /\ r # SweptControl.probe
    \/ Scope[control.policy] = "global" /\ Unresolved(SweptReq) # {}

\* Nothing but the sweep is committed: a refusal, or a grant handed out again.
AdmitSweepsOnly(r) ==
    /\ AdmitRefused(r) \/ SweptReq[r] = "granted"
    /\ CommitSweep
    /\ UNCHANGED fairness

InsertedReq(r) == [SweptReq EXCEPT ![r] = "waiting"]

HasTurn(r) ==
    /\ Cardinality(Active(InsertedReq(r))) + 1 <= EffectiveCapacity(SweptControl)
    /\ r \in Selected(InsertedReq(r))

\* BUSY: the row stays waiting and keeps its place.
AdmitWaits(r) ==
    /\ ~HasTurn(r)
    /\ req' = InsertedReq(r)
    /\ units' = SweptUnits
    /\ UNCHANGED fairness

AdmitGrants(r) ==
    /\ HasTurn(r)
    /\ req' = [SweptReq EXCEPT ![r] = "granted"]
    /\ units' = [SweptUnits EXCEPT ![ProjectOf[r]] = @ + 1]
    /\ grantSeq' = grantSeq + 1
    /\ lastGrant' = [lastGrant EXCEPT ![ProjectOf[r]] = grantSeq + 1]
    /\ lastLane' = LaneOf[r]

\* A retry of a request past "granted" (after the sweep) raises, and so does a
\* sweep that appends twice; both roll everything back, the sweep included.
AdmitRaises(r) ==
    \/ SweepConflicts
    \/ /\ ~AdmitRefused(r)
       /\ SweptReq[r] \notin {"absent", "waiting", "granted"}

TryAdmit(r) ==
    /\ r \in checked
    /\ checked' = checked \ {r}
    /\ UNCHANGED <<evidenced, lost, ctl, stopEvidence>>
    /\ \/ AdmitRaises(r) /\ UNCHANGED <<req, lapsed, units, fairness, control>>
       \/ ~SweepConflicts /\ AdmitSweepsOnly(r)
       \/ /\ ~SweepConflicts /\ ~AdmitRefused(r)
          /\ SweptReq[r] \in {"absent", "waiting"}
          /\ lapsed' = {}
          /\ control' = SweptControl
          /\ AdmitWaits(r) \/ AdmitGrants(r)
    /\ KeepOrder

(***************************************************************************)
(* Cancellation before transport.                                          *)
(***************************************************************************)
\* _cancel_granted_row, on the rows q, counters u and control row c.
CancelGranted(r, q, u, c, reason) ==
    /\ req' = [q EXCEPT ![r] = "cancelled"]
    /\ units' = [u EXCEPT ![ProjectOf[r]] = @ - 1]
    /\ control' = IF c.circuit = "half_open"
                  THEN AppendTransition(c, "half_open_cancelled", "open", reason)
                  ELSE c

CancelBeforeTransport(r) ==
    /\ req[r] = "granted"
    /\ CancelGranted(r, req, units, control, "half_open_cancelled")
    /\ lapsed' = lapsed \ {r}
    /\ UNCHANGED <<before, evidenced, fairness, checked, lost, ctl, stopEvidence>>

CancelWaiting(r) ==
    /\ req[r] = "waiting"
    /\ req' = [req EXCEPT ![r] = "cancelled"]
    /\ lapsed' = lapsed \ {r}
    /\ UNCHANGED <<evidenced, units, fairness, control, checked, lost, ctl, stopEvidence>>
    /\ KeepOrder

(***************************************************************************)
(* begin_transport: the last governed operation before the network.        *)
(***************************************************************************)
TransportBlocked(r) ==
    \/ SweptControl.circuit = "open"
    \/ Scope[control.policy] = "global" /\ Unresolved(SweptReq) # {}
    \/ SweptControl.circuit = "half_open" /\ r # SweptControl.probe
    \/ r \in lost

BeginTransport(r) ==
    /\ req[r] \notin {"absent", "waiting"}        \* the caller has a permit for r
    /\ ~SweepConflicts
    /\ lapsed' = {}
    /\ UNCHANGED <<evidenced, fairness, checked, lost, ctl, stopEvidence>>
    /\ \/ SweptReq[r] # "granted" /\ CommitSweep    \* a used or expired permit
       \/ /\ SweptReq[r] = "granted" /\ TransportBlocked(r)
          /\ CancelGranted(r, SweptReq, SweptUnits, SweptControl, "grant_blocked")
       \/ /\ SweptReq[r] = "granted" /\ ~TransportBlocked(r)
          /\ req' = [SweptReq EXCEPT ![r] = "dispatched"]
          /\ units' = SweptUnits
          /\ control' = SweptControl
    /\ KeepOrder

(***************************************************************************)
(* finish: what the caller observed of the transport.                      *)
(***************************************************************************)
Outcomes ==
    {o \in [net : {"yes", "no", "unknown"}, resp : {"yes", "no", "unknown"},
            status : {"none", "ok", "pressure"}, persisted : BOOLEAN] :
        /\ o.resp = "yes" => o.net = "yes"
        /\ o.status # "none" => o.resp = "yes"}

Pressure(o) == o.status = "pressure"           \* HTTP 429 or 5xx
IntegrityStop(o) == ~o.persisted \/ o.net = "unknown"
Ambiguous(o) == IntegrityStop(o) \/ (o.net = "yes" /\ o.resp # "yes")

Isolated(o) ==
    /\ Scope[control.policy] = "capacity_reservation"
    /\ ~Pressure(o) /\ o.persisted /\ o.net = "yes" /\ o.resp = "no"
    /\ control.circuit = "closed"

FinishCircuit_SiblingCloses(o) ==
    IF Ambiguous(o)
    THEN IF Isolated(o) THEN "closed" ELSE "open"
    ELSE IF Pressure(o) THEN "open" ELSE "closed"
FinishCircuit(o) ==
    IF Ambiguous(o)
    THEN IF Isolated(o) THEN "closed" ELSE "open"
    ELSE IF control.circuit = "half_open"
         THEN IF ~Pressure(o) /\ o.net = "yes" /\ o.resp = "yes" THEN "closed" ELSE "open"
         ELSE IF Pressure(o) THEN "open" ELSE control.circuit

FinishSignal(o) ==
    IF Pressure(o) THEN "pressure"
    ELSE IF IntegrityStop(o) THEN "local_integrity_stop"
    ELSE IF Ambiguous(o) THEN "unknown_after_dispatch" ELSE "terminal"

FinishKind(o) ==
    IF control.circuit = "half_open"
    THEN IF FinishCircuit(o) = "closed" THEN "half_open_succeeded" ELSE "half_open_failed"
    ELSE IF Isolated(o) THEN "unknown_after_dispatch_isolated"
    ELSE IF Ambiguous(o) /\ ~Pressure(o) THEN FinishSignal(o)
    ELSE IF control.circuit = "open" THEN "terminal_observed_while_open"
    ELSE IF Pressure(o) THEN "circuit_opened" ELSE "terminal_observed"

Finish(r, o) ==
    /\ req[r] = "dispatched"
    /\ req' = [req EXCEPT ![r] = IF Ambiguous(o) THEN "reconciliation_required"
                                 ELSE "completed"]
    /\ units' = IF Ambiguous(o) THEN units
                ELSE [units EXCEPT ![ProjectOf[r]] = @ - 1]
    /\ control' = AppendTransition(control, FinishKind(o), FinishCircuit(o),
                                   FinishSignal(o))
    /\ stopEvidence' = IF Pressure(o) \/ IntegrityStop(o) THEN TRUE
                       ELSE stopEvidence /\ FinishKind(o) # "half_open_succeeded"
    /\ lapsed' = lapsed \ {r}
    /\ evidenced' = IF Ambiguous(o) THEN evidenced \cup {r} ELSE evidenced
    /\ UNCHANGED <<before, fairness, checked, lost, ctl>>

(***************************************************************************)
(* resolve_reconciliation: an operator releases one named unit.            *)
(***************************************************************************)
ResolveReconciliation(r) ==
    /\ req[r] = "reconciliation_required"
    /\ control.circuit # "half_open"   \* the receipt would lack its probe, and raise
    /\ req' = [req EXCEPT ![r] = "reconciled"]
    /\ units' = [units EXCEPT ![ProjectOf[r]] = @ - 1]
    /\ control' = AppendTransition(control, "reconciliation_resolved",
                                   control.circuit, "reconciled")
    /\ evidenced' = evidenced \ {r}
    /\ UNCHANGED <<before, lapsed, fairness, checked, lost, ctl, stopEvidence>>

(***************************************************************************)
(* Operator control.  Each consumes its one-use authority.                 *)
(***************************************************************************)
Consume(a, b) ==
    /\ ctl[a] = b
    /\ ctl' = [ctl EXCEPT ![a] = Spent]

AllowedTarget(p, t) == t \in 1 .. HardMax[p]

\* No request is waiting, active or unresolved.
Idle_IgnoresWaiting == Active(req) = {}
Idle == InState(req, Live \cup Holding) = {}

ActivateTarget(a, t) ==
    /\ Consume(a, [kind |-> "target", policy |-> control.policy, target |-> t])
    /\ AllowedTarget(control.policy, t)
    /\ control.circuit = "closed"
    /\ control.target # t
    /\ Idle
    /\ control' = [AppendTransition(control, "target_activated", "closed",
                                    "target_activated") EXCEPT !.target = t]
    /\ UNCHANGED <<rows, before, fairness, checked, lost, stopEvidence>>

ActivateHalfOpen(a, r) ==
    /\ Consume(a, [kind |-> "half_open", policy |-> control.policy, probe |-> r])
    /\ LaneOf[r] = "interactive"
    /\ r \notin lost
    /\ control.circuit = "open"
    /\ Idle
    /\ req[r] = "absent"
    /\ control' = [AppendTransition(control, "half_open_activated", "half_open",
                                    "half_open_authorized") EXCEPT !.probe = r]
    /\ UNCHANGED <<rows, before, fairness, checked, lost, stopEvidence>>

\* Unknown outcomes may be carried into a successor that isolates them, if the
\* open episode holds nothing else, the operator's snapshot is of this very
\* state, and every unresolved row has its evidence digest.
CanIsolate(p, snapshot) ==
    /\ Scope[control.policy] = "global" /\ Scope[p] = "capacity_reservation"
    /\ snapshot = Snapshot
    /\ Unresolved(req) \subseteq evidenced
    /\ control.circuit = "open"
    /\ control.episode = "unknown_only"

\* The unresolved units fit the successor's target and per-project cap.
FitsSuccessor_OnlyCaps(p, t) == \A j \in Projects : units[j] <= Cap[p]
FitsSuccessor(p, t) ==
    /\ Cardinality(Unresolved(req)) <= t
    /\ \A j \in Projects : units[j] <= Cap[p]

\* Kernels of the old policy fail from here on: their pending calls roll back.
SupersedePolicy(a, t) ==
    LET next == control.policy + 1 IN
    \E snapshot \in SUBSET Requests :
    /\ Consume(a, [kind |-> "supersede", policy |-> control.policy, target |-> t,
                   snapshot |-> snapshot])
    /\ next \in Policies
    /\ AllowedTarget(next, t)
    /\ InState(req, Live) = {}
    /\ \A p \in Projects :
          units[p] = Cardinality({r \in Unresolved(req) : ProjectOf[r] = p})
    /\ FitsSuccessor(next, t)
    /\ IF Unresolved(req) # {} THEN CanIsolate(next, snapshot)
       ELSE control.circuit = "closed" /\ snapshot = NoSnapshot
    /\ control' = [AppendTransition(control, "policy_superseded", "closed",
                                    "policy_superseded")
                      EXCEPT !.policy = next, !.target = t]
    /\ checked' = {}
    /\ UNCHANGED <<rows, fairness, lost, stopEvidence>>
    /\ KeepOrder

Next ==
    \/ \E r \in Requests :
        \/ Lapse(r) \/ LoseAuthority(r) \/ VerifyAuthority(r) \/ TryAdmit(r)
        \/ CancelBeforeTransport(r) \/ CancelWaiting(r) \/ BeginTransport(r)
        \/ ResolveReconciliation(r)
        \/ \E o \in Outcomes : Finish(r, o)
    \/ \E a \in Authorities :
        \/ IssueControl(a)
        \/ \E t \in Targets : ActivateTarget(a, t) \/ SupersedePolicy(a, t)
        \/ \E r \in Requests : ActivateHalfOpen(a, r)

Spec == Init /\ [][Next]_vars

(***************************************************************************)
(* Properties.                                                             *)
(***************************************************************************)
ControlStates ==
    [policy : Policies, target : Targets, circuit : Circuits,
     probe : Requests \cup {None}, episode : Episodes]

\* Every table row and projection has the shape its schema and CHECKs give it.
TypeOK ==
    /\ req \in [Requests -> States]
    /\ before \subseteq Requests \X Requests
    /\ lapsed \subseteq InState(req, Live)
    /\ evidenced \subseteq Unresolved(req)
    /\ units \in [Projects -> Int]
    /\ lastGrant \in [Projects -> Nat]
    /\ grantSeq \in Nat
    /\ lastLane \in Lanes \cup {None}
    /\ control \in ControlStates
    /\ control.target \in 1 .. HardMax[control.policy]
    /\ checked \subseteq Requests
    /\ lost \subseteq Requests
    /\ ctl \in [Authorities -> Bindings \cup {Unissued, Spent}]
    /\ stopEvidence \in BOOLEAN

\* The units held by grants, transports and unresolved outcomes never exceed
\* what the control row allows, whatever targets, probes, expiries and policy
\* changes came between (try_admit, activate_target, supersede_policy).
CapacityBound == Cardinality(Active(req)) <= EffectiveCapacity(control)

\* No project holds more than the current policy's per-project cap.
ProjectCap == \A p \in Projects : Cardinality(ActiveOf(req, p)) <= Cap[control.policy]

\* The denormalised provider_admission_projects.active_units is the number of
\* the project's holding rows: no path forgets or repeats a decrement.
UnitsAgree == \A p \in Projects : units[p] = Cardinality(ActiveOf(req, p))

\* While half open, only the bound probe may be live, it is never left waiting,
\* and nothing is unresolved; so a sweep appends at most one receipt and
\* resolve_reconciliation never meets a half-open circuit.
HalfOpenExclusive ==
    /\ control.circuit = "half_open" <=> control.probe # None
    /\ control.circuit = "half_open" =>
        /\ \A r \in Requests \ {control.probe} : req[r] \notin Live \cup Holding
        /\ req[control.probe] \in {"absent", "granted", "dispatched"}

\* After a 429/5xx or a missing terminal record the circuit stays off closed
\* until a probe succeeds: no sibling's success, resolution, sweep or policy
\* migration reopens the provider (finish, _open_episode_is_unknown_only).
PressureStops == stopEvidence => control.circuit # "closed"

\* Under the provider-global scope an unresolved outcome means an open circuit.
GlobalStop ==
    Scope[control.policy] = "global" /\ Unresolved(req) # {} => control.circuit = "open"

\* Whenever the open episode allows the isolation of its unknown outcomes,
\* their snapshot can be read: each has its terminal evidence digest.
SnapshotReadable ==
    Scope[control.policy] = "global" /\ control.episode = "unknown_only"
        => Unresolved(req) \subseteq evidenced

\* A unit whose transport began is released only with evidence: the provider's
\* answer recorded by finish, or an operator's resolution.  Never by a TTL.
ReleasedByEvidence ==
    [][\A r \in Requests :
        req[r] \in {"dispatched", "reconciliation_required"} /\ req'[r] \notin Holding
            => \/ req[r] = "dispatched" /\ req'[r] = "completed"
               \/ req[r] = "reconciliation_required" /\ req'[r] = "reconciled"]_vars

\* An open circuit is left only by a step that spends an operator's authority.
OpenLeftByAuthority ==
    [][control.circuit = "open" /\ control'.circuit # "open"
        => \E a \in Authorities : ctl[a] # Spent /\ ctl'[a] = Spent]_vars

\* A grant never overtakes an older waiting request of its project and lane
\* that the sweep left waiting, however the callers' retries interleave.
NoOvertaking ==
    [][\A r \in Requests : req[r] # "granted" /\ req'[r] = "granted" =>
        \A s \in Requests :
            req'[s] = "waiting" /\ ProjectOf[s] = ProjectOf[r] /\ LaneOf[s] = LaneOf[r]
                => <<s, r>> \notin before]_vars

\* The side of the alternation that had the last grant (at first, the lanes that are
\* not interactive) has the next one only when the other side has no waiting request
\* whose project is under its cap.
LanesAlternate ==
    [][grantSeq' # grantSeq /\ (lastLane = "interactive" <=> lastLane' = "interactive")
        => \A s \in Requests :
            req'[s] = "waiting" /\ (LaneOf[s] = "interactive" <=> lastLane # "interactive")
                => Cardinality(ActiveOf(SweptReq, ProjectOf[s])) >= Cap[control.policy]]_vars

\* The kernel implements the ledger its callers rely on: one unit, one transport,
\* given back by an answer or an operator, never more than any policy's maximum.
UnitOf(state) ==
    CASE state \in {"absent", "waiting"} -> "none"
      [] state \in {"granted", "dispatched"} -> state
      [] state = "reconciliation_required" -> "unresolved"
      [] OTHER -> "closed"
Ledger ==
    INSTANCE AdmissionLedger
        WITH unit <- [r \in Requests |-> UnitOf(req[r])],
             Bound <- CHOOSE n \in {HardMax[p] : p \in Policies} :
                         \A p \in Policies : HardMax[p] <= n
ImplementsLedger == Ledger!Spec

\* Both caps at once: of the provider and of each project.
CapacityHolds == CapacityBound /\ ProjectCap

\* What stops the provider, whatever is reported, swept, resolved and migrated in
\* between: pressure until a probe, a global unknown outcome until it is resolved,
\* and nothing is isolated without its evidence.
StopsHold == PressureStops /\ GlobalStop /\ SnapshotReadable

\* Grants keep the order of the requests and the alternation of the lanes (try_admit,
\* _selected_waiting).
GrantsInOrder == NoOvertaking /\ LanesAlternate
=============================================================================
