------------------------------ MODULE T1Dispatch ------------------------------
(***************************************************************************)
(* T1 dispatch: calls of T1Dispatcher.run_one (src/macr_runtime/           *)
(* t1_dispatcher.py), each in a worker process of its own, working through *)
(* the queue of one plan, with the part of MacrRuntime.invoke              *)
(* (runtime.py) that decides whether and how often the provider is called. *)
(*                                                                         *)
(* The plan's queue is T1Queue.  Provider admission is used through what   *)
(* AdmissionLedger promises of it, which ProviderAdmission implements:     *)
(* `permit' is the unit of the run's admission request.  A run whose       *)
(* admission is refused or BUSY raises with nothing changed, and is here   *)
(* the same as one that was not made.  A run may crash between any two     *)
(* transactions; its claim and its permit then stay until they expire.     *)
(***************************************************************************)
EXTENDS T1Queue

CONSTANTS
    Runs,           \* run ids: calls of run_one
    Capacity,       \* admission units this plan may hold at a time
    EventReadFails  \* whether read_events may raise in _runtime_evidence

ASSUME DispatchAssumption ==
    /\ Runs = Claims /\ IsFiniteSet(Runs)
    /\ Capacity \in Nat
    /\ EventReadFails \in BOOLEAN
    \* T1ExecutionManifest: the members' ceilings add up to the aggregate.
    /\ MapThenSumSet(LAMBDA m : Ceiling[m], Members) = Aggregate

VARIABLES
    run,        \* where each call stands, and what it knows
    permit,     \* phase of the run's admission unit
    expired,    \* live permits that have outlived their TTL
    charged,    \* plan_costs: the member's recorded production cost
    transports  \* history: transports begun for the member

vars == <<queueVars, run, permit, expired, charged, transports>>
outside == <<queueVars, permit, expired, charged, transports>>

Steps == {"idle", "checked", "peeked", "admitted", "claimed", "invoking", "started",
          "entering", "sending", "answered", "returned", "charged", "done", "crashed"}

\* sent: the dispatch event is stored.  net: what is known of the transport.
\* persisted: accounting and event are terminal.  result: invoke has returned one.
NewRun == [step |-> "idle", member |-> None, sent |-> FALSE, net |-> "none",
           cost |-> None, persisted |-> FALSE, result |-> FALSE]
RunRecords == [step : Steps, member : Members \cup {None}, sent : BOOLEAN,
               net : {"none", "known", "unknown"}, cost : Costs \cup {None},
               persisted : BOOLEAN, result : BOOLEAN]
Phases == {"none", "granted", "dispatched", "unresolved", "closed"}

Goes(r, step) == run' = [run EXCEPT ![r].step = step]
Ends(r, how) == run' = [run EXCEPT ![r] = [NewRun EXCEPT !.step = how]]
At(r, step) == run[r].step = step
MemberOf(r) == run[r].member

Init ==
    /\ QueueInit
    /\ run = [r \in Runs |-> NewRun]
    /\ permit = [r \in Runs |-> "none"]
    /\ expired = {}
    /\ charged = [m \in Members |-> None]
    /\ transports = [m \in Members |-> 0]

(***************************************************************************)
(* Admission, as the ledger promises it.                                   *)
(***************************************************************************)
HasCapacity ==
    Cardinality({r \in Runs : permit[r] \in {"granted", "dispatched", "unresolved"}})
        < Capacity

Live(r) == permit[r] \in {"granted", "dispatched"}
Becomes(r, phase) ==
    /\ permit' = [permit EXCEPT ![r] = phase]
    /\ expired' = expired \ {r}
Cancelled(r) ==
    IF permit[r] = "granted" THEN Becomes(r, "closed") ELSE UNCHANGED <<permit, expired>>

TtlPasses(r) ==
    /\ Live(r) /\ r \notin expired
    /\ expired' = expired \cup {r}
    /\ UNCHANGED <<queueVars, run, permit, charged, transports>>

\* Some caller's admission sweeps the expired permit.
PermitSwept(r) ==
    /\ r \in expired
    /\ Becomes(r, IF permit[r] = "granted" THEN "closed" ELSE "unresolved")
    /\ UNCHANGED <<queueVars, run, charged, transports>>

PermitResolved(r) ==
    /\ permit[r] = "unresolved"
    /\ Becomes(r, "closed")
    /\ UNCHANGED <<queueVars, run, charged, transports>>

(***************************************************************************)
(* run_one up to the claim.                                                *)
(***************************************************************************)
\* _plan_has_reconciliation sweeps and lists, _validate_bundle verifies.
Preflight(r) ==
    /\ At(r, "idle")
    /\ lapsed = {} /\ MembersIn({"reconciliation_required"}) = {}
    /\ authority = "valid"
    /\ Goes(r, "checked")
    /\ UNCHANGED outside

\* peek_claimable, under an authority that verifies; else run_one raises.
Peek(r) ==
    /\ At(r, "checked")
    /\ MarkExpiredClaims
    /\ IF authority = "valid" /\ FirstQueued # {}
       THEN \E m \in FirstQueued :
               run' = [run EXCEPT ![r].step = "peeked", ![r].member = m]
       ELSE run' = [run EXCEPT ![r] = NewRun]
    /\ UNCHANGED <<permit, expired, charged, transports>>

Admit(r) ==
    /\ At(r, "peeked")
    /\ HasCapacity
    /\ Becomes(r, "granted")
    /\ Goes(r, "admitted")
    /\ UNCHANGED <<queueVars, charged, transports>>

ClaimMember(r) ==
    /\ At(r, "admitted")
    /\ \/ /\ Claim(MemberOf(r), r)
          /\ Goes(r, "claimed")
          /\ UNCHANGED <<permit, expired>>
       \/ /\ ClaimMisses(MemberOf(r))          \* cancel_before_transport
          /\ MarkExpiredClaims
          /\ Cancelled(r)
          /\ Ends(r, "done")
       \/ /\ ClaimRaises(MemberOf(r))          \* nothing catches this
          /\ MarkExpiredClaims
          /\ Ends(r, "done")
          /\ UNCHANGED <<permit, expired>>
    /\ UNCHANGED <<charged, transports>>

\* The bundle is validated again under the claim.  The dispatch authority, too,
\* may have been revoked, so it may fail although the batch authority is valid.
Recheck(r) ==
    /\ At(r, "claimed")
    /\ \/ /\ authority = "valid"
          /\ Goes(r, "invoking")
          /\ UNCHANGED <<queueVars, permit, expired>>
       \/ /\ permit[r] = "granted" /\ Cancelled(r)
          /\ IF Holds(MemberOf(r), r) THEN RequireReconciliation(MemberOf(r), r)
             ELSE UNCHANGED queueVars
          /\ Ends(r, "done")
       \/ /\ permit[r] # "granted"             \* the cancellation raises
          /\ Ends(r, "done")
          /\ UNCHANGED <<queueVars, permit, expired>>
    /\ UNCHANGED <<charged, transports>>

(***************************************************************************)
(* MacrRuntime.invoke under the pre-granted permit.                        *)
(***************************************************************************)
\* Refused above the dispatch event (policy, approval, authority, dispatch lease).
Refused(r) ==
    /\ At(r, "invoking")
    /\ Cancelled(r)
    /\ Goes(r, "returned")
    /\ UNCHANGED <<queueVars, charged, transports>>

StartRun(r) ==
    /\ At(r, "invoking")
    /\ run' = [run EXCEPT ![r].step = "started", ![r].sent = TRUE]
    /\ UNCHANGED outside

\* record_dispatch raises after the dispatch event is stored.
DispatchUnrecorded(r) ==
    /\ At(r, "started")
    /\ Cancelled(r)
    /\ Goes(r, "returned")
    /\ UNCHANGED <<queueVars, charged, transports>>

\* (Definitions with a suffix are mutants: bugs the runs show the properties to catch.)
InTime_Always(r) == TRUE
InTime(r) == r \notin expired

\* begin_transport reads its clock, and then waits for the write lock.  The sweep it
\* makes under the lock goes by that clock: by the time it comes to it, a row that was
\* in time may be past its TTL, and still granted if nobody else has swept it.
ReadClock(r) ==
    /\ At(r, "started")
    /\ InTime(r)
    /\ Goes(r, "entering")
    /\ UNCHANGED outside

MayTransport_AnyState(r) == TRUE
MayTransport(r) == permit[r] = "granted"

BeginTransport(r) ==
    /\ At(r, "entering")
    /\ MayTransport(r)
    /\ permit' = [permit EXCEPT ![r] = "dispatched"]
    /\ transports' = [transports EXCEPT ![MemberOf(r)] = @ + 1]
    /\ Goes(r, "sending")
    /\ UNCHANGED <<queueVars, expired, charged>>

\* begin_transport refuses, closing the grant, or the adapter fails before it: a
\* candidate failure that cost nothing, or one whose cost stays unspecified.
TransportRefused(r) ==
    /\ At(r, "started") \/ At(r, "entering")
    /\ Cancelled(r) \/ UNCHANGED <<permit, expired>>
    /\ \E cost \in {0, None}, persisted \in BOOLEAN :
        /\ ~persisted => cost = None
        /\ run' = [run EXCEPT ![r].step = "answered", ![r].cost = cost,
                              ![r].persisted = persisted]
    /\ UNCHANGED <<queueVars, charged, transports>>

\* The transport ends, and capture, accounting and the terminal event are stored;
\* or one of them raises, and what was observed no longer matters.
Answer(r) ==
    /\ At(r, "sending")
    /\ \E net \in {"known", "unknown"}, cost \in Costs \cup {None}, persisted \in BOOLEAN :
        /\ ~persisted => net = "unknown" /\ cost = None
        /\ run' = [run EXCEPT ![r].step = "answered", ![r].net = net, ![r].cost = cost,
                              ![r].persisted = persisted]
    /\ UNCHANGED outside

\* finish, or cancel_before_transport of a grant never used; then the release of the
\* dispatch lease, which raises when the lease expired and went to another run, as
\* finish does when the permit was swept.
FinishPermit(r) ==
    IF permit[r] # "dispatched" THEN Cancelled(r)
    ELSE Becomes(r, IF run[r].persisted /\ run[r].net = "known" THEN "closed"
                    ELSE "unresolved")

Finish(r) ==
    /\ At(r, "answered")
    /\ FinishPermit(r)
    /\ \E result \in BOOLEAN :
        /\ result => /\ run[r].persisted
                     /\ run[r].net # "none" => permit[r] = "dispatched"
        /\ run' = [run EXCEPT ![r].step = "returned", ![r].result = result]
    /\ UNCHANGED <<queueVars, charged, transports>>

(***************************************************************************)
(* run_one after invoke: what _runtime_evidence reads decides.             *)
(***************************************************************************)
Dispatched_ByTerminal(r) == run[r].persisted
Dispatched(r) == run[r].sent

Complete_IgnoresUnknown(r) == run[r].persisted /\ run[r].cost # None
Complete(r) == run[r].persisted /\ run[r].net # "unknown" /\ run[r].cost # None

\* No dispatch event: the claim goes back unused.  When read_events raises, the
\* events count as absent.
ReleaseClaim(r) ==
    /\ At(r, "returned")
    /\ ~Dispatched(r) \/ EventReadFails
    /\ IF Holds(MemberOf(r), r) THEN ReleaseBeforeDispatch(MemberOf(r), r)
       ELSE UNCHANGED queueVars
    /\ Ends(r, "done")
    /\ UNCHANGED <<permit, expired, charged, transports>>

\* Incomplete evidence, no result, or an exception on the way to settling; the
\* accounting and vault reads may fail as well, so this is always possible.
Reconcile(r) ==
    /\ At(r, "returned") /\ Dispatched(r)
    /\ IF Holds(MemberOf(r), r) THEN RequireReconciliation(MemberOf(r), r)
       ELSE UNCHANGED queueVars
    /\ Ends(r, "done")
    /\ UNCHANGED <<permit, expired, charged, transports>>

\* record_plan_cost stores the cost, then the total is compared.
NewCharge(r) == [charged EXCEPT ![MemberOf(r)] = run[r].cost]

ChargedTotal(c) == MapThenSumSet(LAMBDA m : IF c[m] = None THEN 0 ELSE c[m], Members)

Charge(r) ==
    /\ At(r, "returned") /\ Dispatched(r)
    /\ Complete(r) /\ run[r].result
    /\ charged[MemberOf(r)] = None             \* else the idempotency key conflicts
    /\ charged' = NewCharge(r)
    /\ run' = IF ChargedTotal(charged') <= Aggregate
              THEN [run EXCEPT ![r].step = "charged"]
              ELSE [run EXCEPT ![r].result = FALSE]
    /\ UNCHANGED <<queueVars, permit, expired, transports>>

\* complete or fail, by the candidate's status; a transport that was refused fails.
Settle(r) ==
    /\ At(r, "charged")
    /\ \E to \in IF run[r].net = "none" THEN {"failed"} ELSE Terminal :
          IF Holds(MemberOf(r), r) THEN CompleteOrFail(MemberOf(r), r, to, run[r].cost)
          ELSE UNCHANGED queueVars
    /\ Ends(r, "done")
    /\ UNCHANGED <<permit, expired, charged, transports>>

(***************************************************************************)
(* Crashes, the clock, other readers of the queue, and operators.          *)
(***************************************************************************)
Crash(r) ==
    /\ run[r].step \notin {"idle", "checked", "peeked", "done", "crashed"}
    /\ Ends(r, "crashed")
    /\ UNCHANGED outside

\* The permit was granted before the claim was made, for the same lease_seconds.
ClaimLapses(m) ==
    /\ row[m].claim # None
    /\ Live(row[m].claim) => row[m].claim \in expired
    /\ LeaseLapses(m)

Operate ==
    \/ MarkExpiredClaims
    \/ AuthorityEnds
    \/ \E m \in Members :
        ClaimLapses(m) \/ ResolutionRevokes(m) \/ ResolutionSettles(m)

Next ==
    \/ Operate /\ UNCHANGED <<run, permit, expired, charged, transports>>
    \/ \E r \in Runs :
        \/ TtlPasses(r) \/ PermitSwept(r) \/ PermitResolved(r) \/ Crash(r)
        \/ Preflight(r) \/ Peek(r) \/ Admit(r) \/ ClaimMember(r) \/ Recheck(r)
        \/ Refused(r) \/ StartRun(r) \/ DispatchUnrecorded(r)
        \/ ReadClock(r) \/ BeginTransport(r) \/ TransportRefused(r) \/ Answer(r) \/ Finish(r)
        \/ ReleaseClaim(r) \/ Reconcile(r) \/ Charge(r) \/ Settle(r)

Spec == Init /\ [][Next]_vars

(***************************************************************************)
(* Properties.                                                             *)
(***************************************************************************)
\* Every row, and what every call knows, has its shape.
TypeOK ==
    /\ QueueTypeOK
    /\ run \in [Runs -> RunRecords]
    /\ permit \in [Runs -> Phases]
    /\ expired \subseteq {r \in Runs : Live(r)}
    /\ charged \in [Members -> Costs \cup {None}]
    /\ transports \in [Members -> Nat]

\* One queue member is sent to the provider at most once, through releases,
\* expiries, crashes, sweeps and operators ("attempts" is reset by a release).
\* With EventReadFails it is not: the evidence of the attempt is lost with the read.
OneAttempt == \A m \in Members : transports[m] <= 1

\* A worker whose grant is in time by the clock of begin_transport holds its member at
\* that moment, and as long as the grant is in time.  One that stalls between clock and
\* lock may send after its lease is gone, but never what is queued again or another
\* run's: its member waits for an operator, or was settled by one.
NoStraySend ==
    [][\A r \in Runs :
        /\ At(r, "started") /\ run'[r].step = "entering" /\ permit[r] = "granted"
            => Holds(MemberOf(r), r)
        /\ At(r, "entering") /\ run'[r].step = "sending" =>
            /\ row[MemberOf(r)].claim = r /\ row[MemberOf(r)].state # "queued"
            /\ r \notin expired => Holds(MemberOf(r), r)]_vars

\* A claimed member is settled only on a stored answer of its own run, within its
\* ceiling and charged to the plan; everything else goes through an operator.
SettledByEvidence ==
    [][\A m \in Members :
        row[m].state = "claimed" /\ row'[m].state \in Terminal =>
            \E r \in Runs :
                /\ row[m].claim = r /\ run[r].persisted /\ run[r].net # "unknown"
                /\ row'[m].cost = run[r].cost /\ row'[m].cost <= Ceiling[m]]_vars

\* What the plan was charged for a member is what its row was settled with.
SettledIsCharged ==
    [][\A m \in Members :
        row[m].state = "claimed" /\ row'[m].state \in Terminal
            => charged[m] = row'[m].cost]_vars

\* What is settled, by a worker or by an operator, no late worker settles again.
SettledForGood ==
    [][\A m \in Members : row[m].state \in Terminal => row'[m] = row[m]]_vars

\* A settlement has its evidence, is charged and is the last: no late worker or
\* operator undoes it.
SettlementsHold == SettledByEvidence /\ SettledIsCharged /\ SettledForGood

\* The workers use admission as the ledger has it.
Ledger == INSTANCE AdmissionLedger WITH Requests <- Runs, Bound <- Capacity, unit <- permit
ImplementsLedger == Ledger!Spec
=============================================================================
