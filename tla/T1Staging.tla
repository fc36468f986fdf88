------------------------------- MODULE T1Staging -------------------------------
(***************************************************************************)
(* How a T1 manifest becomes a queued plan: what a manifest is             *)
(* (t1_manifest.py), T1Dispatcher.stage with its two authorities, its      *)
(* queue rows and its compensations, load_bundle and _validate_bundle, and *)
(* the target leases of the members whose candidates were captured.        *)
(*                                                                         *)
(* The two authorities and the queue are written by transactions of their  *)
(* own.  A worker's run is one step here; T1Dispatch takes it apart.       *)
(***************************************************************************)
EXTENDS TargetLeases, Sequences, Functions

CONSTANTS
    Documents,  \* manifest documents
    Doc,        \* their contents
    Stagers,    \* processes that stage or load one
    Bindings,   \* project, lane and admission policy a plan may be bound to
    Tiers,      \* provider capability and token policy, as bound in the registry
    EpochOpen,  \* whether an epoch the operator begins is open
    MaxIssued,  \* bound: batch authorities
    MaxFaults   \* bound: store errors, crashes, lapses and operators, in all

Plans == {PlanOf[m] : m \in Members}

\* plan_queue_members: where a member stands; plan_queue_batches
WorkStates == {"queued", "captured", "ambiguous", "failed"}
QueueRows == [doc : Documents, batch : Nat, binding : Bindings]

ASSUME StagingAssumption ==
    /\ None \notin WorkStates /\ None \notin QueueRows /\ None \notin Nat
    /\ \A d \in Documents : Doc[d] \in
        [schema : 1..4, plan : Plans, members : Seq([id : Members, task : STRING, tier : Tiers, cost : Nat, sound : BOOLEAN]),
         workers : Nat, dispatchers : SUBSET STRING, aggregate : Nat, campaign : Nat]
    /\ EpochOpen \subseteq BOOLEAN
    /\ MaxIssued \in Nat /\ MaxFaults \in Nat

VARIABLES
    batches,     \* batch authorities, in order of revision
    dispatches,  \* dispatch authorities of source t1_manifest, likewise
    epoch,       \* authority epoch, and whether it is open
    queue,       \* plan_queue_batches: the document, authority and binding of each plan
    work,        \* plan_queue_members: where each stands
    resolving,   \* members whose resolution has revoked the authority
    expired,     \* plans whose manifests' expiry has passed
    tier,        \* the registry's binding in force
    at,          \* each stager: its place in stage or load_bundle and what it knows
    bundles,     \* authority bundles handed out
    failures,    \* t1.staging_failed events
    faults       \* of the bound, still to come

authorityVars == <<batches, dispatches, epoch, expired, tier>>
queueVars == <<queue, work, resolving>>
vars == <<targetVars, authorityVars, queueVars, at, bundles, failures, faults>>

Idle == [place |-> "idle", doc |-> None, binding |-> None,
         batch |-> None, dispatch |-> None, kept |-> FALSE]

Init ==
    /\ TargetsInit
    /\ batches = <<>> /\ dispatches = <<>>
    /\ epoch = [no |-> 1, open |-> TRUE]
    /\ queue = [p \in Plans |-> None]
    /\ work = [m \in Members |-> None] /\ resolving = {}
    /\ expired = {} /\ tier \in Tiers
    /\ at = [s \in Stagers |-> Idle]
    /\ bundles = {} /\ failures = {}
    /\ faults = MaxFaults

In(s, place) == at[s].place = place
Go(s, place) == at' = [at EXCEPT ![s].place = place]
Rests(s) == at' = [at EXCEPT ![s] = Idle]
Fault == faults > 0 /\ faults' = faults - 1

----------------------------------------------------------------------------
(* Manifests.                                                              *)

Ids(d) == {Doc[d].members[i].id : i \in DOMAIN Doc[d].members}
TasksOf(d) == {Doc[d].members[i].task : i \in DOMAIN Doc[d].members}
TiersOf(d) == {Doc[d].members[i].tier : i \in DOMAIN Doc[d].members}
CostOf(d) ==
    LET sum[i \in 0..Len(Doc[d].members)] == IF i = 0 THEN 0 ELSE sum[i - 1] + Doc[d].members[i].cost
    IN  sum[Len(Doc[d].members)]

\* T1ExecutionMember: the fixed route and the bounded task.
SoundMember(d, i) ==
    LET m == Doc[d].members[i] IN m.sound /\ PlanOf[m.id] = Doc[d].plan

\* T1ExecutionManifest.__post_init__
SoundManifest(d) ==
    LET doc == Doc[d] IN
    /\ doc.members # <<>>
    /\ \A i \in DOMAIN doc.members : SoundMember(d, i)
    /\ Cardinality(Ids(d)) = Len(doc.members) /\ Cardinality(TasksOf(d)) = Len(doc.members)
    /\ Cardinality(TiersOf(d)) = 1
    /\ doc.workers \in 1..Len(doc.members)
    /\ Cardinality(doc.dispatchers) = doc.workers
    /\ doc.aggregate = CostOf(d) /\ doc.aggregate <= doc.campaign

\* Earlier schemas are for audit only.
Loadable == {d \in Documents : Doc[d].schema = 4 /\ SoundManifest(d)}

----------------------------------------------------------------------------
(* What holds of the stores.                                               *)

BatchInForce(i) == batches[i].live /\ Doc[batches[i].doc].plan \notin expired

DispatchInForce(i) ==
    LET row == dispatches[i]
    IN  row.live /\ row.epoch = epoch.no /\ epoch.open /\ Doc[row.doc].plan \notin expired

\* _validate_manifest_routes: the registry still binds what the manifest names.
RoutesMatch(d) == TiersOf(d) = {tier}

Reconciling(p) == \E m \in Members : PlanOf[m] = p /\ work[m] = "ambiguous"

Collide_ByGroup(d) ==
    \E m, n \in Ids(d) : m # n /\ \E c \in ClaimsOf[m], e \in ClaimsOf[n] :
        c.target = e.target /\ (c.group = None \/ c.group # e.group)
\* _validate_collisions: members that share a path are named alternatives, one of
\* them automatic at most.
Collide(d) ==
    \E m, n \in Ids(d) : m # n /\ \E c \in ClaimsOf[m], e \in ClaimsOf[n] :
        /\ c.target = e.target
        /\ c.group = None \/ c.group # e.group \/ (c.automatic /\ e.automatic)

\* Manifests alike in all that is queued of them: the rest of a manifest, its revision
\* and its campaign ceiling, the queue never sees.
Alike(d, e) ==
    /\ Doc[d].plan = Doc[e].plan
    /\ Doc[d].members = Doc[e].members /\ Doc[d].aggregate = Doc[e].aggregate

Matches_AnyAuthority(row, new) == Alike(row.doc, new.doc) /\ row.binding = new.binding
\* Does a queued plan agree with one that is enqueued again?  Dispatchers and expiry
\* are compared too, but they are those of the authority, on both sides.
Matches(row, new) ==
    Alike(row.doc, new.doc) /\ row.batch = new.batch /\ row.binding = new.binding

\* enqueue's conditions: the authority's scope, collisions, what is queued already.
Enqueueable(new) ==
    LET row == queue[Doc[new.doc].plan] IN
    /\ BatchInForce(new.batch) /\ Alike(batches[new.batch].doc, new.doc)
    /\ ~Collide(new.doc)
    /\ row # None => Matches(row, new)

\* The live dispatch authorities of a manifest; the last one is taken.
DispatchesOf(d) == {i \in DOMAIN dispatches : dispatches[i].doc = d /\ dispatches[i].live}

----------------------------------------------------------------------------
(* stage, and load_bundle.                                                 *)

Bundle(d, batch, dispatch, binding) ==
    [doc |-> d, batch |-> batch, dispatch |-> dispatch, binding |-> binding]

Plan(s) == Doc[at[s].doc].plan

\* _existing_bundle: a queued plan is taken with its last live dispatch authority,
\* enqueued again under the batch authority it has, and the other verified.  The
\* manifest may be another one than was queued.  What is read first can only be lost
\* before it is verified, so the whole is one step.
Existing(d) ==
    LET row == queue[Doc[d].plan] IN
    /\ row # None
    /\ Enqueueable([row EXCEPT !.doc = d])
    /\ \E dispatch \in DispatchesOf(d) :
        /\ \A i \in DispatchesOf(d) : i <= dispatch
        /\ DispatchInForce(dispatch)
        /\ dispatches[dispatch].binding = row.binding
        /\ bundles' = bundles \cup {Bundle(d, row.batch, dispatch, row.binding)}

Load(d) ==
    /\ d \in Loadable /\ Existing(d)
    /\ UNCHANGED <<targetVars, authorityVars, queueVars, at, failures, faults>>

\* Every refusal before the queue is written, and what is read of it.
Stage(s, d, b) ==
    /\ In(s, "idle") /\ d \in Loadable
    /\ Doc[d].plan \notin expired
    /\ ~Reconciling(Doc[d].plan)
    /\ RoutesMatch(d)
    /\ \/ Existing(d) /\ queue[Doc[d].plan].binding = b /\ UNCHANGED at
       \/ /\ queue[Doc[d].plan] = None
          /\ at' = [at EXCEPT ![s] = [Idle EXCEPT !.place = "batch", !.doc = d, !.binding = b]]
          /\ UNCHANGED bundles
    /\ UNCHANGED <<targetVars, authorityVars, queueVars, failures, faults>>

IssueBatch(s) ==
    /\ In(s, "batch") /\ Plan(s) \notin expired
    /\ Len(batches) < MaxIssued
    /\ batches' = Append(batches, [doc |-> at[s].doc, live |-> TRUE])
    /\ at' = [at EXCEPT ![s].place = "dispatch", ![s].batch = Len(batches) + 1]
    /\ UNCHANGED <<targetVars, dispatches, epoch, expired, tier, queueVars, bundles, failures, faults>>

IssueDispatch(s) ==
    /\ In(s, "dispatch") /\ epoch.open /\ Plan(s) \notin expired
    /\ dispatches' = Append(dispatches, [doc |-> at[s].doc, binding |-> at[s].binding,
                                         epoch |-> epoch.no, live |-> TRUE])
    /\ at' = [at EXCEPT ![s].place = "enqueue", ![s].dispatch = Len(dispatches) + 1]
    /\ UNCHANGED <<targetVars, batches, epoch, expired, tier, queueVars, bundles, failures, faults>>

NewRow(s) == [doc |-> at[s].doc, batch |-> at[s].batch, binding |-> at[s].binding]

Enqueue(s) ==
    /\ In(s, "enqueue") /\ Enqueueable(NewRow(s))
    /\ IF queue[Plan(s)] = None
       THEN /\ queue' = [queue EXCEPT ![Plan(s)] = NewRow(s)]
            /\ work' = [m \in Members |-> IF m \in Ids(at[s].doc) THEN "queued" ELSE work[m]]
            /\ UNCHANGED resolving
       ELSE UNCHANGED queueVars
    /\ bundles' = bundles \cup {Bundle(at[s].doc, at[s].batch, at[s].dispatch, at[s].binding)}
    /\ Rests(s)
    /\ UNCHANGED <<targetVars, authorityVars, failures, faults>>

\* A call of stage that raises, by its own conditions or by an error of the store.
StagingRaises(s) ==
    /\ at[s].place \in {"batch", "dispatch", "enqueue"}
    /\ IF \/ Plan(s) \in expired
          \/ In(s, "dispatch") /\ ~epoch.open
          \/ In(s, "enqueue") /\ ~Enqueueable(NewRow(s))
       THEN UNCHANGED faults ELSE Fault
    /\ Go(s, "undo_dispatch")
    /\ UNCHANGED <<targetVars, authorityVars, queueVars, bundles, failures>>

Own_Latest(s) == Len(batches)
\* The batch authority a failed staging takes back: the one it issued.
Own(s) == at[s].batch

\* Both are revoked if they can be; an error is swallowed.
UndoDispatch(s, ok) ==
    /\ In(s, "undo_dispatch")
    /\ at[s].dispatch = None => ok
    /\ IF ok /\ at[s].dispatch # None
       THEN dispatches' = [dispatches EXCEPT ![at[s].dispatch].live = FALSE]
       ELSE UNCHANGED dispatches
    /\ IF ok THEN UNCHANGED faults ELSE Fault
    /\ at' = [at EXCEPT ![s].place = "undo_batch", ![s].kept = ~ok]
    /\ UNCHANGED <<targetVars, batches, epoch, expired, tier, queueVars, bundles, failures>>

UndoBatch(s, ok) ==
    /\ In(s, "undo_batch")
    /\ at[s].batch = None => ok
    /\ IF ok /\ at[s].batch # None
       THEN batches' = [batches EXCEPT ![Own(s)].live = FALSE]
       ELSE UNCHANGED batches
    /\ IF ok THEN UNCHANGED faults ELSE Fault
    /\ at' = [at EXCEPT ![s].place = "record", ![s].kept = @ \/ ~ok]
    /\ UNCHANGED <<targetVars, dispatches, epoch, expired, tier, queueVars, bundles, failures>>

\* _record_staging_failure, if the event can be written.
RecordFailure(s, ok) ==
    /\ In(s, "record")
    /\ failures' = IF ok THEN failures \cup {[batch |-> at[s].batch, dispatch |-> at[s].dispatch, kept |-> at[s].kept]}
                   ELSE failures
    /\ IF ok THEN UNCHANGED faults ELSE Fault
    /\ Rests(s)
    /\ UNCHANGED <<targetVars, authorityVars, queueVars, bundles>>

Crash(s) ==
    /\ ~In(s, "idle")
    /\ Rests(s) /\ Fault
    /\ UNCHANGED <<targetVars, authorityVars, queueVars, bundles, failures>>

----------------------------------------------------------------------------
(* Workers and operators.                                                  *)

\* _validate_bundle: the batch authority's scope is the manifest's, dispatchers included.
Usable(b) ==
    /\ BatchInForce(b.batch) /\ DispatchInForce(b.dispatch)
    /\ Alike(batches[b.batch].doc, b.doc)
    /\ Doc[batches[b.batch].doc].dispatchers = Doc[b.doc].dispatchers
    /\ dispatches[b.dispatch].binding = b.binding
    /\ ~Reconciling(Doc[b.doc].plan)
    /\ RoutesMatch(b.doc)

Work(b, m) ==
    /\ Usable(b) /\ m \in Ids(b.doc) /\ work[m] = "queued"
    /\ \/ work' = [work EXCEPT ![m] = "captured"] /\ UNCHANGED faults
       \/ work' = [work EXCEPT ![m] = "ambiguous"] /\ Fault
    /\ UNCHANGED <<targetVars, authorityVars, queue, resolving, at, bundles, failures>>

\* resolve_reconciliation is two transactions.  The first revokes the batch authority
\* of an ambiguous member's plan;
BeginResolve(m) ==
    /\ work[m] = "ambiguous" /\ m \notin resolving
    /\ batches' = [batches EXCEPT ![queue[PlanOf[m]].batch].live = FALSE]
    /\ resolving' = resolving \cup {m}
    /\ UNCHANGED <<targetVars, dispatches, epoch, expired, tier, queue, work, at, bundles, failures, faults>>

\* the second records what became of the member.  An operator may die before it.
Resolve(m) ==
    /\ work[m] = "ambiguous" /\ m \in resolving
    /\ \E state \in {"captured", "failed"} : work' = [work EXCEPT ![m] = state]
    /\ UNCHANGED <<targetVars, authorityVars, queue, resolving, at, bundles, failures, faults>>

\* Authorities are revoked, the epoch advances, time passes, the registry changes.
Operate ==
    /\ Fault
    /\ \/ \E i \in DOMAIN dispatches : /\ dispatches[i].live
                                       /\ dispatches' = [dispatches EXCEPT ![i].live = FALSE]
                                       /\ UNCHANGED <<batches, epoch, expired, tier>>
       \/ \E open \in EpochOpen : /\ epoch' = [no |-> epoch.no + 1, open |-> open]
                                  /\ UNCHANGED <<batches, dispatches, expired, tier>>
       \/ \E p \in Plans \ expired : expired' = expired \cup {p} /\ UNCHANGED <<batches, dispatches, epoch, tier>>
       \/ \E t \in Tiers \ {tier} : tier' = t /\ UNCHANGED <<batches, dispatches, epoch, expired>>
    /\ UNCHANGED <<targetVars, queueVars, at, bundles, failures>>

\* A host writes what was captured for a member it has the lease for.
HostActs(m, t) ==
    /\ work[m] = "captured"
    /\ \/ Acquire(m, t) \/ Renew(m, t) \/ ReleaseTarget(m, t) \/ ReconcileRelease(m, t)
       \/ Materialize(m, t, TRUE)
    /\ UNCHANGED <<authorityVars, queueVars, at, bundles, failures, faults>>

HostFails(m, t) ==
    /\ LeaseLapses(m, t) \/ Materialize(m, t, FALSE)
    /\ Fault
    /\ UNCHANGED <<authorityVars, queueVars, at, bundles, failures>>

Next ==
    \/ \E s \in Stagers :
        \/ \E d \in Documents, b \in Bindings : Stage(s, d, b)
        \/ IssueBatch(s) \/ IssueDispatch(s) \/ Enqueue(s) \/ StagingRaises(s)
        \/ \E ok \in BOOLEAN : UndoDispatch(s, ok) \/ UndoBatch(s, ok) \/ RecordFailure(s, ok)
        \/ Crash(s)
    \/ \E d \in Documents : Load(d)
    \/ \E b \in bundles, m \in Members : Work(b, m)
    \/ \E m \in Members : BeginResolve(m) \/ Resolve(m)
    \/ Operate
    \/ \E m \in Members, t \in Targets : HostActs(m, t) \/ HostFails(m, t)

Spec == Init /\ [][Next]_vars

----------------------------------------------------------------------------
(* Properties.                                                             *)

\* A bundle is the queue's: however stagers of one plan, of one manifest or of two,
\* cross each other, die or come back, every bundle handed out names the batch
\* authority and the binding its plan is queued under, for a manifest alike in members
\* and ceiling, and a dispatch authority for its own manifest and that binding (stage,
\* _existing_bundle, enqueue).  The queued manifest itself may be another one.
BundleIsQueued ==
    \A b \in bundles :
        LET row == queue[Doc[b.doc].plan] IN
        /\ row # None
        /\ Alike(row.doc, b.doc) /\ row.batch = b.batch /\ row.binding = b.binding
        /\ batches[b.batch].doc = row.doc
        /\ dispatches[b.dispatch].doc = b.doc /\ dispatches[b.dispatch].binding = b.binding

\* A staging that failed takes back what it issued and no more: what its event names
\* is revoked, unless the revocation itself failed, and the authority of a queued plan
\* is revoked by the resolution of an ambiguous member alone, from its first
\* transaction on (stage's compensations, resolve_reconciliation).
StagingUndone ==
    /\ \A f \in failures : ~f.kept =>
        /\ f.batch # None => ~batches[f.batch].live
        /\ f.dispatch # None => ~dispatches[f.dispatch].live
    /\ \A p \in Plans : queue[p] # None =>
        \/ batches[queue[p].batch].live
        \/ \E m \in resolving : PlanOf[m] = p /\ work[m] \notin {"queued", None}
=============================================================================
