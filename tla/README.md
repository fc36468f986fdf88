# MACR runtime: TLA+ models, checks and proofs

MACR (`src/src/macr_runtime`, Python) is a single-host runtime that lets several
agents and workers use external model providers under explicit authority, cost and
capacity limits. Its state lives in SQLite databases and a content-addressed vault;
every worker, server and command-line call is a process of its own, and the only thing
that serialises them is a database transaction. Nothing of it is a server with one
thread: the hard part is what happens *between* two transactions of one process.

Line numbers below are those of the repository's commit; `X.py` means
`src/src/macr_runtime/X.py`. `PROJECT.json` maps every definition to its lines and
lists every hazard at the line where it bites, with the properties that cover it.

## 1. Inventory

| Component | State it keeps | Operations | What makes it correct |
|---|---|---|---|
| **Provider admission kernel** `provider_admission.py` | control row (policy, target, circuit, probe, grant sequence, last lane), request rows, per-project units, receipt chain, one-use control authorities | `try_admit`, `cancel_before_transport`, `cancel_waiting`, `begin_transport`, `finish`, `resolve_reconciliation`, `activate_target`, `activate_half_open`, `supersede_policy` | held units within the capacity in force; an unresolved outcome is never released by time; the circuit closes only on evidence or authority; fair order |
| **T1 plan queue, batch authority** `scheduler.py`, `batch_authority.py` | member rows (state, claim, lease, observed cost), the authority of the batch | `enqueue`, `peek_claimable`, `claim`, `release_before_dispatch`, `complete`, `fail`, `require_reconciliation`, `resolve_reconciliation`, `revoke` | at most one attempt per member, settled once, within the ceilings |
| **T1 dispatcher and manifest** `t1_dispatcher.py`, `t1_manifest.py` | none of its own | `stage`, `load_bundle`, `run_one` | a failed staging takes back what it issued; no attempt without a claim, no settlement without evidence |
| **Target leases** `target_leases.py` | one lease per plan, member and path | acquire, renew, release, reconcile | no two owners of a path that do not know of each other |
| **Runtime invoke** `runtime.py` | none of its own | `invoke`, with its own or a pre-granted admission | dispatch, transport and terminal records in this order, each at most once |
| **Dispatch authority and leases** `authority.py`, `dispatch.py` | authority rows, epoch, one lease per resource, fencing counter | `issue`, `advance_epoch`, `revoke`, `verify`, `acquire`, `release` | one holder per resource; an old epoch authorises nothing |
| **Event store** `event_store.py`, `runtime_db.py` | events, runs | `append`, `start_run`, `finish_run` | append-only, one terminal per run |
| **Accounting** `accounting.py`, `billing_port.py` | invocations, observations, terminals, plan costs, bills, outbox | `record_*` | idempotent, one row per run and class |
| **Candidate vault** `candidate_vault.py` | files on disk, capture rows, materializations | capture, materialize, purge | write once; files and rows agree after a crash |
| **Agent kernel** `agent/*.py` | runs, their events, ownership leases with epochs | create, acquire, renew, release, transitions, rebuild | a stale owner changes nothing; rows are what events replay to |
| **Semantic working state** `semantic/*.py` | graph heads, revisions, patches, receipts | propose, attach, commit, rebuild | compare-and-set of the head, idempotent commit ids |
| **Hosted agent cell** `agent/cell/*.py` | model attempts, tool executions, envelopes, checkpoints, completion intents | attempt, tool, checkpoint, rehydrate, complete, recover | nothing of unknown outcome is repeated; one candidate |
| **Direct chat** `direct_*.py` | conversations, messages, turns, tombstones | create, archive, send, delete, serve | a reply is backed by its run; deletion is complete |
| **Planning and coordination** `planner.py`, `coordination.py`, `plan_runtime.py` | none of its own; plan costs, events | compile, revise, execute | fallbacks end; a result claims no more than the stores hold |
| **Identity, routes, observatory** `observatory*.py`, `qualification.py`, `model_passport.py` ... | append-only snapshots, subjects, routes, evidence, decisions, passport cache | ingest, import, evaluate, invalidate, build | a qualification is earned; a passport shows no more than was known |
| **Token policy, capability, GLM approval** `model_token_store.py`, `provider_capability_store.py`, `glm_approval.py` | saved and active policies; approval files | save, activate, create, replace, verify | only what an operator approved is in force |
| **Provider adapters** `providers/*.py` | none | `prepare`, `invoke` | for GLM: what is sent is what was approved |
| Verification, contracts, other adapters, CLI, user interface | none, or I/O | | |

How they meet. `T1Dispatcher.stage` turns a manifest into two kinds of authority and
queue rows; `run_one` peeks the queue, takes a unit from the admission kernel, claims
the member, calls `MacrRuntime.invoke` with the permit, and settles the claim from what
the event store, accounting and the vault say. `invoke` takes a dispatch lease, stores
the dispatch event and the accounting dispatch, calls the adapter (which calls
`begin_transport` last before the network), then stores candidate, accounting and
terminal event, then calls the kernel's `finish`. Plan runtime and direct chat go through
the same stores. A hosted cell is run by workers that own an agent run through the agent
kernel and are bound to a semantic graph. Kernel, queue, leases and authorities share one
runtime database; accounting, events, vault, agent, observatory and the policy stores are
others, so no transaction spans a whole step. Operators act on the same tables at any time.

Hard behaviours: any two calls interleave between transactions; a process may die
anywhere; leases and permits expire and are swept by whoever comes next; an answer may
arrive after its lease or permit was swept; a store may fail in the middle of a sequence
of writes; projections and caches may be lost; operators change policy, target, circuit,
authority, tiers and keys while calls are under way.

## 2. Modules

| Module | Models | Composes |
|---|---|---|
| `AdmissionLedger` | abstract specification of admission: one unit per request, one transport per unit, given back by an answer or an operator, never more than a bound | |
| `ProviderAdmission` | the admission kernel for one provider domain | implements `AdmissionLedger` |
| `T1Queue` | the plan queue and its batch authority: state and operations | |
| `T1Dispatch` | concurrent `run_one` calls, admission through the ledger's moves, the pre-granted path of `invoke` | `T1Queue`; implements `AdmissionLedger` |
| `TargetLeases` | leases on paths, and the materialization they are for | |
| `T1Staging` | manifests, `stage`, `load_bundle`, authorities, queue rows | `TargetLeases` |
| `RuntimeStores` | authority, dispatch leases, event store, accounting, vault: one operator per transaction | |
| `RunLedger` | abstract specification of the records of a run: its event, its account and its candidate, written in one order, each once | |
| `RuntimeInvoke` | `MacrRuntime.invoke`, one action per store call | `RuntimeStores`; implements `RunLedger` |
| `DirectChat` | the chat server: conversations, turns, deletion | `RuntimeStores`; implements `RunLedger` |
| `AgentKernel` | agent runs as events, ownership leases | |
| `SemanticCommit` | graph, patches, attach and commit | `AgentKernel` |
| `AgentCell` | the hosted cell's runner and store | (the kernel's lease, as one variable) |
| `Observatory` | ingestion, evidence, qualification, passports | |
| `CoordinationPlans` | the planner: hard gates, rank, plans, revisions | |
| `PlanRuntime` | `PlanRuntime.execute`, plan costs and accounting evidence | `CoordinationPlans` |
| `ProviderPolicies` | capability tiers and token overrides | |
| `GlmWorker` | approvals, and the GLM adapter's `invoke` | `ProviderPolicies` |
| `ProviderAdmissionProofs`, `T1DispatchProofs`, `T1StagingProofs`, `RuntimeProofs`, `AgentProofs`, `AgentCellProofs`, `RouteProofs`, `GlmWorkerProofs` | theorems about the module named; `RuntimeProofs`: `RuntimeInvoke` and `DirectChat`; `AgentProofs`: `AgentKernel` and `SemanticCommit`; `RouteProofs`: `Observatory`, `CoordinationPlans` and `PlanRuntime` | |
| `MC...` | the instances TLC checks | |

Definitions with a suffix (`HasTurn_IgnoresUnresolved`) are plausible bugs kept beside
the definition they would replace; each property is shown to notice one of them.

Common conventions. One transaction is one action. What a caller read before is kept in
a record of its own (`at`, `know`, `run`, `job`, `call`), so everything it decides on may
be stale. There is no numeric clock except in `AgentKernel`: whatever has an expiry may
lapse at any moment. A raising call that rolls back is no step. Digests are the identity
of what they digest, so a row whose id is the digest of its content is that content.

### ProviderAdmission

Each kernel method is one `BEGIN IMMEDIATE` transaction, hence one action, the expiry
sweep of `try_admit` and `begin_transport` included. `try_admit` verifies the dispatch
authority *before* that transaction: `VerifyAuthority(r)` puts `r` in `checked`, and
`TryAdmit(r)` works from what was verified, however stale.

| TLA+ | Code |
|---|---|
| `req` | `provider_admission_requests.state`; `absent` is no row |
| `before` | order of `requested_at` (then request id) among rows that may still wait. The clock is read before the write lock, so a later insert may be the older request |
| `lapsed` | live rows the next sweep finds expired. Both methods that sweep read their clock before the write lock, so a row may be past its `expires_at` and not yet `lapsed`: `Lapse` may come as late as the sweep that sees it |
| `evidenced` | unresolved rows with `terminal_evidence_digest` |
| `units`, `lastGrant` | `provider_admission_projects` |
| `grantSeq`, `lastLane`, `control` | `provider_admission_state`; `control.episode` stands for what `_open_episode_is_unknown_only` reads out of the receipt chain |
| `lost` | requests whose dispatch authority does not verify any more (revoked, expired, older epoch) |
| `ctl` | one-use control authorities, each issued for a binding; `snapshot` is the isolation snapshot digest, which for this model is the set of holding rows |
| `stopEvidence` | history variable, read by no action |

Abstractions: fencing tokens are left out, a row being granted at most once; a retry that
is refused but commits its sweep is a step (`AdmitSweepsOnly`); `SweepConflicts` is the
second receipt of one sweep, whose compare-and-set would fail and roll back;
`SupersedePolicy` empties `checked`, since a kernel object built for the old policy
refuses from then on; `resolve_reconciliation` does not consume its authority in the
code, and does not here.

### T1Queue and T1Dispatch

`row` is `plan_queue_members`. A claim is named by the run that made it (fencing tokens
are unique); `lapsed` are claims past their lease. `claim` and `peek_claimable` commit
the sweep of expired claims in a transaction of its own before they decide; the decision
does not depend on that sweep (a lapsed claim reserves its ceiling either way), so both
are one action, and `MarkExpiredClaims` is also an action on its own for the readers that
only sweep. `resolve_reconciliation` is two transactions, and so two actions.

`run[r]` is where one call of `run_one` stands and what it has learnt. `permit` is the
run's unit in the sense of `AdmissionLedger`; other runs' or operators' moves on it
(`PermitSwept`, `PermitResolved`) may come at any time. A run whose admission is refused
cancels its waiting row and raises: the same as a run not made. `Answer` stands for the
transport, capture, accounting and terminal event; any of them may raise
(`persisted = FALSE`). `begin_transport` is two actions: it reads its clock (`ReadClock`)
and then, however much later, takes the write lock, sweeps by that clock and dispatches
(`BeginTransport`); in between its permit and its lease may run out and both be swept. `Reconcile` is always possible once the dispatch is stored, since
the reads of accounting or vault may fail. Two cancellations in a row of one run with
nothing decided in between (`Recheck`, `Refused`) are one action. The permit is granted
before the claim for the same `lease_seconds`, so a claim lapses only after its permit
did (`ClaimLapses`). `EventReadFails` says whether `read_events` may raise inside
`_runtime_evidence`.

### T1Staging and TargetLeases

`batches` and `dispatches` are the authority rows, `queue` and `work` the plan's rows.
`at[s]` is a stager's place in `stage`: load what is there (`_existing_bundle`), issue
the batch authority, the dispatch authority, enqueue, and, after a failure, the two
revocations and the `t1.staging_failed` event; `kept` records a revocation that itself
failed. A stager may die between any two of these. An operator revokes, advances the
epoch, resolves members and changes the registry's binding meanwhile; a resolution is two
transactions (`BeginResolve` revokes the batch authority, `Resolve` records the outcome)
and the second may never come. `Matches` is what `enqueue` compares of a plan that is
queued already: authority, binding, and of the manifest only what is queued of it
(`Alike`: members and ceiling). Two manifests of one plan that differ in their revision or
campaign ceiling match, so a bundle may pair one of them with the authority the other
was queued under. `Usable` repeats `_validate_bundle`'s checks. A worker's run is one step
here.

`leases[m, t]` is the row of a member and a path; `Acquire` includes the sweep that sends
lapsed rows to reconciliation and refuses. Nothing in the runtime joins leases with
`materialize_verbatim`: the host that would is a set of actions of `T1Staging`.

### RuntimeStores and RuntimeInvoke

Each operator of `RuntimeStores` is a condition under which one store call succeeds, or
what it changes. `refs` are dispatch authorities with their epoch; `leases[k].token` is
the fencing token; `runs[r]` is the run row with its dispatch and terminal events;
`invocations` and `outbox` are accounting's; `files` and `captures` the vault's two
halves. `at[c].place` names the next store call of a caller of `invoke`; any of them
may fail (`Raise`, `Break`) or be the last of a process that dies. The kernel appears as
`at[c].permit`, the state of the caller's own request. `sent[r]` counts transports, on
the provider's side; `lost` are runs whose lease was taken over or released in use.
Two callers may be given the same run id, which is a supported retry.

`RunLedger` is what is left when callers, leases, permits and failures are taken away: the
records of each run, which get further in one order or stay as they are. `Entry(r)` puts a
run's rows of the four stores together; `RecordsInOrder`, in `RuntimeStores`, says that
these entries follow `RunLedger`, and both writers of the stores are held to it.

### DirectChat

One server process at a time (`instance.lock`), each request a thread. `Unlocked` is
`_conversation_lock`. `turns` is `direct_runs`, `tombs` the deletion events, `asked` is
history. A crash takes every thread; `server = 0` until the next start, which turns
nothing in the database back. Sending shares `RuntimeStores` with `RuntimeInvoke`; a
Grok conversation needs admission and a lease of its own, Ollama's share one.

### AgentKernel and SemanticCommit

`events[a]` is the log of an agent run and `run[a]` its projection, which may be lost
(`None`) and is rebuilt by `Replay`, a function over the log. `know[w]` is what a
worker read: the run's revision and state, the time it took, and its permit. Time is a
number, since a lease's end is compared with a clock read before the transaction.

In `SemanticCommit` the content of a graph is a function from node ids to record versions
plus relations; the digest of a graph is its content, which may recur, while revisions do
not. A proposal is compiled against one base and committed later. `receipts` make commits
idempotent: `Commit` of a known id returns the old receipt. Attach and commit write
graph and agent in one transaction.

### AgentCell

`cell`, `model`, `tools`, `cached`, `mark`, `intent` are the tables of
`agent/cell/store.py`; `at[w]` says what the runner of a worker does next. A row of the
cell is what its events replay to and each change appends one event, so the row stands
for both. `Rejected` is an answer that does not parse (the attempt ends "failed"),
`Rechecked` the repeated check before a tool runs. `EnvelopeKept` says that the envelope
of the final step has not been removed by `clear_context_cache`. The causal digest of an
envelope is left out: a step whose envelope is stored may be built again (`Build`) or use
it again (`Reuse`).

### Observatory

Rows are append-only sets. Ingestion is a file, a snapshot row, then subjects, routes and
observations; evaluation reads evidence, invalidations and the subject in separate
transactions (`d.known`, `d.voided` remember what was there when it began and when it
ended); a passport is built from several reads and cached by subject and time. The
lower confidence bound of `qualification.py` is the integer comparison
`ConfidentlyAbove`.

### CoordinationPlans and PlanRuntime

What `_eligibility` notes against a candidate is a sequence of reasons (`fails`, in the order
in which it looks, each context capsule included, and then the budget's), of which the first is
recorded; `RankKey` is the lexicographic key of `_rank_key`. A plan starts at the revision of its
planning input. A plan records the state it was made from and the fallbacks
that led to it. `PlanRuntime`'s `at[h]` is the place in `execute`; `runs[r]` is what the
stores know of a run; `invoke` is one step with every outcome `RuntimeInvoke` may leave.

### ProviderPolicies and GlmWorker

Saved documents, the active row, and the authorities for an activation; `Left` is what
earlier releases may have left in the databases. An approval is a file written in two
steps under an exclusive create, moved away on replacement. `call[w]` holds what the
worker's process read and when: the policies when it built its provider, the tier and
the record and the key during `invoke`.

## 3. Runs

`tlc -workers 2 -config <cfg> <module>`; each run is exhaustive for its bounds. States are
distinct states (after symmetry where a cfg uses it: workers, callers, threads, stagers
and operators are interchangeable, as are two bulk requests of one project and two successful
trials of one key; no property of
those runs is a liveness property). A property that is a conjunction of named parts is
checked as one.

| Run (module) | Bounds | Shows |
|---|---|---|
| `admission` (`MCProviderAdmission`), 0.59 M | 3 requests (two bulk of one project, one interactive of another), a provider-global policy of maximum 2 and cap 1 and an isolating successor of maximum 3 and cap 2, targets 1 and 2, one control authority | capacity and project caps (`CapacityHolds`), exact unit counts, exclusive half-open probe, the three stopping rules (`StopsHold`), release only by evidence, order and alternation of grants (`GrantsInOrder`), an open circuit left by authority only, refinement of `AdmissionLedger` |
| `dispatch_plan` (`MCT1Dispatch`), 437 k | 2 runs, 2 members whose ceilings make up the aggregate, 2 units, costs 0 or 2 (over a member's ceiling) | at most one attempt, no send of what is another's or queued again (`NoStraySend`), settlements on evidence, charged and for good (`SettlementsHold`); refinement of `AdmissionLedger` |
| `t1_staging` (`MCT1Staging`), 0.48 M | 2 stagers, 6 manifests (two of one plan, one colliding; two of another, alike but for the campaign ceiling; too costly; old schema), 1 binding whose tier may change, 4 members on one path, 2 issued authorities, 1 fault | a bundle is the queue's, a failed staging is undone, a path has one owner or owners who know of each other |
| `agent_kernel` (`MCAgentKernel`), 0.32 M | 2 workers on one run, 4 moments with leases of 2, 6 events, losses and crashes | one writer per epoch, the lease is the latest (`OwnershipIsFenced`) |
| `agent_semantic` (`MCSemanticCommit`), 0.17 M | 2 agents, one of which may lose its row, 3 patches of which one undoes another, 4 revisions, 11 events | row and replay agree, the graph is a chain of compiled patches, no agent skips a revision (`RevisionsInOrder`) |
| `agent_cell` (`MCAgentCell`), 0.30 M | 2 owners, 3 steps, 1 tool, 3 epochs | nothing of unknown outcome is repeated and there is one candidate (`NothingTwice`), a checkpoint is a cut, an intended completion ends |
| `runtime_invoke` (`MCRuntimeInvoke`), 1.17 M | 2 callers, 3 runs (dispatcher's, guarded, plain) over one resource, 2 calls, 1 expiry, 2 faults | one transport at a time and in all (`TransportsSound`), no run silently complete, a returned result has released everything, refinement of `RunLedger` |
| `direct_chat` (`MCDirectChat`), 2.27 M | 2 threads, 2 conversations, 2 turns, 2 references, 1 archived conversation, 1 fault, 1 expiry | a reply is backed and follows its question (`RepliesSound`), and a deleted conversation leaves nothing; refinement of `RunLedger` |
| `observatory` (`MCObservatory`), 2.20 M | an ingesting and evaluating process beside one that builds passports, 2 conflicting snapshots, 2 successful probe results (both together qualify: lower bound 34 % against 30 %), 2 bundles, a revocation and an invalidation of another kind, 1 decision, 1 passport | bytes first, a qualification is earned, no invalidation is overlooked, passports bounded |
| `plan` (`MCPlanRuntime`), 0.26 M | 3 routes, a task planned at revision 2, a later state in which the best is gone and another is unpriced, 3 plans, 2 runs, 1 fault | fallbacks advance, results are backed, charges match runs |
| `glm_worker` (`MCGlmWorker`), 0.78 M | 2 operators, 1 worker, 2 tasks, 3 tiers, 2 overrides, 2 keys, 5 changes, 4 initial databases | sent as approved, reported approvals stand, the tier is an operator's |

One more run checks a statement of a design that the code does not keep, and TLC finds the
behaviour (`PROJECT.json`, `findings`; section 5): `lost_read` (`MCT1Dispatch` with
`EventReadFails`), where `OneAttempt`, at most one provider attempt per member, is violated
because a failed read of the events requeues a member that was sent.

Why these bounds are enough. Two processes make every race between two transactions; a
third request is needed for a grant order, for a third party that sweeps, and for a
project at its cap beside one that is not. One fault per run of a sequential call, at any
of its steps, reaches every prefix of its writes, and a crash after a fault adds no new
prefix, since a failing store changes nothing. One control authority suffices because
each property about it speaks of a single change of target, circuit or policy between
arbitrarily many other steps; consecutive changes are left to the proofs, which have no
bound. In general the bounds of a run whose properties are theorems (section 4) only have
to make every action and every race happen once; the theorems have no bounds. Two members give every race over a member, since a release lets one run serve
after another, and ceilings 1 and 1 with costs 0 and 2 give free and excessive costs.
Three epochs let an owner of a cell lose it to the other and come back. A patch that undoes
another is what makes a digest recur. Where a bound keeps an instance finite it is named
(`Max...`, `Capacity`), and the actions it stops are guarded by it; `CHECK_DEADLOCK FALSE`
is set in those runs, where calls, requests, events or faults are used up, after which
the instance rightly stops.

Every property has been seen to fail when one definition of the model is replaced by a
plausible bug (`PROJECT.json`, `mutants`).

### Fairness

Safety runs assume none.

`AgentCell!FairSpec`: a worker that can go on does (the runner is a loop in a process that
does nothing else), a lease runs out, a refused call returns, an agent run that has
completed is seen to by `recover_terminal`. Rehydration is strongly fair, since it is
enabled only while nobody else owns the cell. Crashes are not limited by fairness but by
the last epoch: its holder neither dies nor loses its lease, which says that crashes are
finitely many and not that any one completion is spared. Asking the model is not fair:
the property is about completions, not about models that decide.

## 4. Proofs

Every property that a run checks of the modules proved about is a theorem, except
liveness. All are proved from the assumptions on the constants alone (named in the module
that declares them, evaluated by TLC in every run). Each proof module has one or a few inductive
invariants for its safety properties, checked by TLC on the module's run before they were
proved, a lemma per action, and a lemma `Next...` that puts the actions together.

### ProviderAdmissionProofs

For all finite sets of requests and projects, all
policies, scopes, maxima and caps (`ConstantsAssumption`), all targets and authorities:

| Theorem | Statement |
|---|---|
| `TypeCorrect` | `Spec => []TypeOK` |
| `HalfOpenIsExclusive` | `Spec => []HalfOpenExclusive` |
| `PressureStopsProvider`, `UnresolvedStopsGlobally`, `SnapshotIsReadable`, together `StopsAreHeld` | the three stopping rules, `Spec => []StopsHold` |
| `CapacityIsBounded`, `ProjectCapHolds`, together `CapacityIsHeld` | `Spec => []CapacityHolds` |
| `UnitsAreExact` | `Spec => []UnitsAgree` |
| `UnitsReleasedByEvidence` | `Spec => ReleasedByEvidence` |
| `OpenIsLeftByAuthority` | `Spec => OpenLeftByAuthority` |
| `GrantsKeepOrder` | `Spec => GrantsInOrder` |
| `KernelImplementsLedger` | `Spec => ImplementsLedger`: the kernel refines `AdmissionLedger` |

Two inductive invariants carry them. `ControlInv` joins the type invariant with the
circuit's properties: none of these is inductive alone. While half open, nothing but the
bound probe may be live, which is what makes every step out of half-open unambiguous;
under the global scope an unresolved row implies an open circuit; the episode is
`unknown_only` only when no pressure or missing evidence is pending, which is what
`SupersedePolicy` relies on when it closes a circuit that pressure opened; and then every
unresolved row has its evidence. `CapacityInv` adds the counts on top of `ControlInv`:
units equal holding rows, per-project caps, the target bound. `FitsSuccessor` and `Idle`
are needed exactly where the capacity shrinks, and exclusivity where the circuit turns
half-open, whose capacity is one. Cardinality facts (adding, removing, moving a row) are
lemmas, stated once and cited by the actions.

`RowSteps` says what a step does to the rows: one of them takes an edge of `RowMoves`, the
others are at most swept. Release by evidence follows at once, and so does the refinement,
since each edge is a move of the ledger's unit or none; that the ledger's bound exists
(a greatest maximum among the policies) follows from the well-foundedness of strict
inclusion, and that it holds from `CapacityInv` after the step. The order of grants needs
`OrderInv`: only requests that may wait are ordered, and no two both ways, because a caller
reads its clock only when its request has no row and is not already being read for.

### T1DispatchProofs

For all finite sets of runs and members, all ordinals,
ceilings, costs and capacities (`QueueAssumption`, `DispatchAssumption`: the ceilings add
up to the aggregate, as `T1ExecutionManifest` checks):

| Theorem | Statement |
|---|---|
| `DispatchTypeCorrect` | `Spec => []TypeOK` |
| `SettlementHasEvidence`, `SettlementIsCharged`, `SettledStaysSettled`, together `SettlementsAreHeld` | `Spec => SettlementsHold` |
| `NoStraySends` | `Spec => NoStraySend` |
| `AtMostOneAttempt` | `Spec => [](~EventReadFails => OneAttempt)` |
| `DispatchersKeepLedger` | `Spec => ImplementsLedger`: the workers' permits refine `AdmissionLedger` |

The inductive invariant `DispatchInv` says what a worker may rely on between its
transactions. `ClaimsKept`: from its claim to its end, a run's name stays on its member's
row and the row is not queued again, whatever sweeps and operators do (they only move it
on to reconciliation or to a settled state); two working runs therefore never work on the
same member. `LeasesLast`: a run that has not sent yet and whose permit is granted and
unexpired still holds an unexpired claim, because a lease outlives the permit granted
before it; so a worker that finds its grant in time by the clock of `begin_transport` holds
its member at that moment, although `begin_transport` does not look at the queue. From the
clock to the write lock only `ClaimsKept` is left: a worker that stalls there may send after its
lease, even after an operator has settled its member, but not what is queued again or another
run's, which is what `NoStraySend` says. `ChargesKnown`: a run about to settle has a persisted answer
and has charged its cost. The action properties follow from two lemmas about every step:
`RunStep` (a call takes an edge of `run_one`'s control flow and forgets nothing) and
`RowSteps` (the ways a row may change). `AtMostOneAttempt` needs a second invariant,
`AttemptsKept`: a queued member was never sent, nor was that of a working run without a
stored dispatch event; the assumption `~EventReadFails` is used exactly where
`release_before_dispatch` queues a member again.

The refinement needs two more facts: a call that has not been admitted holds no unit
(`NothingEarly`), so that `try_admit` always starts from none, and the units held fit the
capacity (`UnitsFit`).

### T1StagingProofs

For all manifests, claims, members, stagers, bindings and operators:

| Theorem | Statement |
|---|---|
| `StagingTypes` | `Spec => []TypeOK` |
| `OwnersAreOne` | `Spec => []OneOwner` |
| `BundlesAreQueued` | `Spec => []BundleIsQueued` |
| `StagingsAreUndone` | `Spec => []StagingUndone` |

`StagingInv` has a part for each thing that outlives a transaction. `OwnersAgree` and
`RecordsAgree`: the rows in force for a path are of one plan and one named group, and what
is recorded as written is there; `MemberSound` ties a lease to a member that was enqueued.
`QueueSound`: a queued plan's batch authority was issued for the manifest queued and is live
unless an operator has begun to resolve a member, whether or not the resolution was ever
finished; and `MemberSound` says that such a member has left the queue for good. `StagerSound`: the batch authority a stager has issued and not yet enqueued is
named by no queue row, no other stager, no bundle and no failure, which is why its
compensation never revokes the authority of a queued plan. `FailureSound` and
`BundleSound` are the two properties in a form that later steps keep, since authorities are
only added and revoked (`Grow`).

### RuntimeProofs

For any numbers of callers, runs, resources, references, epochs and tokens:

| Theorem | Statement |
|---|---|
| `InvokeTypes` | `Spec => []TypeOK` |
| `TransportsAreSound` | `Spec => []TransportsSound` |
| `RecordsAlwaysAgree` | `Spec => []RecordsAgree` |
| `ReturnsRelease` | `Spec => []ReturnedMeansReleased` |
| `InvokeKeepsOrder` | `Spec => RecordsInOrder`: `invoke` refines `RunLedger` |

`InvokeInv`: a run has one driver between its dispatch event and its terminal one
(`OneDriver`), so that a second `invoke` of the same id gets no further than the event;
what a driver has passed is in the stores (`Recorded`); from the dispatch on it holds its
lease or the run is marked lost (`Leased`, `GivenBack`), tokens in use are at most the last
issued (`TokensPast`); and a caller that still has a permit or a lease to give back is at a
place from which it does (`Owed`).

For any numbers of conversations, threads, runs, references and restarts of the chat
server:

| Theorem | Statement |
|---|---|
| `ChatSound`, `ChatTypes` | `ChatSpec => []ChatInv`, `ChatSpec => []ChatTypeOK` |
| `RepliesAreBacked`, `RepliesFollowQuestions`, together `RepliesAreSound` | `ChatSpec => []RepliesSound` |
| `DeletedIsGone` | `ChatSpec => []DeletedMeansGone` |
| `ChatKeepsOrder` | `ChatSpec => RecordsInOrder`: the chat server refines `RunLedger` |

`ChatInv` starts from what the lock of a conversation gives: one request at a time in each
(`OneRequest`). With it a thread may keep, from one transaction to the next, what it knows of
its turn and of the three stores behind it (`Sending`), or of what it has deleted
(`Deleting`); nobody else writes there, however other conversations, restarts and
lapses of leases go on beside it. What outlives a thread, one that died included, is said of
the run (`RunSound`) and of the transcript (`TalkSound`), whose replies are a matter of
positions in a sequence: a reply stands right behind its question and appending keeps that.
The sending steps are proved once for all of them (`Within`: a step stays in one
conversation).

The two refinements share a lemma for each call of a store (`StartEnters`, `AccountEnters`,
`WriteEnters`, ...): made of a run whose records are as far as the call expects, it is a step
of `RunLedger` or writes what is there already (an answer that is none, for example). That
the records are that far is what `Driving` and `Sending` say of whoever makes the call, so
the order holds across crashes and retries because a second caller of a run stops at its
first event. The chat server needs one more fact, `Posted`: the outbox has no row for an
account that is open, hence closing one writes the row with the account's own status.

### AgentProofs

For any agents, workers, owners, clock and, for the graph, patches and commit ids:

| Theorem | Statement |
|---|---|
| `OwnershipFenced`, `CommitsFenced` | `KernelSpec => []OwnershipIsFenced`, `Spec => []OwnershipIsFenced` |
| `HistoryProjected` | `HistoryIsProjection` always, under both specifications |
| `RevisionsOrdered` | `Spec => []RevisionsInOrder` |

`KernelInv` says that a row that exists is the replay of its log (`Projected`), that epochs
of a log do not pass that of its replay (`EpochsPast`), that a lease's owner is the one that
acquired its epoch (`HolderAcquired`), and that no permit is of a later epoch or token than
was handed out (`PermitsPast`). Together they make "the lease and the expected revision are
mine" enough for a write to be of the right epoch. `GraphInv` adds that a row's binding is
the last one logged and that each revision is its patch applied to the one before.
`AgentKernel!Replay` is a recursive function over the log; that replaying one more event
applies that event (`ReplayAppend`) is proved by induction over a set, `SetInduction`, which
is itself derived from the pigeonhole principle, the library's induction theorems being out
of reach.

### AgentCellProofs

For any owners, steps, tools, epochs and revisions:

| Theorem | Statement |
|---|---|
| `CellTypes` | `Spec => []CellTypeOK` |
| `NothingIsTwice` | `Spec => []NothingTwice` |
| `CheckpointsCut` | `Spec => []CheckpointCuts` |

`CellInv`: the place of the runner that holds the lease tells what is pending
(`WellPlaced`); an unknown outcome stops the cell (`UnknownStops`); epochs of attempts grow
and closed ones stay closed (`EpochsGrow`, `PastClosed`); while a checkpoint stands nothing
runs (`CheckpointedIsQuiet`); and a captured candidate is the intended one (`IntentFirst`).

### RouteProofs

For any catalogs, evidence, bundles, invalidations, thresholds and processes:

| Theorem | Statement |
|---|---|
| `ObservatoryTypes` | `Spec => []TypeOK` |
| `AllCapturedFirst` | `Spec => []CapturedFirst` |
| `QualificationsAreEarned` | `Spec => []QualifiedIsEarned` |
| `InvalidationsHold` | `Spec => []InvalidationHolds` |
| `PassportsAreBounded` | `Spec => []PassportBounded` |

Since rows are only added, what a process has read stays between what there was when it
began and what there is. `ObservatoryInv` says so for each process at each of its places
(`Ingesting`, `Evaluating`, `Building`, and `SinceSound` for the moment it began), and for
what it left behind (`Earned`, `Heeded` for decisions, the bounds of shown and cached
passports).

For any finite set of routes, whatever the planning states say of them, and any numbers of
callers, runs, authorities, observations and evidence:

| Theorem | Statement |
|---|---|
| `BestExists` | of some priced routes one is before all others, however they tie |
| `PlansSound` | `PlanRuntimeSpec => []PlanInv` |
| `FallbacksAdvance` | `PlanRuntimeSpec => []FallbackAdvances` |
| `ChargesMatch` | `PlanRuntimeSpec => []ChargesMatchRuns` |
| `ResultsAreBacked` | `PlanRuntimeSpec => []ResultIsBacked` |

`BestExists` is what lets `Best`, a `CHOOSE`, stand for the sorted list of `_rank_key`: a
revision binds a route of those that are left. It is proved from the well-foundedness of
strict inclusion, the rank being transitive (`BeforeIsTransitive`) and total as long as two
routes have two digests (`BeforeIsTotal`). `PlanSound` is why revisions end: each takes one
route out of the eligible ones and puts it among those that failed, so that their number and
the number of fallbacks never add up to more than the routes that were allowed at first.
`HostSound` says what a caller of `execute` knows at each place (from a completed `invoke`
on, the candidate it saw is the one stored; the rows it has booked are there unless it
already counts as failed), and `ResultSound`, in the same words, what it leaves behind.
Costs need `ChargeSound` (a row is the one its run determines) and `OneOfEach`, which holds
since a run that `invoke` still works on has not been booked and so its cost cannot change
afterwards. A result says nothing false after a failed read because `_terminal_payload` and
`_persistence_failure_result` take what they cannot read for absent, and the property says
the same.

### GlmWorkerProofs

For any tasks, tiers, overrides, keys, operators and processes, and whatever earlier
releases left in the databases:

| Theorem | Statement |
|---|---|
| `GlmTypes` | `Spec => []TypeOK` |
| `AllSentAsApproved` | `Spec => []SentAsApproved` |
| `ApprovalsStand` | `Spec => []ApprovalStands` |
| `TiersAreOperators` | `Spec => []TierIsOperators` |

`GlmInv`: the active tier was verified when it was activated (`TierVerified`); an approval
command knows at each place what it has checked (`CommandSound`); a complete record was
granted for exactly the tier and task it is filed under (`RecordSound`); and an invocation
knows at each place which of its looks agreed (`InvocationSound`), so that a policy, key or
record that changes between two looks is noticed by the next one or was approved as well.

### Not proved

Liveness (`CompletionEnds`) is out of the prover's reach under fairness and is model-checked
only. The modules proved about have no RECURSIVE operator: `AgentKernel!Replay`, a recursive function,
is the only recursion, and what is needed of it is proved by induction over a set. That an MC
module's constants satisfy the assumptions is checked by TLC.

## 5. Observed limits

Reading the code for these models showed behaviour that its documents do not promise or
say otherwise. None of it is hidden by a model: each is reachable in the module named, or
is named here because a property had to be stated around it. `specs/` and `docs/` are
under `docs/superpowers/specs/` and `docs/`.

Admission and dispatch:

- A half-open circuit whose probe's dispatch authority lapses before `try_admit` stays
  half open: `_verify_authority` raises before the transaction
  (`provider_admission.py:2219`), while
  `specs/2026-09-10-macr-v070a0-provider-admission-kernel-design.md:175` has a
  pre-network failure reopen it. (`ProviderAdmission`)
- A granted row past its TTL is cancelled by the sweep (`:2054`); line 100 of the same
  document says a granted permit never disappears by TTL. It is safe,
  since such a row has not begun its transport.
- `begin_transport` reads its clock before it waits for the write lock (`:2485`, `:2489`) and
  sweeps by that clock: a worker that stalls there past its TTL, and whose row nobody else has
  swept, still dispatches, against lines 144-147 of the same document. Its
  claim may be swept and its member settled by an operator by then; `NoStraySend` says what
  is still true.
- The callers of `try_admit` cancel their row on BUSY (`t1_dispatcher.py:781-786`,
  `runtime.py:593-598`, `direct_runtime.py:566-593`), so the alternation of lanes finds nobody
  waiting, and interactive demand can starve the rest (document, lines
  114-115; a wrapper that polls, which lines 106-108 allow for, is not in `src/`). A row that
  did wait could still wait for ever behind its own project's interactive ones, since recency
  is per project (`:2150`). No liveness is claimed of admission for this reason: the fairness
  it would take, callers that keep their row and poll, is not what the code's callers do.
- The waiting row of a caller that died stays at the head of the order until its TTL
  (`:2320`), and callers that are not first are busy.
- A failed `read_events` is taken for "not dispatched" (`t1_dispatcher.py:523`): the member
  is queued and sent again, against
  `specs/2026-09-07-macr-v070a0-dynamic-t1-workers-design.md:57` (run `lost_read`).
  `EventReadFails` is FALSE in `dispatch_plan`, and its negation a hypothesis of
  `AtMostOneAttempt`.
- A `claim` that raises leaves the grant to its TTL (`t1_dispatcher.py:787`). An ambiguity
  recorded after the one check (`:703`) does not block claims that have passed it.
- Staging: a stager that dies between issue and enqueue leaves live authorities nobody
  names; a stray dispatch authority makes `load_bundle` refuse until it is revoked; an
  epoch advanced under a queued plan leaves it neither loadable nor stageable again. A plan
  queued under one manifest can be staged or loaded again under another of its manifests,
  with the first one's authority (`scheduler.py:402-416`).
- `resolve_reconciliation` revokes the plan's authority before the transaction that settles
  the member (`scheduler.py:1164`): an operator who dies in between leaves the
  authority revoked, as a finished resolution does, with the member still to be resolved.
- `renew` of queue claims has no caller. `TargetClaim.for_path` derives another digest
  than the lease store's key; the two are never compared in `src/`.

Invoke, chat and plans:

- A second `invoke` of a run id in flight releases the first one's lease
  (`runtime.py:778`); an error of that release replaces the result. Admission errors in
  the `finally` are swallowed and leave the permit to its TTL.
- A chat turn whose process died stays `created`; a death between the deletion of the rows
  and the tombstone leaves no tombstone (`docs/DIRECT_CHAT.md:98` tells of one). An account
  row left open keeps the idle monitor from ever stopping the process.
- `revise_for_failure` looks at no hard gate again
  (`specs/2026-08-28-macr-v0.6-dynamic-coordination-design.md`, I-05, "hard policy is not a weight"), so
  `FallbackAdvances` says that a route passed them when the task was planned. One
  unpriced candidate blocks every fallback. A crash between `invoke` and the costs leaves
  a run uncharged. `evaluate_budget` has no caller. An authority without member digests
  permits every revision, and one authority executes a plan any number of times.

Agents:

- `rebuild_projection` deletes the run's row, which a foreign key without cascade refuses
  for an agent that has a hosted cell. Two processes with one owner id share a permit.
- A commit after the cell is attached pins the cell to a binding that never returns
  (`Rebound`); a cell in `RECONCILIATION_REQUIRED` has no way out; a final decision lost
  by a crash before its intent is asked for again.
- The context cache is called deletable
  (`specs/2026-09-12-macr-v070a1-hosted-agent-cell-design.md:54`), but the completion reads
  the envelope of the final step again (`agent/cell/store.py:1352`), hence `EnvelopeKept`
  in `CompletionEnds`.
- The size check of a directory listing measures it with `"truncated": true`; one that
  fits to the byte is denied once the flag is `false` (`agent/cell/tools.py`).

Observatory and policies:

- Two snapshots that disagree about a subject make every later ingestion of it refuse
  (`observatory_db.py:1333`); a passport is read in several transactions and may mix
  moments, which `PassportBounded` bounds; one `event_id` told twice blocks an import.
- A token override saved while a process runs is not seen by it. A command that approves a
  GLM task under the effective token policy never has the digest the T1 live policy asks
  for. `begin_transport` is consumed before the key is read and the record's MAC checked.
  An active row of an earlier release blocks the provider rather than falling back.
- An approval file that another process has open cannot be moved (`GlmWorker!Archive`): the
  rule of Windows, where the code has to run, since it requires its state on drive D:.

## 6. Not modelled

- **Values and parsing**: contracts of actions, observations and temporal types,
  `coordinator_contract`, `task_preflight`, catalogue parsing, schema validation, digests
  as strings. They change no state.
- **Within modelled components**: the verdict on a GLM response, which changes neither policy nor
  approval; genesis of the kernel and several provider domains
  (independent of each other); amounts of time; `record_transformation` of the vault; the
  outbox's acknowledgement and the billing port's transport; digest chains and migrations
  of the event store; context sections, evidence tables and blobs of the hosted cell;
  semantic projections for a reader; settings and the HTTP surface of the chat; shadow
  plans; payloads of observations.
- **Pure I/O**: the other provider adapters, the CLI apart from the two commands that
  write other components' stores, configuration, discovery, scripts, the user interface.

## 7. Plan

Modelling has gone through every component whose operations change shared state, every
safety and action property that a run checks is a theorem for all values of the constants,
and the refinements of `AdmissionLedger` and `RunLedger`, two of each, are proved. What would come next:

1. The hazards without a property (`PROJECT.json`): a probe whose authority lapses before
   `try_admit`'s transaction, a grant whose claim raised, an ambiguity recorded after the
   dispatcher's one check, and costs beyond the aggregate after a resolution. All are behaviour
   of the code; a property needs a decision of what is intended first.
2. `PlanRuntime` takes `invoke` as one step with an outcome. An INSTANCE of `RunLedger`
   under it, each of its levels of a run mapped to the entry it stands for, would tie the
   two together as `RecordsInOrder` ties the chat server to `invoke`.
3. Components under section 6, if their state comes to be shared.
