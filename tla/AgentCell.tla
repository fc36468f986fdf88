------------------------------ MODULE AgentCell ------------------------------
(***************************************************************************)
(* The hosted agent cell (src/macr_runtime/agent/cell): one AgentRun that  *)
(* asks a model, runs the tools it asks for, and ends with one candidate,  *)
(* across owners that die, lose their lease and hand over at checkpoints.  *)
(*                                                                         *)
(* Each store call is one transaction and one action here; `at' is what    *)
(* the runner of a worker does next.  A row of the cell is what its events *)
(* replay to, and one event is written with each change, so the row stands *)
(* for both.  Of the kernel this module keeps what it promises the cell:   *)
(* one lease, with a new epoch (and fencing token) for each new holder.    *)
(* An expired lease that nobody took is refused at the next call, and so   *)
(* is a call whose clock was read before: expiry is the moment it counts.  *)
(***************************************************************************)
EXTENDS Integers, Sequences, FiniteSets

CONSTANTS
    Workers,    \* owner ids, one process each
    MaxSteps,   \* of the policy: max_steps and max_provider_calls
    MaxTools,   \* of the policy: max_tool_calls
    MaxEpoch,   \* bound: the holder of this epoch neither dies, expires nor gives up
    MaxBinding, \* bound: semantic revisions of the AgentRun, after the cell is attached
    None

ASSUME CellAssumption ==
    /\ MaxSteps \in Nat \ {0} /\ MaxTools \in Nat /\ MaxEpoch \in Nat \ {0} /\ MaxBinding \in Nat

VARIABLES
    agent,      \* the AgentRun: state, epoch, semantic binding, evidence of its completion
    lease,      \* agent_ownership
    cell,       \* hosted_agent_cells: status, and the binding it was attached with
    model,      \* hosted_model_dispatches and their terminals: attempt i is that of step i
    tools,      \* requests, claims and results of the tool of each step
    cached,     \* hosted_context_envelopes: steps whose envelope is stored
    mark,       \* the latest checkpoint
    intent,     \* hosted_agent_completion_intents
    vault,      \* captures of the candidate vault
    at          \* each worker: where its runner is, with which permit and step

vars == <<agent, lease, cell, model, tools, cached, mark, intent, vault, at>>

Statuses == {"ready", "running", "blocked", "checkpointed", "reconciliation_required",
             "completion_pending", "completed"}
Cells == [status : Statuses, pinned : 0..MaxBinding]
Decisions == {"tool", "final"}
Attempts == [epoch : 1..MaxEpoch, end : {None, "failed", "unknown"} \cup Decisions]
ToolStates == {"denied", "admitted", "claimed", "done"}
Places == {"idle", "loop", "built", "asking", "tool", "admitted", "claimed", "executed", "final",
           "intended", "captured", "prepared", "closing", "checkpoint", "leaving"}
Steps == 1..MaxSteps
Candidates == Steps \X (1..MaxEpoch)
Captures == [run : Candidates, answer : Steps]
ToolRecords == [state : ToolStates, epoch : 1..MaxEpoch \cup {None}]
AgentRuns == [state : {"active", "completed"}, epoch : 1..MaxEpoch, binding : 0..MaxBinding,
              evidence : Captures \cup {None}]
Runners == [place : Places, permit : 1..MaxEpoch \cup {None}, step : 0..MaxSteps]
Snapshots == [model : Seq(Attempts), tools : [Steps -> ToolRecords \cup {None}]]

ASSUME NoneAssumption ==
    /\ None \notin {"failed", "unknown"} \cup Decisions
    /\ None \notin Cells /\ None \notin ToolRecords /\ None \notin Captures

\* The status an event of the cell leads to (_transition_expected).
After(status, event) ==
    CASE event \in {"model_dispatched", "rehydrated"} -> "running"
      [] event = "model_failed"        -> "blocked"
      [] event = "pending"             -> "reconciliation_required"
      [] event = "checkpointed"        -> "checkpointed"
      [] event = "completion_prepared" -> "completion_pending"
      [] event = "completed"           -> "completed"
      [] OTHER                         -> status
Record(event) == cell' = [cell EXCEPT !.status = After(@, event)]

Start == [place |-> "idle", permit |-> None, step |-> 0]

Init ==
    /\ agent = [state |-> "active", epoch |-> 1, binding |-> 0, evidence |-> None]
    /\ lease = None
    /\ cell = None
    /\ model = <<>>
    /\ tools = [i \in Steps |-> None]
    /\ cached = {}
    /\ mark = None
    /\ intent = None
    /\ vault = {}
    /\ at = [w \in Workers |-> Start]

----------------------------------------------------------------------------
(* What the operations check.                                              *)

Holds(w) ==
    /\ at[w].permit # None /\ lease # None
    /\ lease.owner = w /\ lease.epoch = at[w].permit

\* _verify_permit
Permitted(w) ==
    /\ agent.state = "active"
    /\ Holds(w) /\ lease.live
    /\ agent.epoch = at[w].permit

NextStep == Len(model) + 1
OpenCalls == {i \in DOMAIN model : model[i].end = None}
OpenTools == {i \in Steps : tools[i] # None /\ tools[i].state \in {"admitted", "claimed"}}
\* (Definitions with a suffix are mutants: bugs the runs show the properties to catch.)
Pending_IgnoresModel == OpenTools # {}
\* _pending_counts
Pending == OpenCalls \cup OpenTools # {}
ToolCalls == Cardinality({i \in Steps : tools[i] # None /\ tools[i].state # "denied"})

Status(s) == cell # None /\ cell.status \in s
Decided == {i \in DOMAIN model : model[i].end \in Decisions}
\* _last_model_decision, and the stored envelope its evidence is looked up in
LastDecision == CHOOSE i \in Decided : \A j \in Decided : j <= i
EnvelopeKept == Decided # {} /\ LastDecision \in cached

Snapshot == [model |-> model, tools |-> tools]

In(w, place) == at[w].place = place
Go(w, place) == at' = [at EXCEPT ![w].place = place]
Leave(w) == at' = [at EXCEPT ![w] = Start]

----------------------------------------------------------------------------
(* Ownership, as the kernel gives it, and the ends of it.                  *)

Acquire(w) ==
    /\ at[w] = Start
    /\ agent.state = "active" /\ agent.epoch < MaxEpoch
    /\ lease # None => ~lease.live
    /\ agent' = [agent EXCEPT !.epoch = @ + 1]
    /\ lease' = [owner |-> w, epoch |-> agent.epoch + 1, live |-> TRUE]
    /\ at' = [at EXCEPT ![w].permit = agent.epoch + 1]
    /\ UNCHANGED <<cell, model, tools, cached, mark, intent, vault>>

\* The same owner id is given its live lease again.
Reacquire(w) ==
    /\ at[w] = Start
    /\ agent.state = "active"
    /\ lease # None /\ lease.owner = w /\ lease.live
    /\ at' = [at EXCEPT ![w].permit = lease.epoch]
    /\ UNCHANGED <<agent, lease, cell, model, tools, cached, mark, intent, vault>>

Expire ==
    /\ lease # None /\ lease.live /\ lease.epoch < MaxEpoch
    /\ lease' = [lease EXCEPT !.live = FALSE]
    /\ UNCHANGED <<agent, cell, model, tools, cached, mark, intent, vault, at>>

\* release_agent_run, at the end of _checkpoint and of an activation
Release(w) ==
    /\ In(w, "leaving")
    /\ Holds(w)
    /\ lease' = None
    /\ Leave(w)
    /\ UNCHANGED <<agent, cell, model, tools, cached, mark, intent, vault>>

\* A worker dies, or a call raises for a reason of its own (authority, vault, blob).
Crash(w) ==
    /\ at[w] # Start /\ (at[w].permit # None => at[w].permit < MaxEpoch)
    /\ Leave(w)
    /\ UNCHANGED <<agent, lease, cell, model, tools, cached, mark, intent, vault>>

\* A call refuses a permit that is no longer good, or the state of the cell.
Raise(w) ==
    /\ at[w] # Start /\ ~In(w, "closing")
    /\ \/ ~Permitted(w)
       \/ In(w, "loop") /\ intent = None /\ ~Pending
            /\ Status({"reconciliation_required", "checkpointed"})
       \/ In(w, "built") /\ Status({"blocked"})
       \/ In(w, "captured") /\ ~Status({"running", "completion_pending"})
    /\ Leave(w)
    /\ UNCHANGED <<agent, lease, cell, model, tools, cached, mark, intent, vault>>

\* The agent commits to its semantic graph and is bound to the new revision.
Rebind(w) ==
    /\ In(w, "idle") /\ Permitted(w)
    /\ cell # None /\ agent.binding < MaxBinding
    /\ agent' = [agent EXCEPT !.binding = @ + 1]
    /\ UNCHANGED <<lease, cell, model, tools, cached, mark, intent, vault, at>>

----------------------------------------------------------------------------
(* The loop of run_activation.                                             *)

Attach(w) ==
    /\ In(w, "idle") /\ Permitted(w)
    /\ cell = None
    /\ cell' = [status |-> "ready", pinned |-> agent.binding]
    /\ UNCHANGED <<agent, lease, model, tools, cached, mark, intent, vault, at>>

Activate(w) ==
    /\ In(w, "idle") /\ Permitted(w) /\ cell # None
    /\ Go(w, "loop")
    /\ UNCHANGED <<agent, lease, cell, model, tools, cached, mark, intent, vault>>

\* mark_pending_reconciliation
MarkPending(w) ==
    /\ In(w, "loop") /\ Permitted(w)
    /\ intent = None
    /\ Pending
    /\ Record("pending")
    /\ Go(w, "leaving")
    /\ UNCHANGED <<agent, lease, model, tools, cached, mark, intent, vault>>

NoIntent == intent = None
MayGoOn(w) ==
    /\ In(w, "loop") /\ Permitted(w)
    /\ NoIntent
    /\ ~Pending
    /\ ~Status({"reconciliation_required", "checkpointed"})

\* The steps and calls of the policy are used up, or its time or its money.
Exhausted(w) ==
    /\ MayGoOn(w)
    /\ Go(w, "checkpoint")
    /\ UNCHANGED <<agent, lease, cell, model, tools, cached, mark, intent, vault>>

\* context.build and save_context_envelope
Build(w) ==
    /\ MayGoOn(w) /\ NextStep <= MaxSteps
    /\ cached' = cached \cup {NextStep}
    /\ Go(w, "built")
    /\ UNCHANGED <<agent, lease, cell, model, tools, mark, intent, vault>>

\* get_cached_envelope: a runner that comes back to a step uses its envelope again
\* if the causes are the same (epoch, revisions, checkpoint, what was used up); they
\* are left out here, so a step with an envelope may be built or reused.
Reuse(w) ==
    /\ MayGoOn(w)
    /\ NextStep \in cached
    /\ Go(w, "built")
    /\ UNCHANGED <<agent, lease, cell, model, tools, cached, mark, intent, vault>>

\* begin_model_attempt; the model is invoked after it
Begin(w) ==
    /\ In(w, "built") /\ Permitted(w)
    /\ Status({"ready", "running"})
    /\ ~Pending
    /\ NextStep <= MaxSteps
    /\ model' = Append(model, [epoch |-> at[w].permit, end |-> None])
    /\ Record("model_dispatched")
    /\ at' = [at EXCEPT ![w].place = "asking", ![w].step = NextStep]
    /\ UNCHANGED <<agent, lease, tools, cached, mark, intent, vault>>

Unanswered(w) == In(w, "asking") /\ Permitted(w) /\ model[at[w].step].end = None

\* finish_model_success
Succeed(w, decision) ==
    /\ Unanswered(w)
    /\ model' = [model EXCEPT ![at[w].step].end = decision]
    /\ Record("model_completed")
    /\ Go(w, decision)
    /\ UNCHANGED <<agent, lease, tools, cached, mark, intent, vault>>

\* What the port reports of a call that gave no decision: whether the network was
\* tried, whether an answer came, and whether its cost is known.
Failures ==
    {f \in [attempted : {TRUE, FALSE, None}, answered : {TRUE, FALSE, None}, priced : BOOLEAN] :
        f.answered = TRUE => f.attempted = TRUE}
Ambiguous(f) == f.attempted # FALSE /\ (f.answered # TRUE \/ ~f.priced)

\* An answer that is too large, too dear or no decision; its cost is known.
Rejected == [attempted |-> TRUE, answered |-> TRUE, priced |-> TRUE]

\* finish_model_failure
Fail(w, f) ==
    /\ Unanswered(w)
    /\ model' = [model EXCEPT ![at[w].step].end = IF Ambiguous(f) THEN "unknown" ELSE "failed"]
    /\ Record(IF Ambiguous(f) THEN "pending" ELSE "model_failed")
    /\ Go(w, IF Ambiguous(f) THEN "leaving" ELSE "checkpoint")
    /\ UNCHANGED <<agent, lease, tools, cached, mark, intent, vault>>

SetTool(w, state, epoch) == tools' = [tools EXCEPT ![at[w].step] = [state |-> state, epoch |-> epoch]]

\* record_tool_denial: the permit and the step are all it checks
Deny(w) ==
    /\ In(w, "tool") /\ Permitted(w)
    /\ at[w].step = NextStep - 1
    /\ SetTool(w, "denied", None)
    /\ Record("tool_denied")
    /\ Go(w, "loop")
    /\ UNCHANGED <<agent, lease, model, cached, mark, intent, vault>>

\* begin_tool
Admit(w) ==
    /\ In(w, "tool") /\ Permitted(w)
    /\ Status({"running"})
    /\ ~Pending
    /\ at[w].step = NextStep - 1
    /\ ToolCalls < MaxTools
    /\ SetTool(w, "admitted", None)
    /\ Record("tool_admitted")
    /\ Go(w, "admitted")
    /\ UNCHANGED <<agent, lease, model, cached, mark, intent, vault>>

\* claim_tool_execution
Claim(w) ==
    /\ In(w, "admitted") /\ Permitted(w)
    /\ tools[at[w].step].state = "admitted"
    /\ Status({"running"}) /\ ToolCalls <= MaxTools
    /\ SetTool(w, "claimed", at[w].permit)
    /\ Record("tool_claimed")
    /\ Go(w, "claimed")
    /\ UNCHANGED <<agent, lease, model, cached, mark, intent, vault>>

\* _recheck_before_execute
Rechecked(w) == Permitted(w) /\ ToolCalls <= MaxTools

\* The tool reads the workspace; it is not run again under the same action.
Execute(w) ==
    /\ In(w, "claimed") /\ Rechecked(w)
    /\ Go(w, "executed")
    /\ UNCHANGED <<agent, lease, cell, model, tools, cached, mark, intent, vault>>

\* finish_tool: with the result, or as failed when the recheck denied the execution
FinishTool(w) ==
    /\ In(w, "claimed") \/ In(w, "executed")
    /\ Permitted(w)
    /\ tools[at[w].step] = [state |-> "claimed", epoch |-> at[w].permit]
    /\ SetTool(w, "done", at[w].permit)
    /\ Record("tool_completed")
    /\ Go(w, "loop")
    /\ UNCHANGED <<agent, lease, model, cached, mark, intent, vault>>

----------------------------------------------------------------------------
(* Checkpoints.                                                            *)

MayCheckpoint ==
    /\ Status({"ready", "running", "blocked"})
    /\ ~Pending
    /\ cell.pinned = agent.binding

\* The rest of create_checkpoint: the cut, with what it leaves behind.
Cut ==
    /\ mark' = [epoch |-> agent.epoch, snapshot |-> Snapshot]
    /\ Record("checkpointed")

\* create_checkpoint, from the loop or from checkpoint_activation
Checkpoint(w) ==
    /\ \/ In(w, "checkpoint")
       \/ In(w, "idle") /\ agent.epoch < MaxEpoch
    /\ Permitted(w)
    /\ MayCheckpoint
    /\ Cut
    /\ Go(w, "leaving")
    /\ UNCHANGED <<agent, lease, model, tools, cached, intent, vault>>

FreshEpoch_Same(w) == TRUE
FreshEpoch(w) == mark.epoch < at[w].permit

MayRehydrate(w) ==
    /\ ~Pending
    /\ mark.snapshot = Snapshot
    /\ FreshEpoch(w)
    /\ cell.pinned = agent.binding

Rehydrate(w) ==
    /\ In(w, "idle") /\ Permitted(w)
    /\ Status({"checkpointed"})
    /\ MayRehydrate(w)
    /\ Record("rehydrated")
    /\ Go(w, "loop")
    /\ UNCHANGED <<agent, lease, model, tools, cached, mark, intent, vault>>

\* rehydrate_and_run gives its permit back when rehydrate raises.
RehydrateRefused(w) ==
    /\ In(w, "idle") /\ Holds(w)
    /\ Status({"checkpointed"})
    /\ Permitted(w) => ~MayRehydrate(w)
    /\ lease' = None
    /\ Leave(w)
    /\ UNCHANGED <<agent, cell, model, tools, cached, mark, intent, vault>>

----------------------------------------------------------------------------
(* Completion: intent, capture, preparation, the AgentRun, the cell.       *)

\* create_completion_intent
Intend(w) ==
    /\ In(w, "final") /\ Permitted(w)
    /\ Status({"running"})
    /\ ~Pending
    /\ EnvelopeKept /\ LastDecision = at[w].step
    /\ intent = None
    /\ intent' = [run |-> <<at[w].step, at[w].permit>>, answer |-> at[w].step]
    /\ Record("completion_intent")
    /\ Go(w, "intended")
    /\ UNCHANGED <<agent, lease, model, tools, cached, mark, vault>>

\* read_completion_intent answers
Readable == intent # None /\ EnvelopeKept /\ LastDecision = intent.answer

\* _recover_completion, from the top of the loop
Recover(w) ==
    /\ In(w, "loop") /\ Permitted(w)
    /\ Readable
    /\ Go(w, "intended")
    /\ UNCHANGED <<agent, lease, cell, model, tools, cached, mark, intent, vault>>

TheCapture == [run |-> intent.run, answer |-> intent.answer]

\* The vault holds one capture for a run id, and asks for no permit.
Capture(w) ==
    /\ In(w, "intended")
    /\ vault' = vault \cup {TheCapture}
    /\ Go(w, "captured")
    /\ UNCHANGED <<agent, lease, cell, model, tools, cached, mark, intent>>

Prepare(w) ==
    /\ In(w, "captured") /\ Permitted(w)
    /\ Status({"running"})
    /\ ~Pending
    /\ Readable
    /\ TheCapture \in vault
    /\ Record("completion_prepared")
    /\ Go(w, "prepared")
    /\ UNCHANGED <<agent, lease, model, tools, cached, mark, intent, vault>>

AlreadyPrepared_Never == FALSE
AlreadyPrepared == Status({"completion_pending"})
SkipPrepare(w) ==
    /\ In(w, "captured")
    /\ AlreadyPrepared
    /\ Go(w, "prepared")
    /\ UNCHANGED <<agent, lease, cell, model, tools, cached, mark, intent, vault>>

\* complete_agent_run: the AgentRun is terminal and its lease is gone
CompleteAgent(w) ==
    /\ In(w, "prepared") /\ Permitted(w)
    /\ agent' = [agent EXCEPT !.state = "completed", !.evidence = TheCapture]
    /\ lease' = None
    /\ Go(w, "closing")
    /\ UNCHANGED <<cell, model, tools, cached, mark, intent, vault>>

\* finalize_completion needs no permit; a repeated call changes nothing.
FinalizeCell ==
    /\ Status({"completion_pending"})
    /\ agent.state = "completed"
    /\ agent.evidence = TheCapture
    /\ Record("completed")
    /\ UNCHANGED <<agent, lease, model, tools, cached, mark, intent, vault>>

Finalize(w) == In(w, "closing") /\ FinalizeCell /\ Leave(w)
AlreadyFinal(w) ==
    /\ In(w, "closing") /\ Status({"completed"})
    /\ Leave(w)
    /\ UNCHANGED <<agent, lease, cell, model, tools, cached, mark, intent, vault>>

\* recover_terminal_completion, by anybody
RecoverTerminal ==
    /\ agent.state = "completed"
    /\ Readable
    /\ TheCapture \in vault
    /\ FinalizeCell
    /\ UNCHANGED at

\* clear_context_cache asks for no permit.
ClearCache ==
    /\ cached # {}
    /\ cached' = {}
    /\ UNCHANGED <<agent, lease, cell, model, tools, mark, intent, vault, at>>

----------------------------------------------------------------------------

Owning(w) == Acquire(w) \/ Reacquire(w)
Starting(w) == Activate(w) \/ Rehydrate(w) \/ RehydrateRefused(w)
Finishing(w) ==
    Recover(w) \/ Capture(w) \/ Prepare(w) \/ SkipPrepare(w) \/ CompleteAgent(w)
        \/ Finalize(w) \/ AlreadyFinal(w)
Asking(w) ==
    \/ MarkPending(w) \/ Exhausted(w) \/ Build(w) \/ Reuse(w) \/ Begin(w)
    \/ \E decision \in Decisions : Succeed(w, decision)
    \/ \E f \in Failures \cup {Rejected} : Fail(w, f)
    \/ Checkpoint(w) \/ Intend(w)
Using(w) == Deny(w) \/ Admit(w) \/ Claim(w) \/ Execute(w) \/ FinishTool(w)

Next ==
    \/ \E w \in Workers :
        \/ Owning(w) \/ Starting(w) \/ Asking(w) \/ Using(w) \/ Finishing(w)
        \/ Release(w) \/ Crash(w) \/ Raise(w) \/ Rebind(w) \/ Attach(w)
    \/ Expire \/ RecoverTerminal \/ ClearCache

Spec == Init /\ [][Next]_vars

\* A worker that can go on does; leases run out; a refused call returns; a checkpointed
\* cell is rehydrated in the end, and a cell whose AgentRun has completed is seen to.
Fairness ==
    /\ \A w \in Workers :
        /\ WF_vars(Owning(w)) /\ WF_vars(Starting(w)) /\ WF_vars(Finishing(w))
        /\ WF_vars(Release(w)) /\ WF_vars(Raise(w)) /\ SF_vars(Rehydrate(w))
    /\ WF_vars(Expire) /\ WF_vars(RecoverTerminal)

FairSpec == Spec /\ Fairness

----------------------------------------------------------------------------
(* Properties.                                                             *)

CellTypeOK ==
    /\ agent \in AgentRuns
    /\ lease \in [owner : Workers, epoch : 1..MaxEpoch, live : BOOLEAN] \cup {None}
    /\ cell \in Cells \cup {None}
    /\ model \in Seq(Attempts) /\ Len(model) <= MaxSteps
    /\ tools \in [Steps -> ToolRecords \cup {None}]
    /\ cached \subseteq Steps
    /\ mark \in [epoch : 1..MaxEpoch, snapshot : Snapshots] \cup {None}
    /\ intent \in Captures \cup {None}
    /\ vault \subseteq Captures
    /\ at \in [Workers -> Runners]

\* A model call or a tool of which it is not known how it ended is the last one:
\* nothing is dispatched after it, by whichever owner ("A dispatch without a
\* terminal record blocks rehydration and is never silently retried").
NoBlindRetry ==
    \A i \in DOMAIN model : i < Len(model) =>
        /\ model[i].end \notin {None, "unknown"}
        /\ tools[i] # None => tools[i].state \in {"denied", "done"}

\* A checkpoint is a cut: what was recorded before it is never touched again, and
\* what comes after it is the work of later epochs (create_checkpoint, rehydrate).
CheckpointCuts ==
    mark # None =>
        LET past == DOMAIN mark.snapshot.model IN
        /\ \A i \in past : i <= Len(model) /\ model[i] = mark.snapshot.model[i]
                           /\ tools[i] = mark.snapshot.tools[i]
        /\ \A i \in DOMAIN model \ past : model[i].epoch > mark.epoch

\* However often completion is interrupted and resumed, there is one candidate, it
\* is the last decision of the model, and the AgentRun completes with it and no
\* other; the cell completes after the AgentRun (_complete, _recover_completion).
OneCandidate ==
    /\ intent # None => /\ intent.answer = Len(model) /\ model[Len(model)].end = "final"
                        /\ vault \subseteq {TheCapture}
    /\ agent.state = "completed" =>
        /\ intent # None /\ agent.evidence = TheCapture /\ vault = {TheCapture}
        /\ Status({"completion_pending", "completed"})
    /\ Status({"completed"}) => agent.state = "completed"

Rebound == cell # None /\ cell.pinned # agent.binding

\* An intended completion ends, whoever dies in the middle of it, as long as the
\* envelope of the final step is kept and the agent is bound to what it was.
CompletionEnds ==
    intent # None ~> Status({"completed"}) \/ ~EnvelopeKept \/ Rebound

\* Whatever is resumed, nothing is repeated: neither a call whose outcome is not known
\* nor the completion (begin_model_attempt, prepare_completion).
NothingTwice == NoBlindRetry /\ OneCandidate
=============================================================================
