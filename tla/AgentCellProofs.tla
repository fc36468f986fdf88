--------------------------- MODULE AgentCellProofs ---------------------------
(***************************************************************************)
(* Machine-checked proofs about the hosted agent cell, for any number of   *)
(* owners, steps, tool calls, epochs and semantic revisions.               *)
(***************************************************************************)
EXTENDS AgentCell, SequenceTheorems, TLAPS

(***************************************************************************)
(* The inductive invariant.                                                *)
(***************************************************************************)

\* What the place of a runner says of the records it wrote to get there, whether or
\* not its permit is still good.
WellPlaced(w) ==
    /\ at[w].place # "idle" => cell # None
    /\ at[w].place \in {"asking", "tool", "admitted", "claimed", "executed", "final"}
        => at[w].step \in DOMAIN model
    /\ at[w].place \in {"admitted", "claimed", "executed"} => tools[at[w].step] # None
    /\ at[w].place \in {"intended", "captured", "prepared", "closing"} => intent # None
    /\ at[w].place \in {"captured", "prepared", "closing"} => TheCapture \in vault
    /\ at[w].place \in {"prepared", "closing"} => Status({"completion_pending", "completed"})

\* The runner with the good permit works on the last attempt, which is its own.
Owned(w) ==
    Permitted(w) =>
        /\ at[w].place \in {"asking", "tool", "final"} =>
            /\ Status({"running"})
            /\ at[w].step = Len(model) /\ model[Len(model)].epoch = at[w].permit
        /\ at[w].place = "final" => model[Len(model)].end = "final"
        /\ at[w].place = "built" => intent = None

\* An attempt of unknown outcome stops the cell for good, and nothing is open in a
\* cell that is checkpointed.
UnknownStops == \A i \in DOMAIN model : model[i].end = "unknown" => Status({"reconciliation_required"})
CheckpointedIsQuiet == Status({"checkpointed"}) => ~Pending

\* What a checkpoint cut was closed, and is of earlier epochs than the one that goes on.
PastClosed ==
    mark # None =>
        /\ \A i \in DOMAIN mark.snapshot.model :
            /\ mark.snapshot.model[i].end # None
            /\ mark.snapshot.model[i].epoch <= mark.epoch
        /\ \A i \in Steps : mark.snapshot.tools[i] # None =>
            mark.snapshot.tools[i].state \in {"denied", "done"}
EpochsGrow ==
    /\ \A i \in DOMAIN model : model[i].epoch <= agent.epoch
    /\ mark # None => mark.epoch <= agent.epoch
    /\ mark # None /\ ~Status({"checkpointed"}) => mark.epoch < agent.epoch

\* The vault and the status know of a completion only once there is an intent.
IntentFirst ==
    intent = None => vault = {} /\ ~Status({"completion_pending", "completed"})

\* What the tables say among themselves, whatever the runners do.
Tables ==
    /\ UnknownStops /\ CheckpointedIsQuiet
    /\ PastClosed /\ EpochsGrow /\ IntentFirst
    /\ NoBlindRetry /\ CheckpointCuts /\ OneCandidate

CellInv ==
    /\ CellTypeOK
    /\ \A w \in Workers : WellPlaced(w) /\ Owned(w)
    /\ Tables

(***************************************************************************)
(* The attempts, and their type.                                           *)
(***************************************************************************)

Closed(m, i, end) == [m EXCEPT ![i].end = end]

\* An attempt that ends keeps its place and its epoch, and the others stay.
LEMMA EndedAttempt ==
    ASSUME NEW m \in Seq(Attempts), NEW i \in DOMAIN m,
           NEW end \in {None, "failed", "unknown"} \cup Decisions,
           NEW n, n = Closed(m, i, end)
    PROVE  /\ n \in Seq(Attempts) /\ Len(n) = Len(m) /\ DOMAIN n = DOMAIN m
           /\ n[i].end = end /\ n[i].epoch = m[i].epoch
           /\ \A j \in DOMAIN m : j # i => n[j] = m[j]
<1> DEFINE e == [m[i] EXCEPT !.end = end]
<1>1. Len(m) \in Nat /\ DOMAIN m = 1..Len(m) /\ m[i] \in Attempts
    BY LenProperties, ElementOfSeq
<1>2. e \in Attempts /\ e.end = end /\ e.epoch = m[i].epoch
    BY <1>1 DEF Attempts
<1>3. n = [m EXCEPT ![i] = e]
    BY DEF Closed
<1> HIDE DEF e
<1>4. n \in Seq(Attempts) /\ Len(n) = Len(m) /\ \A j \in 1..Len(m) : n[j] = IF j = i THEN e ELSE m[j]
    BY <1>1, <1>2, <1>3, ExceptSeq
<1>5. DOMAIN n = 1..Len(n)
    BY <1>4, LenProperties
<1>6. QED
    BY <1>1, <1>2, <1>4, <1>5

\* A new attempt is the last one.
LEMMA BegunAttempt ==
    ASSUME NEW m \in Seq(Attempts), NEW epoch \in 1..MaxEpoch,
           NEW n, n = Append(m, [epoch |-> epoch, end |-> None])
    PROVE  /\ n \in Seq(Attempts) /\ Len(n) = Len(m) + 1
           /\ DOMAIN n = DOMAIN m \cup {Len(m) + 1}
           /\ n[Len(m) + 1] = [epoch |-> epoch, end |-> None]
           /\ \A j \in DOMAIN m : n[j] = m[j]
<1>1. [epoch |-> epoch, end |-> None] \in Attempts
    BY DEF Attempts
<1>2. Len(m) \in Nat /\ DOMAIN m = 1..Len(m)
    BY LenProperties
<1>3. Append(m, [epoch |-> epoch, end |-> None]) \in Seq(Attempts)
    BY <1>1
<1>4. QED
    BY <1>1, <1>2, <1>3, LenProperties

\* The attempts of the cell are numbered from 1, each of its type.
LEMMA AttemptTypes ==
    ASSUME CellTypeOK
    PROVE  /\ Len(model) \in Nat /\ DOMAIN model = 1..Len(model) /\ DOMAIN model \subseteq Steps
           /\ \A i \in DOMAIN model : model[i] \in Attempts
<1>1. Len(model) \in Nat /\ DOMAIN model = 1..Len(model)
    BY LenProperties DEF CellTypeOK
<1>2. QED
    BY <1>1, ElementOfSeq, CellAssumption DEF CellTypeOK, Steps

\* A runner that goes on or leaves stays of its type.
LEMMA RunnerTypes ==
    ASSUME CellTypeOK, NEW w \in Workers, NEW place \in Places,
           Go(w, place) \/ Leave(w)
    PROVE  at' \in [Workers -> Runners]
<1>1. Start \in Runners
    BY CellAssumption DEF Start, Runners, Places
<1>2. [at[w] EXCEPT !.place = place] \in Runners
    BY DEF CellTypeOK, Runners
<1>3. CASE at' = [at EXCEPT ![w] = [at[w] EXCEPT !.place = place]]
    BY <1>2, <1>3 DEF CellTypeOK
<1>4. CASE Leave(w)
    BY <1>1, <1>4 DEF CellTypeOK, Leave
<1>5. QED
    BY <1>3, <1>4 DEF Go

\* Initially every table of the cell is empty or absent.
LEMMA InitCell == Init => CellInv
<1> SUFFICES ASSUME Init PROVE CellInv
    OBVIOUS
<1> USE DEF Init
<1>1. model \in Seq(Attempts) /\ Len(model) = 0 /\ DOMAIN model = {}
    BY EmptySeq, LenProperties
<1>2. CellTypeOK
    BY <1>1, CellAssumption DEF CellTypeOK, Start, Places, AgentRuns, Runners
<1>3. \A w \in Workers : WellPlaced(w) /\ Owned(w)
    BY DEF WellPlaced, Owned, Permitted, Holds, Start
<1>4. UnknownStops /\ CheckpointedIsQuiet /\ PastClosed /\ EpochsGrow /\ IntentFirst
    BY <1>1 DEF UnknownStops, CheckpointedIsQuiet, PastClosed, EpochsGrow, IntentFirst, Status
<1>5. NoBlindRetry /\ CheckpointCuts /\ OneCandidate
    BY <1>1 DEF NoBlindRetry, CheckpointCuts, OneCandidate, Status
<1>6. QED
    BY <1>2, <1>3, <1>4, <1>5 DEF CellInv, Tables

\* Each action keeps every table of its type.
LEMMA NextType == CellInv /\ [Next]_vars => CellTypeOK'
<1> SUFFICES ASSUME CellInv, [Next]_vars PROVE CellTypeOK'
    OBVIOUS
<1> USE CellAssumption
<1>T. CellTypeOK /\ \A w \in Workers : WellPlaced(w)
    BY DEF CellInv
<1>S. ASSUME NEW event, cell # None, Record(event)
      PROVE  cell' \in Cells
    <2>1. cell \in Cells
        BY <1>T, <1>S DEF CellTypeOK
    <2>2. After(cell.status, event) \in Statuses
        BY <2>1 DEF After, Cells, Statuses
    <2>3. QED
        BY <1>S, <2>1, <2>2 DEF Record, Cells
<1>P. ASSUME NEW w \in Workers, Permitted(w) PROVE at[w].permit \in 1..MaxEpoch
    BY <1>T, <1>P DEF Permitted, Holds, CellTypeOK, Runners
<1>1. ASSUME NEW w \in Workers, Owning(w) \/ Starting(w) PROVE CellTypeOK'
    <2>1. CASE Acquire(w) \/ Reacquire(w)
        <3>1. lease' \in [owner : Workers, epoch : 1..MaxEpoch, live : BOOLEAN]
            <4>1. CASE Acquire(w)
                BY <1>T, <4>1 DEF Acquire, CellTypeOK, AgentRuns
            <4>2. CASE Reacquire(w)
                BY <1>T, <4>2 DEF Reacquire, CellTypeOK
            <4>3. QED
                BY <2>1, <4>1, <4>2
        <3>2. agent' \in AgentRuns
            BY <1>T, <2>1 DEF Acquire, Reacquire, CellTypeOK, AgentRuns
        <3>3. at' = [at EXCEPT ![w].permit = lease'.epoch]
            BY <2>1 DEF Acquire, Reacquire
        <3>4. at' \in [Workers -> Runners]
            BY <1>T, <3>1, <3>3 DEF CellTypeOK, Runners
        <3>5. QED
            BY <1>T, <2>1, <3>1, <3>2, <3>4 DEF Acquire, Reacquire, CellTypeOK
    <2>2. CASE Activate(w) \/ RehydrateRefused(w)
        <3>1. at' \in [Workers -> Runners]
            BY <1>T, <2>2, RunnerTypes DEF Activate, RehydrateRefused, Places
        <3>2. QED
            BY <1>T, <2>2, <3>1 DEF Activate, RehydrateRefused, CellTypeOK
    <2>3. CASE Rehydrate(w)
        <3>1. at' \in [Workers -> Runners] /\ cell' \in Cells
            BY <1>T, <1>S, <2>3, RunnerTypes DEF Rehydrate, Status, Places
        <3>2. QED
            BY <1>T, <2>3, <3>1 DEF Rehydrate, CellTypeOK
    <2>4. QED
        BY <1>1, <2>1, <2>2, <2>3 DEF Owning, Starting
<1>2. ASSUME NEW w \in Workers, Asking(w) PROVE CellTypeOK'
    <2>1. CASE Exhausted(w) \/ Build(w) \/ Reuse(w)
        <3>1. at' \in [Workers -> Runners]
            BY <1>T, <2>1, RunnerTypes DEF Exhausted, Build, Reuse, Places
        <3>2. cached' \subseteq Steps
            <4>1. CASE Build(w)
                <5>1. NextStep \in Steps
                    BY <1>T, <4>1, AttemptTypes DEF Build, NextStep, Steps
                <5>2. QED
                    BY <1>T, <4>1, <5>1 DEF Build, CellTypeOK
            <4>2. CASE Exhausted(w) \/ Reuse(w)
                BY <1>T, <4>2 DEF Exhausted, Reuse, CellTypeOK
            <4>3. QED
                BY <2>1, <4>1, <4>2
        <3>3. QED
            BY <1>T, <2>1, <3>1, <3>2 DEF Exhausted, Build, Reuse, CellTypeOK
    <2>2. CASE MarkPending(w)
        <3>1. at' \in [Workers -> Runners] /\ cell' \in Cells
            BY <1>T, <1>S, <2>2, RunnerTypes DEF MarkPending, Places, WellPlaced, In
        <3>2. QED
            BY <1>T, <2>2, <3>1 DEF MarkPending, CellTypeOK
    <2>3. CASE Begin(w)
        <3>1. at[w].permit \in 1..MaxEpoch
            BY <1>P, <2>3 DEF Begin
        <3>2. model' \in Seq(Attempts) /\ Len(model') <= MaxSteps /\ NextStep \in 0..MaxSteps
            <4>1. model' = Append(model, [epoch |-> at[w].permit, end |-> None])
                BY <2>3 DEF Begin
            <4>2. model \in Seq(Attempts)
                BY <1>T DEF CellTypeOK
            <4>3. model' \in Seq(Attempts) /\ Len(model') = Len(model) + 1
                BY ONLY <3>1, <4>1, <4>2, BegunAttempt, Zenon
            <4>4. Len(model) \in Nat /\ MaxSteps \in Nat /\ Len(model) < MaxSteps
                BY <1>T, <2>3, AttemptTypes, CellAssumption DEF Begin, NextStep
            <4>5. Len(model') <= MaxSteps /\ NextStep \in 0..MaxSteps
                <5>1. \A k, l, max \in Nat : k = l + 1 /\ l < max => k <= max /\ l + 1 \in 0..max
                    OBVIOUS
                <5>2. Len(model') \in Nat
                    BY ONLY <4>3, <4>4
                <5>3. QED
                    BY ONLY <4>3, <4>4, <5>1, <5>2 DEF NextStep
            <4>6. QED
                BY ONLY <4>3, <4>5
        <3>3. cell' \in Cells
            BY <1>S, <2>3 DEF Begin, Status
        <3>4. at' \in [Workers -> Runners]
            <4>1. at[w] \in Runners /\ at \in [Workers -> Runners] /\ NextStep \in 0..MaxSteps
                BY <1>T, <3>2 DEF CellTypeOK
            <4>2. [at[w] EXCEPT !.place = "asking", !.step = NextStep] \in Runners
                BY ONLY <4>1 DEF Runners, Places
            <4>3. at' = [at EXCEPT ![w] = [at[w] EXCEPT !.place = "asking", !.step = NextStep]]
                BY <2>3, <4>1 DEF Begin
            <4>4. QED
                BY ONLY <4>1, <4>2, <4>3
        <3>5. QED
            BY <1>T, <2>3, <3>2, <3>3, <3>4 DEF Begin, CellTypeOK
    <2>4. ASSUME NEW end \in {"failed", "unknown"} \cup Decisions, Unanswered(w),
                 model' = [model EXCEPT ![at[w].step].end = end]
          PROVE  model' \in Seq(Attempts) /\ Len(model') = Len(model)
        <3>1. at[w].step \in DOMAIN model /\ model \in Seq(Attempts)
            BY <1>T, <2>4 DEF CellTypeOK, Unanswered, WellPlaced, In
        <3>2. end \in {None, "failed", "unknown"} \cup Decisions
            OBVIOUS
        <3>3. model' = Closed(model, at[w].step, end)
            BY <2>4 DEF Closed
        <3>4. QED
            BY ONLY <3>1, <3>2, <3>3, EndedAttempt, SMTT(20)
    <2>5. ASSUME NEW decision \in Decisions, Succeed(w, decision) PROVE CellTypeOK'
        <3>1. cell' \in Cells /\ at' \in [Workers -> Runners]
            BY <1>T, <1>S, <2>5, RunnerTypes
               DEF Succeed, Unanswered, WellPlaced, In, Places, Decisions
        <3>2. model' \in Seq(Attempts) /\ Len(model') = Len(model)
            BY <2>4, <2>5 DEF Succeed
        <3>3. QED
            BY <1>T, <2>5, <3>1, <3>2 DEF Succeed, CellTypeOK
    <2>6. ASSUME NEW f \in Failures \cup {Rejected}, Fail(w, f) PROVE CellTypeOK'
        <3>1. cell' \in Cells /\ at' \in [Workers -> Runners]
            BY <1>T, <1>S, <2>6, RunnerTypes DEF Fail, Unanswered, WellPlaced, In, Places
        <3>2. model' \in Seq(Attempts) /\ Len(model') = Len(model)
            BY <2>4, <2>6 DEF Fail
        <3>3. QED
            BY <1>T, <2>6, <3>1, <3>2 DEF Fail, CellTypeOK
    <2>7. CASE Checkpoint(w)
        <3>1. cell' \in Cells /\ at' \in [Workers -> Runners]
            BY <1>T, <1>S, <2>7, RunnerTypes DEF Checkpoint, Cut, MayCheckpoint, Status, Places
        <3>2. mark' \in [epoch : 1..MaxEpoch, snapshot : Snapshots]
            BY <1>T, <2>7 DEF Checkpoint, Cut, CellTypeOK, AgentRuns, Snapshot, Snapshots
        <3>3. QED
            BY <1>T, <2>7, <3>1, <3>2 DEF Checkpoint, CellTypeOK
    <2>8. CASE Intend(w)
        <3>1. cell' \in Cells /\ at' \in [Workers -> Runners]
            BY <1>T, <1>S, <2>8, RunnerTypes DEF Intend, Status, Places
        <3>2. at[w].step \in Steps /\ at[w].permit \in 1..MaxEpoch
            BY <1>T, <1>P, <2>8, AttemptTypes DEF Intend, WellPlaced, In
        <3>3. intent' \in Captures
            BY <2>8, <3>2 DEF Intend, Captures, Candidates
        <3>4. QED
            BY <1>T, <2>8, <3>1, <3>3 DEF Intend, CellTypeOK
    <2>9. QED
        BY <1>2, <2>1, <2>2, <2>3, <2>5, <2>6, <2>7, <2>8 DEF Asking
<1>3. ASSUME NEW w \in Workers, Using(w) PROVE CellTypeOK'
    <2>1. /\ cell' \in Cells
          /\ \E place \in Places : Go(w, place)
          /\ UNCHANGED <<agent, lease, model, cached, mark, intent, vault>>
        <3>1. CASE Execute(w)
            BY <1>T, <3>1 DEF Execute, WellPlaced, In, Places, CellTypeOK
        <3>2. CASE Deny(w) \/ Admit(w) \/ Claim(w) \/ FinishTool(w)
            BY <1>T, <1>S, <3>2 DEF Deny, Admit, Claim, FinishTool, WellPlaced, In, Places
        <3>3. QED
            BY <1>3, <3>1, <3>2 DEF Using
    <2>2. tools' \in [Steps -> ToolRecords \cup {None}]
        <3>1. CASE UNCHANGED tools
            BY <1>T, <3>1 DEF CellTypeOK
        <3>2. ASSUME NEW state \in ToolStates, NEW epoch \in {at[w].permit, None},
                     SetTool(w, state, epoch)
              PROVE  tools' \in [Steps -> ToolRecords \cup {None}]
            <4>1. [state |-> state, epoch |-> epoch] \in ToolRecords
                BY <1>T, <3>2 DEF CellTypeOK, Runners, ToolRecords
            <4>2. QED
                BY <1>T, <3>2, <4>1 DEF SetTool, CellTypeOK
        <3>3. QED
            BY <1>3, <3>1, <3>2 DEF Using, Deny, Admit, Claim, Execute, FinishTool, ToolStates
    <2>3. at' \in [Workers -> Runners]
        BY <1>T, <2>1, RunnerTypes
    <2>4. QED
        BY <1>T, <2>1, <2>2, <2>3 DEF CellTypeOK
<1>4. ASSUME NEW w \in Workers, Finishing(w) PROVE CellTypeOK'
    <2>1. at' \in [Workers -> Runners]
        BY <1>T, <1>4, RunnerTypes
           DEF Finishing, Recover, Capture, Prepare, SkipPrepare, CompleteAgent, Finalize,
               AlreadyFinal, Places
    <2>2. CASE Recover(w) \/ SkipPrepare(w) \/ AlreadyFinal(w)
        BY <1>T, <2>1, <2>2 DEF Recover, SkipPrepare, AlreadyFinal, CellTypeOK
    <2>3. CASE Capture(w) \/ CompleteAgent(w)
        <3>1. intent \in Captures /\ TheCapture = intent
            BY <1>T, <2>3 DEF Capture, CompleteAgent, WellPlaced, In, CellTypeOK, Captures, TheCapture
        <3>2. agent' \in AgentRuns
            BY <1>T, <2>3, <3>1 DEF Capture, CompleteAgent, CellTypeOK, AgentRuns
        <3>3. vault' \subseteq Captures
            BY <1>T, <2>3, <3>1 DEF Capture, CompleteAgent, CellTypeOK
        <3>4. QED
            BY <1>T, <2>1, <2>3, <3>2, <3>3 DEF Capture, CompleteAgent, CellTypeOK
    <2>4. CASE Prepare(w) \/ Finalize(w)
        <3>1. cell' \in Cells
            BY <1>S, <2>4 DEF Prepare, Finalize, FinalizeCell, Status
        <3>2. QED
            BY <1>T, <2>1, <2>4, <3>1 DEF Prepare, Finalize, FinalizeCell, CellTypeOK
    <2>5. QED
        BY <1>4, <2>2, <2>3, <2>4 DEF Finishing
<1>5. ASSUME NEW w \in Workers, Release(w) \/ Crash(w) \/ Raise(w) PROVE CellTypeOK'
    <2>1. at' \in [Workers -> Runners]
        BY <1>T, <1>5, RunnerTypes DEF Release, Crash, Raise, Places
    <2>2. QED
        BY <1>T, <1>5, <2>1 DEF Release, Crash, Raise, CellTypeOK
<1>6. ASSUME NEW w \in Workers, Rebind(w) \/ Attach(w) PROVE CellTypeOK'
    BY <1>T, <1>6 DEF Rebind, Attach, CellTypeOK, AgentRuns, Cells, Statuses
<1>7. CASE Expire \/ ClearCache \/ RecoverTerminal
    BY <1>T, <1>S, <1>7 DEF Expire, ClearCache, RecoverTerminal, FinalizeCell, CellTypeOK, Status
<1>8. CASE UNCHANGED vars
    BY <1>T, <1>8 DEF vars, CellTypeOK
<1>9. QED
    BY <1>1, <1>2, <1>3, <1>4, <1>5, <1>6, <1>7, <1>8 DEF Next

(***************************************************************************)
(* The tables.                                                             *)
(***************************************************************************)

\* Nothing is open: every attempt has its end, every tool is denied or done.
LEMMA NothingPending ==
    ASSUME CellTypeOK, ~Pending
    PROVE  /\ \A i \in DOMAIN model : model[i].end # None
           /\ \A i \in Steps : tools[i] # None => tools[i].state \in {"denied", "done"}
<1>1. \A i \in DOMAIN model : model[i].end # None
    BY DEF Pending, OpenCalls
<1>2. ASSUME NEW i \in Steps, tools[i] # None PROVE tools[i].state \in {"denied", "done"}
    BY <1>2 DEF Pending, OpenTools, CellTypeOK, ToolRecords, ToolStates
<1>3. QED
    BY <1>1, <1>2

\* What an event leaves the status of the cell.
LEMMA StatusAfter ==
    ASSUME CellTypeOK, cell # None, NEW event, Record(event)
    PROVE  /\ cell' # None /\ cell'.status = After(cell.status, event)
           /\ cell'.pinned = cell.pinned /\ cell.status \in Statuses
<1>1. cell \in Cells
    BY DEF CellTypeOK
<1>2. cell' = [cell EXCEPT !.status = After(cell.status, event)]
    BY DEF Record
<1>3. After(cell.status, event) \in Statuses
    BY <1>1 DEF After, Cells, Statuses
<1>4. cell' \in Cells
    BY <1>1, <1>2, <1>3 DEF Cells
<1>5. QED
    BY <1>1, <1>2, <1>4, NoneAssumption DEF Cells

\* An unanswered attempt is the last one, and of the epoch that is on.
LEMMA UnansweredIsLast ==
    ASSUME CellInv, NEW w \in Workers, Unanswered(w)
    PROVE  /\ at[w].step = Len(model) /\ Len(model) \in DOMAIN model
           /\ model[Len(model)].end = None
           /\ model[Len(model)].epoch = agent.epoch
           /\ Status({"running"}) /\ intent = None
<1>1. WellPlaced(w) /\ Owned(w)
    BY DEF CellInv
<1>2. /\ at[w].step = Len(model) /\ Len(model) \in DOMAIN model /\ Status({"running"})
      /\ model[Len(model)].epoch = agent.epoch
    BY <1>1 DEF Unanswered, WellPlaced, Owned, In, Permitted
<1>3. model[Len(model)].end = None
    BY <1>2 DEF Unanswered
<1>4. intent = None
    BY <1>3, NoneAssumption DEF CellInv, Tables, OneCandidate, Decisions
<1>5. QED
    BY <1>2, <1>3, <1>4

\* A new epoch and a new binding leave what is on record in the past.
LEMMA TablesAgent ==
    ASSUME CellInv, CellTypeOK', UNCHANGED <<cell, model, tools, mark, intent, vault>>,
           agent'.state = agent.state, agent'.evidence = agent.evidence,
           agent'.epoch >= agent.epoch
    PROVE  Tables'
<1>1. /\ UnknownStops' /\ CheckpointedIsQuiet' /\ PastClosed' /\ IntentFirst'
      /\ NoBlindRetry' /\ CheckpointCuts'
    BY DEF CellInv, Tables, UnknownStops, CheckpointedIsQuiet, PastClosed, IntentFirst,
           NoBlindRetry, CheckpointCuts, Status, Pending, OpenCalls, OpenTools
<1>2. OneCandidate'
    BY DEF CellInv, Tables, OneCandidate, Status, TheCapture
<1>3. EpochsGrow'
    <2>1. /\ agent.epoch \in Int /\ agent'.epoch \in Int
          /\ \A i \in DOMAIN model : model[i].epoch \in Int
          /\ mark # None => mark.epoch \in Int
        BY AttemptTypes DEF CellInv, CellTypeOK, AgentRuns, Attempts
    <2>2. QED
        BY <2>1 DEF CellInv, Tables, EpochsGrow, Status
<1>4. QED
    BY <1>1, <1>2, <1>3 DEF Tables

\* begin_model_attempt: nothing is open and the past is of earlier epochs.
LEMMA TablesBegin ==
    ASSUME CellInv, CellTypeOK', NEW w \in Workers, Begin(w)
    PROVE  Tables'
<1> DEFINE N == Len(model)
<1>1. /\ CellTypeOK /\ Tables /\ Owned(w) /\ WellPlaced(w)
      /\ agent' = agent /\ tools' = tools /\ mark' = mark /\ intent' = intent /\ vault' = vault
    BY DEF CellInv, Begin
<1>2. /\ N \in Nat /\ DOMAIN model = 1..N /\ DOMAIN model \subseteq Steps
      /\ \A i \in DOMAIN model : model[i] \in Attempts
    BY <1>1, AttemptTypes
<1>3. /\ at[w].permit \in 1..MaxEpoch /\ at[w].permit = agent.epoch /\ agent.epoch \in Int
      /\ intent = None
    BY <1>1 DEF Begin, Permitted, Holds, CellTypeOK, Runners, Owned, In, AgentRuns
<1>4. /\ Len(model') = N + 1 /\ DOMAIN model' = DOMAIN model \cup {N + 1}
      /\ model'[N + 1] = [epoch |-> agent.epoch, end |-> None]
      /\ \A j \in DOMAIN model : model'[j] = model[j]
    BY <1>1, <1>3, BegunAttempt DEF Begin, CellTypeOK
<1>5. /\ \A i \in DOMAIN model : model[i].end # None
      /\ \A i \in Steps : tools[i] # None => tools[i].state \in {"denied", "done"}
    BY <1>1, NothingPending DEF Begin
<1>6. /\ cell # None /\ cell.status \in {"ready", "running"}
      /\ cell' # None /\ cell'.status = "running"
    BY <1>1, StatusAfter DEF Begin, Status, After
<1>7. \A i \in DOMAIN model : model[i].end # "unknown"
    BY <1>1, <1>6 DEF Tables, UnknownStops, Status
<1> HIDE DEF N
<1>8. UnknownStops'
    BY <1>4, <1>7, NoneAssumption DEF UnknownStops
<1>9. CheckpointedIsQuiet' /\ IntentFirst' /\ PastClosed'
    BY <1>1, <1>6, <1>3 DEF CheckpointedIsQuiet, IntentFirst, PastClosed, Status, Tables
<1>10. EpochsGrow'
    BY <1>1, <1>3, <1>4, <1>6 DEF EpochsGrow, Status, Tables
<1>11. NoBlindRetry'
    BY <1>1, <1>2, <1>4, <1>5, <1>7 DEF NoBlindRetry
<1>12. CheckpointCuts'
    <2> SUFFICES ASSUME mark # None
                 PROVE  LET past == DOMAIN mark.snapshot.model IN
                    /\ \A i \in past : i <= Len(model') /\ model'[i] = mark.snapshot.model[i]
                                       /\ tools[i] = mark.snapshot.tools[i]
                    /\ \A i \in DOMAIN model' \ past : model'[i].epoch > mark.epoch
        BY <1>1 DEF CheckpointCuts
    <2>1. DOMAIN mark.snapshot.model = 1..Len(mark.snapshot.model)
        BY <1>1, LenProperties DEF CellTypeOK, Snapshots
    <2>2. mark.epoch < agent.epoch
        BY <1>1, <1>6 DEF Tables, EpochsGrow, Status
    <2>3. mark.epoch \in Int
        BY <1>1 DEF CellTypeOK
    <2>4. QED
        BY <1>1, <1>2, <1>3, <1>4, <2>1, <2>2, <2>3 DEF Tables, CheckpointCuts
<1>13. OneCandidate'
    BY <1>1, <1>3, <1>6 DEF OneCandidate, Tables, Status, Begin, Permitted
<1>14. QED
    BY <1>8, <1>9, <1>10, <1>11, <1>12, <1>13 DEF Tables

\* finish_model_success and finish_model_failure end the last attempt, of this epoch.
LEMMA TablesEnded ==
    ASSUME CellInv, CellTypeOK', NEW w \in Workers, Unanswered(w),
           NEW end \in {"failed", "unknown"} \cup Decisions,
           model' = Closed(model, at[w].step, end),
           NEW event \in {"model_completed", "model_failed", "pending"}, Record(event),
           end = "unknown" => event = "pending",
           UNCHANGED <<agent, tools, mark, intent, vault>>
    PROVE  Tables'
<1> DEFINE N == Len(model)
<1>1. CellTypeOK /\ Tables
    BY DEF CellInv
<1>2. /\ N \in Nat /\ DOMAIN model = 1..N /\ DOMAIN model \subseteq Steps
      /\ \A i \in DOMAIN model : model[i] \in Attempts
    BY <1>1, AttemptTypes
<1>3. /\ at[w].step = N /\ N \in DOMAIN model /\ model[N].end = None
      /\ model[N].epoch = agent.epoch /\ Status({"running"}) /\ intent = None
      /\ agent.epoch \in Int /\ agent.state = "active"
    BY <1>1, UnansweredIsLast DEF CellTypeOK, AgentRuns, Unanswered, Permitted
<1>4. /\ Len(model') = N /\ DOMAIN model' = DOMAIN model
      /\ model'[N].end = end /\ model'[N].epoch = agent.epoch
      /\ \A j \in DOMAIN model : j # N => model'[j] = model[j]
    <2>1. model' = Closed(model, N, end)
        BY <1>3
    <2>2. end \in {None, "failed", "unknown"} \cup Decisions /\ model \in Seq(Attempts)
        BY <1>1 DEF CellTypeOK
    <2>3. QED
        BY ONLY <1>3, <2>1, <2>2, EndedAttempt
<1>5. /\ cell' # None
      /\ cell'.status = CASE event = "pending" -> "reconciliation_required"
                         [] event = "model_failed" -> "blocked"
                         [] OTHER -> "running"
    BY <1>1, <1>3, StatusAfter DEF Status, After
<1> HIDE DEF N
<1>6. UnknownStops'
    BY <1>1, <1>3, <1>4, <1>5 DEF UnknownStops, Tables, Status
<1>7. CheckpointedIsQuiet' /\ IntentFirst' /\ PastClosed'
    BY <1>1, <1>5, <1>3 DEF CheckpointedIsQuiet, IntentFirst, PastClosed, Status, Tables
<1>8. EpochsGrow'
    BY <1>1, <1>3, <1>4, <1>5 DEF EpochsGrow, Status, Tables
<1>9. NoBlindRetry'
    BY <1>1, <1>2, <1>3, <1>4 DEF NoBlindRetry, Tables
<1>10. CheckpointCuts'
    <2>1. mark # None => N \notin DOMAIN mark.snapshot.model
        BY <1>1, <1>3 DEF Tables, CheckpointCuts, PastClosed
    <2>2. mark # None => DOMAIN mark.snapshot.model = 1..Len(mark.snapshot.model)
        BY <1>1, LenProperties DEF CellTypeOK, Snapshots
    <2>3. \A j \in DOMAIN model : model'[j].epoch = model[j].epoch
        BY <1>3, <1>4
    <2>4. QED
        BY <1>1, <1>2, <1>3, <1>4, <2>1, <2>2, <2>3 DEF Tables, CheckpointCuts
<1>11. OneCandidate'
    BY <1>1, <1>3, <1>5 DEF OneCandidate, Tables, Status
<1>12. QED
    BY <1>6, <1>7, <1>8, <1>9, <1>10, <1>11 DEF Tables

\* The tool of the step that is on: a denial is of the last attempt, which no
\* checkpoint holds; a claim and a result are of a tool that was still open.
LEMMA TablesUsing ==
    ASSUME CellInv, CellTypeOK', NEW w \in Workers, Using(w)
    PROVE  Tables'
<1> DEFINE N == Len(model)
           k == at[w].step
<1>1. CellTypeOK /\ Tables /\ WellPlaced(w) /\ Owned(w)
    BY DEF CellInv
<1>2. /\ N \in Nat /\ DOMAIN model = 1..N /\ DOMAIN model \subseteq Steps
    BY <1>1, AttemptTypes
<1>3. /\ UNCHANGED <<agent, model, mark, intent, vault>>
      /\ Permitted(w) /\ agent.state = "active" /\ cell # None
      /\ cell' # None /\ cell'.status = cell.status
    <2>1. CASE Execute(w)
        BY <1>1, <2>1 DEF Execute, Rechecked, Permitted, WellPlaced, In
    <2>2. CASE Deny(w) \/ Admit(w) \/ Claim(w) \/ FinishTool(w)
        BY <1>1, <2>2, StatusAfter
           DEF Deny, Admit, Claim, FinishTool, WellPlaced, In, Permitted, After
    <2>3. QED
        BY <2>1, <2>2 DEF Using
<1>4. k \in DOMAIN model
    BY <1>1 DEF Using, Deny, Admit, Claim, Execute, FinishTool, WellPlaced, In
<1>5. CASE UNCHANGED tools
    BY <1>1, <1>3, <1>5
       DEF Tables, UnknownStops, CheckpointedIsQuiet, PastClosed, EpochsGrow, IntentFirst,
           NoBlindRetry, CheckpointCuts, OneCandidate, Status, Pending, OpenCalls, OpenTools,
           TheCapture
<1>6. ASSUME NEW state \in ToolStates, NEW epoch, SetTool(w, state, epoch),
             \/ k = N /\ (mark # None => N \notin DOMAIN mark.snapshot.model)
                /\ (state = "admitted" => ~Status({"checkpointed"}))
             \/ tools[k] # None /\ tools[k].state \in {"admitted", "claimed"}
                /\ (state = "claimed" => ~Status({"checkpointed"})),
             state \in {"admitted", "claimed"} => ~Status({"checkpointed"})
      PROVE  Tables'
    <2>1. /\ k \in Steps
          /\ tools'[k] = [state |-> state, epoch |-> epoch]
          /\ \A i \in Steps : i # k => tools'[i] = tools[i]
        BY <1>1, <1>2, <1>4, <1>6 DEF SetTool, CellTypeOK
    <2>2. UnknownStops' /\ PastClosed' /\ EpochsGrow' /\ IntentFirst' /\ OneCandidate'
        BY <1>1, <1>3
           DEF Tables, UnknownStops, PastClosed, EpochsGrow, IntentFirst, OneCandidate, Status,
               TheCapture
    <2>3. CheckpointedIsQuiet'
        <3> SUFFICES ASSUME Status({"checkpointed"}) PROVE ~Pending'
            BY <1>3 DEF CheckpointedIsQuiet, Status
        <3>1. /\ \A i \in DOMAIN model : model[i].end # None
              /\ \A i \in Steps : tools[i] # None => tools[i].state \in {"denied", "done"}
            BY <1>1, NothingPending DEF Tables, CheckpointedIsQuiet
        <3>2. state \in {"denied", "done"}
            BY <1>6 DEF ToolStates
        <3>3. QED
            BY <1>3, <2>1, <3>1, <3>2 DEF Pending, OpenCalls, OpenTools
    <2>4. k = N
        BY <1>1, <1>2, <1>4, <1>6 DEF Tables, NoBlindRetry
    <2>5. NoBlindRetry'
        BY <1>1, <1>2, <1>3, <2>1, <2>4 DEF Tables, NoBlindRetry
    <2>6. mark # None => k \notin DOMAIN mark.snapshot.model
        <3>1. CASE tools[k] # None /\ tools[k].state \in {"admitted", "claimed"}
            BY <1>1, <2>1, <3>1 DEF Tables, CheckpointCuts, PastClosed
        <3>2. QED
            BY <1>6, <2>4, <3>1
    <2>7. CheckpointCuts'
        <3>1. mark # None => \A i \in DOMAIN mark.snapshot.model : i \in Steps
            <4>1. mark # None => DOMAIN mark.snapshot.model = 1..Len(mark.snapshot.model)
                BY <1>1, LenProperties DEF CellTypeOK, Snapshots
            <4>2. N <= MaxSteps
                BY <1>1 DEF CellTypeOK
            <4>3. QED
                BY <1>1, <1>2, <4>1, <4>2, CellAssumption DEF Tables, CheckpointCuts, Steps
        <3>2. QED
            BY <1>1, <1>3, <2>1, <2>6, <3>1 DEF Tables, CheckpointCuts
    <2>8. QED
        BY <2>2, <2>3, <2>5, <2>7 DEF Tables
<1>7. In(w, "tool") => /\ k = N /\ Status({"running"})
                       /\ mark # None => N \notin DOMAIN mark.snapshot.model
    <2> SUFFICES ASSUME In(w, "tool")
                 PROVE  /\ k = N /\ Status({"running"})
                        /\ mark # None => N \notin DOMAIN mark.snapshot.model
        OBVIOUS
    <2>1. k = N /\ Status({"running"}) /\ model[N].epoch = agent.epoch
        BY <1>1, <1>3 DEF Owned, In, Permitted
    <2>2. mark # None => mark.epoch < agent.epoch
        BY <1>1, <2>1 DEF Tables, EpochsGrow, Status
    <2>3. /\ agent.epoch \in Int
          /\ mark # None => mark.epoch \in Int
        BY <1>1 DEF CellTypeOK, AgentRuns
    <2>4. ASSUME mark # None, N \in DOMAIN mark.snapshot.model PROVE FALSE
        <3>1. model[N] = mark.snapshot.model[N]
            BY <1>1, <2>4 DEF Tables, CheckpointCuts
        <3>2. mark.snapshot.model[N].epoch <= mark.epoch
            BY <1>1, <2>4 DEF Tables, PastClosed
        <3>3. agent.epoch <= mark.epoch
            BY <2>1, <3>1, <3>2
        <3>4. QED
            BY <2>2, <2>3, <2>4, <3>3
    <2>5. QED
        BY <2>1, <2>4
<1>8. CASE Deny(w) \/ Admit(w)
    BY <1>6, <1>7, <1>8 DEF Deny, Admit, ToolStates, Status
<1>9. CASE Claim(w)
    <2>1. tools[k] # None
        BY <1>1, <1>9 DEF Claim, WellPlaced, In
    <2>2. QED
        BY <1>6, <1>9, <2>1 DEF Claim, ToolStates, Status
<1>10. CASE FinishTool(w)
    <2>1. tools[k] # None /\ tools[k].state = "claimed"
        BY <1>1, <1>10 DEF FinishTool, WellPlaced, In
    <2>2. QED
        BY <1>6, <1>10, <2>1 DEF FinishTool, ToolStates
<1>11. QED
    BY <1>5, <1>8, <1>9, <1>10 DEF Using, Execute

\* The events that change the status alone: each from the statuses it may follow.
LEMMA TablesStatus ==
    ASSUME CellInv, CellTypeOK', UNCHANGED <<agent, model, tools, mark, intent, vault>>,
           cell # None => cell' # None,
           Status({"reconciliation_required"}) => cell'.status = "reconciliation_required",
           cell' # None /\ cell'.status = "checkpointed" => Status({"checkpointed"}),
           Status({"checkpointed"}) /\ mark # None /\ cell'.status # "checkpointed"
               => mark.epoch < agent.epoch,
           Status({"completion_pending", "completed"})
               => cell'.status \in {"completion_pending", "completed"},
           cell' # None /\ cell'.status \in {"completion_pending", "completed"} => intent # None,
           cell' # None /\ cell'.status = "completed" => agent.state = "completed"
    PROVE  Tables'
<1>1. UnknownStops' /\ CheckpointedIsQuiet'
    BY DEF CellInv, Tables, UnknownStops, CheckpointedIsQuiet, Status, Pending, OpenCalls, OpenTools
<1>2. PastClosed' /\ NoBlindRetry' /\ CheckpointCuts'
    BY DEF CellInv, Tables, PastClosed, NoBlindRetry, CheckpointCuts
<1>3. EpochsGrow'
    BY DEF CellInv, Tables, EpochsGrow, Status
<1>4. IntentFirst' /\ OneCandidate'
    BY DEF CellInv, Tables, IntentFirst, OneCandidate, Status, TheCapture
<1>5. QED
    BY <1>1, <1>2, <1>3, <1>4 DEF Tables

\* create_checkpoint: the cut is all there is, closed.
LEMMA TablesCheckpoint ==
    ASSUME CellInv, CellTypeOK', NEW w \in Workers, Checkpoint(w)
    PROVE  Tables'
<1>1. /\ CellTypeOK /\ Tables
      /\ UNCHANGED <<agent, model, tools, intent, vault>>
      /\ mark' = [epoch |-> agent.epoch, snapshot |-> Snapshot] /\ ~Pending
    BY DEF CellInv, Checkpoint, Cut, MayCheckpoint
<1>2. /\ cell # None /\ cell.status \in {"ready", "running", "blocked"}
      /\ cell' # None /\ cell'.status = "checkpointed"
    BY <1>1, StatusAfter DEF Checkpoint, Cut, MayCheckpoint, Status, After
<1>3. /\ \A i \in DOMAIN model : model[i].end # None
      /\ \A i \in Steps : tools[i] # None => tools[i].state \in {"denied", "done"}
    BY <1>1, NothingPending
<1>4. UnknownStops' /\ CheckpointedIsQuiet' /\ IntentFirst' /\ NoBlindRetry' /\ OneCandidate'
    BY <1>1, <1>2
       DEF Tables, UnknownStops, CheckpointedIsQuiet, IntentFirst, NoBlindRetry, OneCandidate,
           Status, Pending, OpenCalls, OpenTools, TheCapture
<1>5. PastClosed' /\ EpochsGrow'
    BY <1>1, <1>2, <1>3 DEF Tables, PastClosed, EpochsGrow, Status, Snapshot, CellTypeOK, AgentRuns
<1>6. CheckpointCuts'
    <2>1. Len(model) \in Nat /\ DOMAIN model = 1..Len(model)
        BY <1>1, AttemptTypes
    <2>2. QED
        BY <1>1, <2>1 DEF CheckpointCuts, Snapshot
<1>7. QED
    BY <1>4, <1>5, <1>6 DEF Tables

\* create_completion_intent: of the last attempt, before anything is captured.
LEMMA TablesIntend ==
    ASSUME CellInv, CellTypeOK', NEW w \in Workers, Intend(w)
    PROVE  Tables'
<1>1. /\ CellTypeOK /\ Tables /\ Owned(w)
      /\ UNCHANGED <<agent, model, tools, mark, vault>>
      /\ intent = None /\ intent' = [run |-> <<at[w].step, at[w].permit>>, answer |-> at[w].step]
      /\ agent.state = "active"
    BY DEF CellInv, Intend, Permitted
<1>2. /\ cell # None /\ cell.status = "running" /\ cell' # None /\ cell'.status = "running"
    BY <1>1, StatusAfter DEF Intend, Status, After
<1>3. at[w].step = Len(model) /\ model[Len(model)].end = "final"
    BY <1>1 DEF Intend, Owned, In
<1>4. /\ UnknownStops' /\ CheckpointedIsQuiet' /\ NoBlindRetry' /\ PastClosed' /\ EpochsGrow'
      /\ CheckpointCuts'
    BY <1>1, <1>2
       DEF Tables, UnknownStops, CheckpointedIsQuiet, NoBlindRetry, PastClosed, EpochsGrow,
           CheckpointCuts, Status
<1>5. IntentFirst'
    BY <1>1, <1>2 DEF Tables, IntentFirst, Status
<1>6. vault = {}
    BY <1>1 DEF Tables, IntentFirst
<1>7. OneCandidate'
    BY <1>1, <1>2, <1>3, <1>6 DEF Tables, OneCandidate, Status
<1>8. QED
    BY <1>4, <1>5, <1>7 DEF Tables

\* The capture is of the intent, and the AgentRun completes with it.
LEMMA TablesCaptured ==
    ASSUME CellInv, CellTypeOK', NEW w \in Workers, Capture(w) \/ CompleteAgent(w)
    PROVE  Tables'
<1>1. /\ Tables /\ WellPlaced(w) /\ intent # None
      /\ UNCHANGED <<cell, model, tools, mark, intent>>
    BY DEF CellInv, Capture, CompleteAgent, WellPlaced, In
<1>2. /\ UnknownStops' /\ CheckpointedIsQuiet' /\ NoBlindRetry' /\ PastClosed' /\ IntentFirst'
      /\ CheckpointCuts'
    BY <1>1
       DEF Tables, UnknownStops, CheckpointedIsQuiet, NoBlindRetry, PastClosed, IntentFirst,
           CheckpointCuts, Status, Pending, OpenCalls, OpenTools
<1>3. EpochsGrow'
    <2>1. agent'.epoch = agent.epoch
        BY DEF CellInv, CellTypeOK, AgentRuns, Capture, CompleteAgent
    <2>2. QED
        BY <1>1, <2>1 DEF Tables, EpochsGrow, Status
<1>4. CASE Capture(w)
    <2>1. OneCandidate'
        BY <1>1, <1>4 DEF Tables, OneCandidate, Capture, Status, TheCapture
    <2>2. QED
        BY <1>2, <1>3, <2>1 DEF Tables
<1>5. CASE CompleteAgent(w)
    <2>1. /\ agent'.state = "completed" /\ agent'.evidence = TheCapture /\ vault' = vault
        BY <1>5 DEF CompleteAgent, CellInv, CellTypeOK, AgentRuns
    <2>2. TheCapture \in vault /\ Status({"completion_pending", "completed"})
        BY <1>1, <1>5 DEF CompleteAgent, WellPlaced, In
    <2>3. OneCandidate'
        BY <1>1, <2>1, <2>2 DEF Tables, OneCandidate, Status, TheCapture
    <2>4. QED
        BY <1>2, <1>3, <2>3 DEF Tables
<1>6. QED
    BY <1>4, <1>5

\* Each action keeps what the tables say among themselves.
LEMMA NextTables == CellInv /\ [Next]_vars => Tables'
<1> SUFFICES ASSUME CellInv, [Next]_vars PROVE Tables'
    OBVIOUS
<1>T. CellTypeOK' /\ CellTypeOK /\ Tables /\ \A w \in Workers : WellPlaced(w) /\ Owned(w)
    BY NextType DEF CellInv
<1>0. ASSUME UNCHANGED <<agent, cell, model, tools, mark, intent, vault>> PROVE Tables'
    BY <1>0, <1>T
       DEF Tables, UnknownStops, CheckpointedIsQuiet, PastClosed, EpochsGrow, IntentFirst,
           NoBlindRetry, CheckpointCuts, OneCandidate, Status, Pending, OpenCalls, OpenTools,
           TheCapture
<1>1. ASSUME NEW w \in Workers, Owning(w) \/ Rebind(w) PROVE Tables'
    <2>1. CASE Acquire(w) \/ Rebind(w)
        <3>1. /\ UNCHANGED <<cell, model, tools, mark, intent, vault>>
              /\ agent'.state = agent.state /\ agent'.evidence = agent.evidence
              /\ agent'.epoch >= agent.epoch
            BY <1>T, <2>1 DEF Acquire, Rebind, CellTypeOK, AgentRuns
        <3>2. QED
            BY <1>T, <3>1, TablesAgent
    <2>2. CASE Reacquire(w)
        BY <1>0, <2>2 DEF Reacquire
    <2>3. QED
        BY <1>1, <2>1, <2>2 DEF Owning
<1>2. ASSUME NEW w \in Workers, Starting(w) \/ Attach(w) PROVE Tables'
    <2>1. CASE Activate(w) \/ RehydrateRefused(w)
        BY <1>0, <2>1 DEF Activate, RehydrateRefused
    <2>2. CASE Rehydrate(w)
        <3>1. /\ cell # None /\ cell.status = "checkpointed" /\ cell' # None
              /\ cell'.status = "running" /\ UNCHANGED <<agent, model, tools, mark, intent, vault>>
            BY <1>T, <2>2, StatusAfter DEF Rehydrate, Status, After
        <3>2. mark.epoch < agent.epoch
            BY <2>2 DEF Rehydrate, MayRehydrate, FreshEpoch, Permitted
        <3>3. QED
            BY <1>T, <3>1, <3>2, TablesStatus DEF Status
    <2>3. CASE Attach(w)
        <3>1. /\ cell = None /\ cell' # None /\ cell'.status = "ready"
              /\ UNCHANGED <<agent, model, tools, mark, intent, vault>>
            BY <1>T, <2>3, NoneAssumption DEF Attach, CellTypeOK, AgentRuns, Cells, Statuses
        <3>2. QED
            BY <1>T, <3>1, TablesStatus DEF Status
    <2>4. QED
        BY <1>2, <2>1, <2>2, <2>3 DEF Starting
<1>3. ASSUME NEW w \in Workers, Asking(w) PROVE Tables'
    <2>1. CASE Exhausted(w) \/ Build(w) \/ Reuse(w)
        BY <1>0, <2>1 DEF Exhausted, Build, Reuse
    <2>2. CASE MarkPending(w)
        <3>1. /\ cell # None /\ cell' # None /\ cell'.status = "reconciliation_required"
              /\ UNCHANGED <<agent, model, tools, mark, intent, vault>>
              /\ intent = None /\ Pending
            BY <1>T, <2>2, StatusAfter DEF MarkPending, After, WellPlaced, In
        <3>2. ~Status({"checkpointed"}) /\ ~Status({"completion_pending", "completed"})
            BY <1>T, <3>1 DEF Tables, CheckpointedIsQuiet, IntentFirst
        <3>3. QED
            BY <1>T, <3>1, <3>2, TablesStatus DEF Status
    <2>3. CASE Begin(w)
        BY <1>T, <2>3, TablesBegin
    <2>4. ASSUME NEW decision \in Decisions, Succeed(w, decision) PROVE Tables'
        <3>1. /\ Unanswered(w) /\ Record("model_completed")
              /\ model' = Closed(model, at[w].step, decision)
              /\ UNCHANGED <<agent, tools, mark, intent, vault>>
            BY <2>4 DEF Succeed, Closed
        <3>2. decision # "unknown"
            BY DEF Decisions
        <3>3. QED
            BY <1>T, <3>1, <3>2, TablesEnded
    <2>5. ASSUME NEW f \in Failures \cup {Rejected}, Fail(w, f) PROVE Tables'
        <3>1. PICK end \in {"failed", "unknown"}, event \in {"model_failed", "pending"} :
                /\ end = "unknown" => event = "pending"
                /\ model' = Closed(model, at[w].step, end) /\ Record(event)
            BY <2>5 DEF Fail, Closed
        <3>2. Unanswered(w) /\ UNCHANGED <<agent, tools, mark, intent, vault>>
            BY <2>5 DEF Fail
        <3>3. QED
            BY <1>T, <3>1, <3>2, TablesEnded
    <2>6. CASE Checkpoint(w)
        BY <1>T, <2>6, TablesCheckpoint
    <2>7. CASE Intend(w)
        BY <1>T, <2>7, TablesIntend
    <2>8. QED
        BY <1>3, <2>1, <2>2, <2>3, <2>4, <2>5, <2>6, <2>7 DEF Asking
<1>4. ASSUME NEW w \in Workers, Using(w) PROVE Tables'
    BY <1>T, <1>4, TablesUsing
<1>F. ASSUME FinalizeCell PROVE Tables'
    <2>1. /\ cell # None /\ cell.status = "completion_pending" /\ cell' # None
          /\ cell'.status = "completed" /\ agent.state = "completed"
          /\ UNCHANGED <<agent, model, tools, mark, intent, vault>>
        BY <1>T, <1>F, StatusAfter DEF FinalizeCell, Status, After
    <2>2. intent # None
        BY <1>T, <2>1 DEF Tables, OneCandidate
    <2>3. QED
        BY <1>T, <2>1, <2>2, TablesStatus DEF Status
<1>5. ASSUME NEW w \in Workers, Finishing(w) PROVE Tables'
    <2>1. CASE Recover(w) \/ SkipPrepare(w) \/ AlreadyFinal(w)
        BY <1>0, <2>1 DEF Recover, SkipPrepare, AlreadyFinal
    <2>2. CASE Capture(w) \/ CompleteAgent(w)
        BY <1>T, <2>2, TablesCaptured
    <2>3. CASE Prepare(w)
        <3>1. /\ cell # None /\ cell.status = "running" /\ cell' # None
              /\ cell'.status = "completion_pending" /\ intent # None
              /\ UNCHANGED <<agent, model, tools, mark, intent, vault>>
            BY <1>T, <2>3, StatusAfter DEF Prepare, Status, After, Readable
        <3>2. QED
            BY <1>T, <3>1, TablesStatus DEF Status
    <2>4. CASE Finalize(w)
        BY <1>F, <2>4 DEF Finalize
    <2>5. QED
        BY <1>5, <2>1, <2>2, <2>3, <2>4 DEF Finishing
<1>6. ASSUME NEW w \in Workers, Release(w) \/ Crash(w) \/ Raise(w) PROVE Tables'
    BY <1>0, <1>6 DEF Release, Crash, Raise
<1>7. CASE Expire \/ ClearCache \/ RecoverTerminal
    BY <1>0, <1>F, <1>7 DEF Expire, ClearCache, RecoverTerminal
<1>8. CASE UNCHANGED vars
    BY <1>0, <1>8 DEF vars
<1>9. QED
    BY <1>1, <1>2, <1>3, <1>4, <1>5, <1>6, <1>7, <1>8 DEF Next

(***************************************************************************)
(* The runners.                                                            *)
(***************************************************************************)

\* What has been recorded stays: no table of the cell ever loses what it holds.
Grown ==
    /\ cell # None => cell' # None
    /\ DOMAIN model \subseteq DOMAIN model'
    /\ \A i \in Steps : tools[i] # None => tools'[i] # None
    /\ intent # None => intent' = intent
    /\ vault \subseteq vault'
    /\ Status({"completion_pending", "completed"}) => Status({"completion_pending", "completed"})'

\* A step of the worker w.
StepOf(w) ==
    \/ Owning(w) \/ Starting(w) \/ Asking(w) \/ Using(w) \/ Finishing(w)
    \/ Release(w) \/ Crash(w) \/ Raise(w) \/ Rebind(w) \/ Attach(w)

\* A worker's step changes only what the runner of that worker does next.
LEMMA OwnStep ==
    ASSUME CellInv, NEW w \in Workers, StepOf(w)
    PROVE  \A v \in Workers \ {w} : at'[v] = at[v]
<1>1. at \in [Workers -> Runners]
    BY DEF CellInv, CellTypeOK
<1>2. CASE Owning(w) \/ Starting(w) \/ Release(w) \/ Crash(w) \/ Raise(w) \/ Rebind(w) \/ Attach(w)
    BY <1>1, <1>2
       DEF Owning, Starting, Acquire, Reacquire, Activate, Rehydrate, RehydrateRefused, Release,
           Crash, Raise, Rebind, Attach, Go, Leave
<1>3. CASE Asking(w)
    BY <1>1, <1>3
       DEF Asking, MarkPending, Exhausted, Build, Reuse, Begin, Succeed, Fail, Checkpoint, Intend, Go
<1>4. CASE Using(w)
    BY <1>1, <1>4 DEF Using, Deny, Admit, Claim, Execute, FinishTool, Go
<1>5. CASE Finishing(w)
    BY <1>1, <1>5
       DEF Finishing, Recover, Capture, Prepare, SkipPrepare, CompleteAgent, Finalize, AlreadyFinal,
           Go, Leave
<1>6. QED
    BY <1>2, <1>3, <1>4, <1>5 DEF StepOf

\* Every step leaves the tables grown.
LEMMA NextGrows == CellInv /\ [Next]_vars => Grown
<1> SUFFICES ASSUME CellInv, [Next]_vars PROVE Grown
    OBVIOUS
<1>T. CellTypeOK /\ Tables /\ \A w \in Workers : WellPlaced(w) /\ Owned(w)
    BY DEF CellInv
<1>0. ASSUME UNCHANGED <<cell, model, tools, intent>>, vault \subseteq vault' PROVE Grown
    BY <1>0 DEF Grown, Status
<1>S. ASSUME NEW event, cell # None, Record(event), UNCHANGED <<tools, intent, vault>>,
             DOMAIN model \subseteq DOMAIN model',
             cell.status \in {"completion_pending", "completed"}
                => After(cell.status, event) \in {"completion_pending", "completed"}
      PROVE  Grown
    BY <1>T, <1>S, StatusAfter DEF Grown, Status
<1>N. intent = None => ~Status({"completion_pending", "completed"})
    BY <1>T DEF Tables, IntentFirst
<1>1. ASSUME NEW w \in Workers, Owning(w) \/ Starting(w) \/ Rebind(w) PROVE Grown
    <2>1. CASE Rehydrate(w)
        BY <1>S, <2>1 DEF Rehydrate, Status
    <2>2. CASE ~Rehydrate(w)
        BY <1>0, <1>1, <2>2
           DEF Owning, Starting, Rebind, Acquire, Reacquire, Activate, RehydrateRefused
    <2>3. QED
        BY <2>1, <2>2
<1>2. ASSUME NEW w \in Workers, Asking(w) PROVE Grown
    <2>1. CASE Exhausted(w) \/ Build(w) \/ Reuse(w)
        BY <1>0, <2>1 DEF Exhausted, Build, Reuse
    <2>2. CASE MarkPending(w)
        BY <1>T, <1>S, <1>N, <2>2 DEF MarkPending, Status, WellPlaced, In
    <2>3. CASE Begin(w)
        <3>1. at[w].permit \in 1..MaxEpoch /\ model \in Seq(Attempts)
            BY <1>T, <2>3 DEF Begin, Permitted, Holds, CellTypeOK, Runners
        <3>2. DOMAIN model \subseteq DOMAIN model'
            BY <2>3, <3>1, BegunAttempt DEF Begin
        <3>3. QED
            BY <1>S, <2>3, <3>2 DEF Begin, Status
    <2>4. ASSUME Unanswered(w), UNCHANGED <<tools, intent, vault>>,
                 NEW event, Record(event),
                 NEW end \in {"failed", "unknown"} \cup Decisions,
                 model' = Closed(model, at[w].step, end)
          PROVE  Grown
        <3>1. Status({"running"}) /\ at[w].step \in DOMAIN model /\ model \in Seq(Attempts)
            BY <1>T, <2>4, UnansweredIsLast DEF CellTypeOK
        <3>2. end \in {None, "failed", "unknown"} \cup Decisions
            OBVIOUS
        <3>3. DOMAIN model' = DOMAIN model
            BY ONLY <2>4, <3>1, <3>2, EndedAttempt
        <3>4. QED
            BY <1>S, <2>4, <3>1, <3>3 DEF Status
    <2>5. ASSUME NEW decision \in Decisions, Succeed(w, decision) PROVE Grown
        BY <2>4, <2>5 DEF Succeed, Closed
    <2>6. ASSUME NEW f \in Failures \cup {Rejected}, Fail(w, f) PROVE Grown
        <3>1. CASE Ambiguous(f)
            BY <2>4, <2>6, <3>1 DEF Fail, Closed
        <3>2. CASE ~Ambiguous(f)
            BY <2>4, <2>6, <3>2 DEF Fail, Closed
        <3>3. QED
            BY <3>1, <3>2
    <2>7. CASE Checkpoint(w)
        BY <1>S, <2>7 DEF Checkpoint, Cut, MayCheckpoint, Status
    <2>8. CASE Intend(w)
        <3>1. cell # None /\ cell.status = "running" /\ intent = None
            BY <2>8 DEF Intend, Status
        <3>2. cell' # None
            BY <1>T, <2>8, <3>1, StatusAfter DEF Intend
        <3>3. QED
            BY <2>8, <3>1, <3>2 DEF Grown, Intend, Status
    <2>9. QED
        BY <1>2, <2>1, <2>2, <2>3, <2>5, <2>6, <2>7, <2>8 DEF Asking
<1>3. ASSUME NEW w \in Workers, Using(w) PROVE Grown
    <2>1. UNCHANGED <<model, intent, vault>> /\ (UNCHANGED cell \/ cell # None)
        BY <1>3, <1>T DEF Using, Deny, Admit, Claim, Execute, FinishTool, WellPlaced, In
    <2>2. cell # None => cell' # None /\ cell'.status = cell.status
        BY <1>3, <1>T, StatusAfter DEF Using, Deny, Admit, Claim, Execute, FinishTool, After
    <2>3. \A i \in Steps : tools[i] # None => tools'[i] # None
        <3>1. \/ UNCHANGED tools
              \/ \E state \in ToolStates, epoch \in {at[w].permit, None} : SetTool(w, state, epoch)
            BY <1>3 DEF Using, Deny, Admit, Claim, Execute, FinishTool, ToolStates
        <3>2. ASSUME NEW state \in ToolStates, NEW epoch \in {at[w].permit, None}
              PROVE  [state |-> state, epoch |-> epoch] # None
            BY <1>T, NoneAssumption DEF CellTypeOK, Runners, ToolRecords
        <3>3. QED
            BY <1>T, <3>1, <3>2 DEF SetTool, CellTypeOK
    <2>4. QED
        BY <2>1, <2>2, <2>3 DEF Grown, Status
<1>F. ASSUME FinalizeCell PROVE Grown
    BY <1>S, <1>F DEF FinalizeCell, Status, After
<1>4. ASSUME NEW w \in Workers, Finishing(w) PROVE Grown
    <2>1. CASE Recover(w) \/ SkipPrepare(w) \/ AlreadyFinal(w) \/ Capture(w) \/ CompleteAgent(w)
        BY <1>0, <2>1 DEF Recover, SkipPrepare, AlreadyFinal, Capture, CompleteAgent
    <2>2. CASE Prepare(w)
        BY <1>S, <2>2 DEF Prepare, Status
    <2>3. CASE Finalize(w)
        BY <1>F, <2>3 DEF Finalize
    <2>4. QED
        BY <1>4, <2>1, <2>2, <2>3 DEF Finishing
<1>5. ASSUME NEW w \in Workers, Release(w) \/ Crash(w) \/ Raise(w) PROVE Grown
    BY <1>0, <1>5 DEF Release, Crash, Raise
<1>6. ASSUME NEW w \in Workers, Attach(w) PROVE Grown
    BY <1>6 DEF Attach, Grown, Status
<1>7. CASE Expire \/ ClearCache \/ RecoverTerminal
    BY <1>0, <1>F, <1>7 DEF Expire, ClearCache, RecoverTerminal
<1>8. CASE UNCHANGED vars
    BY <1>0, <1>8 DEF vars
<1>9. QED
    BY <1>1, <1>2, <1>3, <1>4, <1>5, <1>6, <1>7, <1>8 DEF Next

\* Only the holder of the lease is permitted anything.
LEMMA OnePermitted ==
    ASSUME NEW v \in Workers, NEW w \in Workers, Permitted(v), Holds(w) \/ Permitted(w)
    PROVE  v = w
BY DEF Permitted, Holds

\* A runner that stays where it is, or leaves, is still well placed.
LEMMA StaysPlaced ==
    ASSUME CellInv, Grown, NEW w \in Workers,
           \/ at'[w] = at[w]
           \/ at'[w].place \in {"idle", at[w].place} /\ at'[w].step = at[w].step
           \/ at'[w] = Start
    PROVE  WellPlaced(w)'
<1>1. WellPlaced(w) /\ CellTypeOK /\ at[w].place \in Places
    BY DEF CellInv, CellTypeOK, Runners
<1>2. DOMAIN model \subseteq Steps
    BY <1>1, AttemptTypes
<1>3. CASE at'[w] = Start \/ at'[w].place = "idle"
    BY <1>3 DEF WellPlaced, Start
<1>4. CASE at'[w].place = at[w].place /\ at'[w].step = at[w].step
    BY <1>1, <1>2, <1>4 DEF WellPlaced, Grown, TheCapture
<1>5. QED
    BY <1>3, <1>4

\* Each step leaves every runner where the records say it is.
LEMMA NextPlaced == CellInv /\ [Next]_vars => \A w \in Workers : WellPlaced(w)'
<1> SUFFICES ASSUME CellInv, [Next]_vars PROVE \A w \in Workers : WellPlaced(w)'
    OBVIOUS
<1>T. /\ CellTypeOK /\ CellTypeOK' /\ Tables /\ Grown
      /\ \A w \in Workers : WellPlaced(w) /\ Owned(w)
    BY NextType, NextGrows DEF CellInv
<1>0. ASSUME UNCHANGED at PROVE \A w \in Workers : WellPlaced(w)'
    BY <1>0, <1>T, StaysPlaced
<1>W. ASSUME NEW w \in Workers, StepOf(w), WellPlaced(w)' PROVE \A v \in Workers : WellPlaced(v)'
    BY <1>W, <1>T, OwnStep, StaysPlaced
<1>G. ASSUME NEW w \in Workers, NEW place, Go(w, place)
      PROVE  at'[w].place = place /\ at'[w].step = at[w].step
    BY <1>G, <1>T DEF Go, CellTypeOK, Runners
<1>1. ASSUME NEW w \in Workers, Owning(w) \/ Starting(w) PROVE WellPlaced(w)'
    <2>1. CASE Acquire(w) \/ Reacquire(w)
        <3>1. at'[w].place = at[w].place /\ at'[w].step = at[w].step
            BY <1>T, <2>1 DEF Acquire, Reacquire, CellTypeOK, Runners
        <3>2. QED
            BY <1>T, <3>1, StaysPlaced
    <2>2. CASE Activate(w) \/ Rehydrate(w)
        <3>1. at'[w].place = "loop" /\ cell # None
            BY <1>G, <2>2 DEF Activate, Rehydrate, Status
        <3>2. QED
            BY <1>T, <3>1 DEF WellPlaced, Grown
    <2>3. CASE RehydrateRefused(w)
        BY <1>T, <2>3, StaysPlaced DEF RehydrateRefused, Leave, CellTypeOK
    <2>4. QED
        BY <1>1, <2>1, <2>2, <2>3 DEF Owning, Starting
<1>2. ASSUME NEW w \in Workers, Asking(w) PROVE WellPlaced(w)'
    <2>1. CASE MarkPending(w) \/ Exhausted(w) \/ Build(w) \/ Reuse(w) \/ Checkpoint(w)
        <3>1. at'[w].place \in {"leaving", "checkpoint", "built"} /\ cell # None
            BY <1>G, <1>T, <2>1
               DEF MarkPending, Exhausted, Build, Reuse, Checkpoint, MayGoOn, MayCheckpoint, Status,
                   WellPlaced, In
        <3>2. QED
            BY <1>T, <3>1 DEF WellPlaced, Grown
    <2>2. CASE Begin(w)
        <3>1. at[w].permit \in 1..MaxEpoch /\ model \in Seq(Attempts)
            BY <1>T, <2>2 DEF Begin, Permitted, Holds, CellTypeOK, Runners
        <3>2. DOMAIN model' = DOMAIN model \cup {Len(model) + 1}
            BY <2>2, <3>1, BegunAttempt DEF Begin
        <3>3. at'[w].place = "asking" /\ at'[w].step = Len(model) + 1 /\ cell # None
            BY <1>T, <2>2 DEF Begin, CellTypeOK, Runners, NextStep, Status
        <3>4. QED
            BY <1>T, <3>2, <3>3 DEF WellPlaced, Grown
    <2>3. ASSUME Unanswered(w), NEW place \in Decisions \cup {"leaving", "checkpoint"}, Go(w, place)
          PROVE  WellPlaced(w)'
        <3>1. at'[w].place = place /\ at'[w].step = at[w].step
            BY <1>G, <2>3
        <3>2. at[w].step \in DOMAIN model /\ cell # None
            BY <1>T, <2>3 DEF Unanswered, WellPlaced, In
        <3>3. QED
            BY <1>T, <2>3, <3>1, <3>2 DEF WellPlaced, Grown, Decisions
    <2>4. ASSUME NEW decision \in Decisions, Succeed(w, decision) PROVE WellPlaced(w)'
        BY <2>3, <2>4 DEF Succeed
    <2>5. ASSUME NEW f \in Failures \cup {Rejected}, Fail(w, f) PROVE WellPlaced(w)'
        BY <2>3, <2>5 DEF Fail
    <2>6. CASE Intend(w)
        <3>1. at'[w].place = "intended" /\ cell # None
            BY <1>G, <2>6 DEF Intend, Status
        <3>2. intent' # None
            <4>1. intent' \in Captures
                <5>1. at[w].step \in Steps /\ at[w].permit \in 1..MaxEpoch
                    BY <1>T, <2>6, AttemptTypes
                       DEF Intend, WellPlaced, In, Permitted, Holds, CellTypeOK, Runners
                <5>2. QED
                    BY <2>6, <5>1 DEF Intend, Captures, Candidates
            <4>2. QED
                BY <4>1, NoneAssumption
        <3>3. QED
            BY <1>T, <3>1, <3>2 DEF WellPlaced, Grown
    <2>7. QED
        BY <1>2, <2>1, <2>2, <2>4, <2>5, <2>6 DEF Asking
<1>3. ASSUME NEW w \in Workers, Using(w) PROVE WellPlaced(w)'
    <2>1. cell # None /\ at[w].step \in DOMAIN model /\ at[w].step \in Steps
        BY <1>T, <1>3, AttemptTypes
           DEF Using, Deny, Admit, Claim, Execute, FinishTool, WellPlaced, In
    <2>2. \E place \in {"loop", "admitted", "claimed", "executed"} :
            at'[w].place = place /\ at'[w].step = at[w].step
        BY <1>3, <1>G DEF Using, Deny, Admit, Claim, Execute, FinishTool
    <2>3. tools'[at[w].step] # None
        <3>1. CASE Execute(w)
            BY <1>T, <3>1 DEF Execute, WellPlaced, In
        <3>2. CASE ~Execute(w)
            <4>1. PICK state \in ToolStates, epoch \in {at[w].permit, None} :
                        SetTool(w, state, epoch)
                BY <1>3, <3>2 DEF Using, Deny, Admit, Claim, FinishTool, ToolStates
            <4>2. [state |-> state, epoch |-> epoch] # None
                BY <1>T, NoneAssumption DEF CellTypeOK, Runners, ToolRecords
            <4>3. QED
                BY <1>T, <2>1, <4>1, <4>2 DEF SetTool, CellTypeOK
        <3>3. QED
            BY <3>1, <3>2
    <2>4. QED
        BY <1>T, <2>1, <2>2, <2>3 DEF WellPlaced, Grown
<1>4. ASSUME NEW w \in Workers, Finishing(w) PROVE WellPlaced(w)'
    <2>1. CASE Recover(w)
        <3>1. at'[w].place = "intended" /\ cell # None /\ intent # None
            BY <1>G, <1>T, <2>1 DEF Recover, Readable, WellPlaced, In
        <3>2. QED
            BY <1>T, <3>1 DEF WellPlaced, Grown
    <2>2. CASE Capture(w)
        <3>1. /\ at'[w].place = "captured" /\ cell # None /\ intent # None
              /\ TheCapture \in vault' /\ intent' = intent
            BY <1>G, <1>T, <2>2 DEF Capture, WellPlaced, In
        <3>2. QED
            BY <1>T, <3>1 DEF WellPlaced, Grown, TheCapture
    <2>3. CASE Prepare(w) \/ SkipPrepare(w)
        <3>1. /\ at'[w].place = "prepared" /\ cell # None /\ intent # None
              /\ TheCapture \in vault /\ UNCHANGED <<intent, vault>>
            BY <1>G, <1>T, <2>3 DEF Prepare, SkipPrepare, WellPlaced, In
        <3>2. Status({"completion_pending", "completed"})'
            <4>1. CASE Prepare(w)
                BY <1>T, <3>1, <4>1, StatusAfter DEF Prepare, Status, After
            <4>2. CASE SkipPrepare(w)
                BY <4>2 DEF SkipPrepare, AlreadyPrepared, Status
            <4>3. QED
                BY <2>3, <4>1, <4>2
        <3>3. QED
            BY <1>T, <3>1, <3>2 DEF WellPlaced, Grown, TheCapture
    <2>4. CASE CompleteAgent(w)
        <3>1. /\ at'[w].place = "closing" /\ cell # None /\ intent # None
              /\ TheCapture \in vault /\ UNCHANGED <<cell, intent, vault>>
              /\ Status({"completion_pending", "completed"})
            BY <1>G, <1>T, <2>4 DEF CompleteAgent, WellPlaced, In
        <3>2. QED
            BY <1>T, <3>1 DEF WellPlaced, Grown, TheCapture
    <2>5. CASE Finalize(w) \/ AlreadyFinal(w)
        BY <1>T, <2>5, StaysPlaced DEF Finalize, AlreadyFinal, Leave, CellTypeOK
    <2>6. QED
        BY <1>4, <2>1, <2>2, <2>3, <2>4, <2>5 DEF Finishing
<1>5. ASSUME NEW w \in Workers, Release(w) \/ Crash(w) \/ Raise(w) PROVE WellPlaced(w)'
    BY <1>5, <1>T, StaysPlaced DEF Release, Crash, Raise, Leave, CellTypeOK
<1>6. ASSUME NEW w \in Workers, Rebind(w) \/ Attach(w) PROVE \A v \in Workers : WellPlaced(v)'
    BY <1>0, <1>6 DEF Rebind, Attach
<1>7. CASE Expire \/ ClearCache \/ RecoverTerminal
    BY <1>0, <1>7 DEF Expire, ClearCache, RecoverTerminal
<1>8. CASE UNCHANGED vars
    BY <1>0, <1>8 DEF vars
<1>9. QED
    BY <1>1, <1>2, <1>3, <1>4, <1>5, <1>6, <1>7, <1>8, <1>W DEF Next, StepOf

\* While another worker is permitted, a step leaves what that worker relies on: whatever
\* changes it needs the permit, or takes it away.
LEMMA OthersStep ==
    ASSUME CellInv, NEW w \in Workers, NEW d \in Workers, d # w, StepOf(d), Permitted(w)'
    PROVE  Permitted(w) /\ UNCHANGED <<cell, model, intent>> /\ at'[w] = at[w]
<1>1. at'[w] = at[w]
    BY OwnStep
<1>2. lease' # None /\ lease'.owner = w /\ agent'.state = "active"
    BY DEF Permitted, Holds
<1>3. ASSUME Permitted(d), UNCHANGED lease, agent'.state = agent.state, agent'.epoch = agent.epoch
      PROVE  FALSE
    <2>1. Permitted(w)
        BY <1>1, <1>3 DEF Permitted, Holds
    <2>2. QED
        BY <1>3, <2>1, OnePermitted
<1>4. CASE Acquire(d)
    BY <1>2, <1>4 DEF Acquire
<1>5. CASE RehydrateRefused(d) \/ Release(d) \/ CompleteAgent(d)
    BY <1>2, <1>5 DEF RehydrateRefused, Release, CompleteAgent
<1>6. CASE Finalize(d)
    BY <1>2, <1>6 DEF Finalize, FinalizeCell
<1>7. CASE Reacquire(d) \/ Capture(d) \/ SkipPrepare(d) \/ AlreadyFinal(d) \/ Crash(d) \/ Raise(d)
    <2>1. UNCHANGED <<agent, lease, cell, model, intent>>
        BY <1>7 DEF Reacquire, Capture, SkipPrepare, AlreadyFinal, Crash, Raise
    <2>2. QED
        BY <1>1, <2>1 DEF Permitted, Holds
<1>8. CASE Activate(d) \/ Rehydrate(d) \/ Recover(d) \/ Prepare(d) \/ Attach(d)
    BY <1>3, <1>8 DEF Activate, Rehydrate, Recover, Prepare, Attach
<1>9. CASE Rebind(d)
    BY <1>3, <1>9 DEF Rebind, CellInv, CellTypeOK, AgentRuns
<1>10. CASE Asking(d)
    BY <1>3, <1>10
       DEF Asking, MarkPending, Exhausted, Build, Reuse, MayGoOn, Begin, Succeed, Fail, Unanswered,
           Checkpoint, Intend
<1>11. CASE Using(d)
    BY <1>3, <1>11 DEF Using, Deny, Admit, Claim, Execute, Rechecked, FinishTool
<1>12. QED
    BY <1>4, <1>5, <1>6, <1>7, <1>8, <1>9, <1>10, <1>11 DEF StepOf, Owning, Starting, Finishing

\* The runner with the permit goes on with the attempt it began.
LEMMA NextOwned == CellInv /\ [Next]_vars => \A w \in Workers : Owned(w)'
<1> SUFFICES ASSUME CellInv, [Next]_vars, NEW w \in Workers, Permitted(w)' PROVE Owned(w)'
    BY DEF Owned
<1>T. CellTypeOK /\ Owned(w) /\ WellPlaced(w)
    BY DEF CellInv
<1>0. ASSUME Permitted(w), UNCHANGED <<cell, model, intent>>, at'[w] = at[w] PROVE Owned(w)'
    BY <1>0, <1>T DEF Owned, Status
<1>G. ASSUME NEW place, Go(w, place)
      PROVE  at'[w].place = place /\ at'[w].step = at[w].step /\ at'[w].permit = at[w].permit
    BY <1>G, <1>T DEF Go, CellTypeOK, Runners
<1>E. ASSUME at'[w].place \notin {"asking", "tool", "final", "built"} PROVE Owned(w)'
    BY <1>E DEF Owned
<1>1. CASE Owning(w) \/ Starting(w)
    <2>1. at'[w].place \in {"idle", "loop"}
        BY <1>1, <1>T, <1>G
           DEF Owning, Starting, Acquire, Reacquire, Activate, Rehydrate, RehydrateRefused, Start,
               Leave, CellTypeOK, Runners
    <2>2. QED
        BY <1>E, <2>1
<1>2. CASE Asking(w)
    <2>1. CASE MarkPending(w) \/ Exhausted(w) \/ Checkpoint(w) \/ Intend(w)
        <3>1. at'[w].place \in {"leaving", "checkpoint", "intended"}
            BY <1>G, <2>1 DEF MarkPending, Exhausted, Checkpoint, Intend
        <3>2. QED
            BY <1>E, <3>1
    <2>2. CASE Build(w) \/ Reuse(w)
        BY <1>G, <2>2 DEF Build, Reuse, MayGoOn, NoIntent, Owned
    <2>3. CASE Begin(w)
        <3>1. at[w].permit \in 1..MaxEpoch /\ model \in Seq(Attempts)
            BY <1>T, <2>3 DEF Begin, Permitted, Holds, CellTypeOK, Runners
        <3>2. /\ Len(model') = Len(model) + 1
              /\ model'[Len(model) + 1] = [epoch |-> at[w].permit, end |-> None]
            BY <2>3, <3>1, BegunAttempt DEF Begin
        <3>3. /\ at'[w].place = "asking" /\ at'[w].step = Len(model) + 1
              /\ at'[w].permit = at[w].permit
            BY <1>T, <2>3 DEF Begin, CellTypeOK, Runners, NextStep
        <3>4. Status({"running"})'
            BY <1>T, <2>3, StatusAfter DEF Begin, Status, After
        <3>5. QED
            BY <3>2, <3>3, <3>4 DEF Owned
    <2>4. ASSUME NEW decision \in Decisions, Succeed(w, decision) PROVE Owned(w)'
        <3>1. /\ Status({"running"}) /\ at[w].step \in DOMAIN model
              /\ at[w].step = Len(model) /\ model[Len(model)].epoch = at[w].permit
            BY <1>T, <2>4 DEF Succeed, Unanswered, Owned, WellPlaced, In
        <3>2. model \in Seq(Attempts) /\ model' = Closed(model, at[w].step, decision)
            BY <1>T, <2>4 DEF Succeed, Closed, CellTypeOK
        <3>3. decision \in {None, "failed", "unknown"} \cup Decisions
            OBVIOUS
        <3>4. /\ Len(model') = Len(model) /\ model'[at[w].step].end = decision
              /\ model'[at[w].step].epoch = model[at[w].step].epoch
            BY ONLY <3>1, <3>2, <3>3, EndedAttempt
        <3>5. Status({"running"})'
            BY <1>T, <2>4, <3>1, StatusAfter DEF Succeed, Status, After
        <3>6. at'[w].place = decision /\ at'[w].step = at[w].step /\ at'[w].permit = at[w].permit
            BY <1>G, <2>4 DEF Succeed
        <3>7. QED
            BY <3>1, <3>4, <3>5, <3>6 DEF Owned, Decisions
    <2>5. ASSUME NEW f \in Failures \cup {Rejected}, Fail(w, f) PROVE Owned(w)'
        <3>1. at'[w].place \in {"leaving", "checkpoint"}
            BY <1>G, <2>5 DEF Fail
        <3>2. QED
            BY <1>E, <3>1
    <2>6. QED
        BY <1>2, <2>1, <2>2, <2>3, <2>4, <2>5 DEF Asking
<1>3. CASE Using(w)
    <2>1. at'[w].place \in {"loop", "admitted", "claimed", "executed"}
        BY <1>3, <1>G DEF Using, Deny, Admit, Claim, Execute, FinishTool
    <2>2. QED
        BY <1>E, <2>1
<1>4. CASE Finishing(w) \/ Release(w) \/ Crash(w) \/ Raise(w)
    <2>1. at'[w].place \in {"intended", "captured", "prepared", "closing", "idle"}
        BY <1>4, <1>T, <1>G
           DEF Finishing, Recover, Capture, Prepare, SkipPrepare, CompleteAgent, Finalize,
               AlreadyFinal, Release, Crash, Raise, Leave, Start, CellTypeOK
    <2>2. QED
        BY <1>E, <2>1
<1>5. CASE Rebind(w) \/ Attach(w)
    <2>1. at'[w].place = "idle"
        BY <1>5 DEF Rebind, Attach, In
    <2>2. QED
        BY <1>E, <2>1
<1>6. ASSUME NEW d \in Workers, d # w, StepOf(d) PROVE Owned(w)'
    BY <1>0, <1>6, OthersStep
<1>7. CASE Expire
    BY <1>7 DEF Expire, Permitted, CellInv, CellTypeOK
<1>8. CASE RecoverTerminal
    BY <1>8 DEF RecoverTerminal, FinalizeCell, Permitted
<1>9. CASE ClearCache \/ UNCHANGED vars
    <2>1. UNCHANGED <<agent, lease, cell, model, intent, at>>
        BY <1>9 DEF ClearCache, vars
    <2>2. QED
        BY <1>0, <2>1 DEF Permitted, Holds
<1>10. ASSUME NEW d \in Workers, StepOf(d) PROVE Owned(w)'
    BY <1>1, <1>2, <1>3, <1>4, <1>5, <1>6, <1>10 DEF StepOf
<1>11. QED
    BY <1>7, <1>8, <1>9, <1>10 DEF Next, StepOf

(***************************************************************************)
(* The theorems.                                                           *)
(***************************************************************************)

\* The invariant holds in every state of the cell.
THEOREM CellInvariant == Spec => []CellInv
<1>1. Init => CellInv
    BY InitCell
<1>2. CellInv /\ [Next]_vars => CellInv'
    BY NextType, NextTables, NextPlaced, NextOwned DEF CellInv
<1>3. QED
    BY <1>1, <1>2, PTL DEF Spec

\* Every table of the cell stays of its type.
THEOREM CellTypes == Spec => []CellTypeOK
<1>1. CellInv => CellTypeOK
    BY DEF CellInv
<1>2. QED
    BY <1>1, CellInvariant, PTL

\* Whatever is resumed and whoever resumes it, no model call of unknown outcome is
\* followed by another, and the AgentRun completes with one candidate.
THEOREM NothingIsTwice == Spec => []NothingTwice
<1>1. CellInv => NothingTwice
    BY DEF CellInv, Tables, NothingTwice
<1>2. QED
    BY <1>1, CellInvariant, PTL

\* What a checkpoint cut is never touched again, and what follows is of later epochs.
THEOREM CheckpointsCut == Spec => []CheckpointCuts
<1>1. CellInv => CheckpointCuts
    BY DEF CellInv, Tables
<1>2. QED
    BY <1>1, CellInvariant, PTL
=============================================================================
