--------------------------- MODULE T1DispatchProofs ---------------------------
(***************************************************************************)
(* Machine-checked proofs about T1 dispatch, for every set of runs and     *)
(* members, every ordinal and every ceiling.                               *)
(***************************************************************************)
EXTENDS T1Dispatch, FiniteSetTheorems, TLAPS

(***************************************************************************)
(* The inductive invariants.                                               *)
(***************************************************************************)
Unsent == {"claimed", "invoking", "started", "entering"}
Working == Unsent \cup {"sending", "answered", "returned", "charged"}

\* What a run knows about its member from its peek on.
MembersKnown ==
    \A r \in Runs :
        run[r].step \in Working \cup {"peeked", "admitted"} => MemberOf(r) \in Members

\* The claim of a working run stays on its row, through sweeps and operators: the
\* row is never queued again behind its back.
ClaimsKept ==
    \A r \in Runs : run[r].step \in Working =>
        row[MemberOf(r)].claim = r /\ row[MemberOf(r)].state # "queued"

\* A lease is as good as the permit granted before it, until the transport begins.
LeasesLast ==
    \A r \in Runs :
        run[r].step \in Unsent /\ permit[r] = "granted" /\ r \notin expired =>
            Holds(MemberOf(r), r) /\ MemberOf(r) \notin lapsed

\* A run that settles its member has charged it.
ChargesKnown ==
    \A r \in Runs : At(r, "charged") =>
        /\ run[r].persisted /\ run[r].net # "unknown" /\ run[r].cost # None
        /\ charged[MemberOf(r)] = run[r].cost

DispatchInv == TypeOK /\ MembersKnown /\ ClaimsKept /\ LeasesLast /\ ChargesKnown

(***************************************************************************)
(* The queue's operations keep its rows well formed.                       *)
(***************************************************************************)
\* Sweeping makes the lapsed claims uncertain and leaves the other rows alone.
LEMMA SweptRows ==
    ASSUME QueueTypeOK
    PROVE  /\ Swept \in [Members -> Rows]
           /\ \A m \in Members :
                /\ Swept[m].claim = row[m].claim /\ Swept[m].cost = row[m].cost
                /\ m \notin lapsed => Swept[m] = row[m]
                /\ m \in lapsed => /\ row[m].state = "claimed"
                                   /\ Swept[m].state = "reconciliation_required"
BY DEF QueueTypeOK, Swept, Uncertain, Rows, QueueStates, MembersIn

\* A row may be replaced by one that is consistent in itself, if what is lapsed
\* stays claimed and what is being resolved stays in reconciliation.
LEMMA RowReplaced ==
    ASSUME QueueTypeOK, NEW m \in Members, NEW new \in Rows,
           row' = [row EXCEPT ![m] = new],
           new.state = "claimed" => new.claim # None,
           new.state \in Terminal <=> new.cost # None,
           lapsed' \subseteq lapsed, m \in lapsed' => new.state = "claimed",
           resolving' \subseteq resolving,
           m \in resolving' => new.state = "reconciliation_required",
           authority' = authority
    PROVE  QueueTypeOK'
<1>1. /\ row' \in [Members -> Rows]
      /\ row'[m] = new
      /\ \A n \in Members \ {m} : row'[n] = row[n]
    BY DEF QueueTypeOK
<1> QED
    BY <1>1 DEF QueueTypeOK, MembersIn

\* mark_expired_claims keeps the types of the queue.
LEMMA SweepType ==
    ASSUME QueueTypeOK, MarkExpiredClaims
    PROVE  QueueTypeOK'
BY SweptRows DEF QueueTypeOK, MarkExpiredClaims, MembersIn, Terminal

\* So does a claim,
LEMMA ClaimType ==
    ASSUME QueueTypeOK, NEW m \in Members, NEW c \in Claims, Claim(m, c)
    PROVE  QueueTypeOK'
<1>1. c # None
    BY QueueAssumption
<1>2. row[m].state = "queued" /\ row[m].cost = None /\ m \notin lapsed
    BY DEF Claim, Claimable, FirstQueued, MembersIn, QueueTypeOK, Terminal
<1>3. /\ row' = [Swept EXCEPT ![m] = [state |-> "claimed", claim |-> c, cost |-> None]]
      /\ lapsed' = {} /\ authority' = authority /\ resolving' = resolving
    BY DEF Claim
<1>4. row' \in [Members -> Rows]
    BY <1>3, SweptRows DEF Rows, QueueStates
<1>5. \A n \in Members :
        /\ row'[n].state = "claimed" => row'[n].claim # None
        /\ row'[n].state \in Terminal <=> row'[n].cost # None
    BY <1>1, <1>3, SweptRows DEF QueueTypeOK, Terminal
<1>6. \A n \in resolving : row'[n].state = "reconciliation_required"
    BY <1>2, <1>3, SweptRows DEF QueueTypeOK, MembersIn
<1> QED
    BY <1>3, <1>4, <1>5, <1>6 DEF QueueTypeOK, MembersIn

\* A held row is claimed, without a cost, and not being resolved.
LEMMA HeldRow ==
    ASSUME QueueTypeOK, NEW m \in Members, NEW c, Holds(m, c)
    PROVE  /\ row[m] \in Rows /\ row[m].cost = None /\ m \notin resolving
           /\ row[m].state = "claimed" /\ row[m].claim = c
           /\ Uncertain(m) \in Rows /\ Uncertain(m).cost = None
           /\ Uncertain(m).state = "reconciliation_required"
           /\ Uncertain(m).claim = c
<1>1. row[m] \in Rows /\ row[m].state = "claimed" /\ row[m].claim = c
    BY DEF QueueTypeOK, Holds
<1>2. row[m].cost = None /\ m \notin resolving
    BY <1>1 DEF QueueTypeOK, MembersIn, Terminal
<1> QED
    BY <1>1, <1>2 DEF Uncertain, Rows, QueueStates

\* its release before dispatch,
LEMMA ReleaseType ==
    ASSUME QueueTypeOK, NEW m \in Members, NEW c, ReleaseBeforeDispatch(m, c)
    PROVE  QueueTypeOK'
<1> DEFINE new == IF m \in lapsed THEN Uncertain(m) ELSE Queued
<1>1. Holds(m, c)
    BY DEF ReleaseBeforeDispatch
<1>2. new \in Rows /\ new.cost = None /\ new.state \notin Terminal \cup {"claimed"}
    BY <1>1, HeldRow DEF Queued, Rows, QueueStates, Terminal
<1>3. /\ row' = [row EXCEPT ![m] = new]
      /\ lapsed' = lapsed \ {m} /\ authority' = authority /\ resolving' = resolving
    BY DEF ReleaseBeforeDispatch
<1> HIDE DEF new
<1> QED
    BY <1>1, <1>2, <1>3, HeldRow, RowReplaced

\* its settlement,
LEMMA SettlementType ==
    ASSUME QueueTypeOK, NEW m \in Members, NEW c, NEW to \in Terminal,
           NEW cost \in Costs, CompleteOrFail(m, c, to, cost)
    PROVE  QueueTypeOK'
<1> DEFINE new == IF Settles(m, cost) THEN [row[m] EXCEPT !.state = to, !.cost = cost]
                  ELSE Uncertain(m)
<1>1. Holds(m, c)
    BY DEF CompleteOrFail
<1>2. cost # None
    BY QueueAssumption
<1>3. /\ new \in Rows /\ new.state # "claimed"
      /\ new.state \in Terminal <=> new.cost # None
    BY <1>1, <1>2, HeldRow DEF Rows, QueueStates, Terminal
<1>4. /\ row' = [row EXCEPT ![m] = new]
      /\ lapsed' = lapsed \ {m} /\ authority' = authority /\ resolving' = resolving
    BY DEF CompleteOrFail
<1> HIDE DEF new
<1> QED
    BY <1>1, <1>3, <1>4, HeldRow, RowReplaced

\* its end in reconciliation,
LEMMA ReconciliationType ==
    ASSUME QueueTypeOK, NEW m \in Members, NEW c, RequireReconciliation(m, c)
    PROVE  QueueTypeOK'
<1>1. Holds(m, c)
    BY DEF RequireReconciliation
<1>2. /\ row' = [row EXCEPT ![m] = Uncertain(m)]
      /\ lapsed' = lapsed \ {m} /\ authority' = authority /\ resolving' = resolving
    BY DEF RequireReconciliation
<1>3. Uncertain(m).state \notin Terminal \cup {"claimed"}
    BY <1>1, HeldRow DEF Terminal
<1> QED
    BY <1>1, <1>2, <1>3, HeldRow, RowReplaced

\* and what operators and time do.
LEMMA OperatorType ==
    ASSUME QueueTypeOK, NEW m \in Members,
           LeaseLapses(m) \/ ResolutionRevokes(m) \/ ResolutionSettles(m) \/ AuthorityEnds
    PROVE  QueueTypeOK'
<1>1. CASE LeaseLapses(m)
    BY <1>1 DEF QueueTypeOK, LeaseLapses, MembersIn
<1>2. CASE ResolutionRevokes(m)
    BY <1>2 DEF QueueTypeOK, ResolutionRevokes, MembersIn
<1>3. CASE ResolutionSettles(m)
    <2>1. PICK to \in Terminal, cost \in Costs :
            row' = [row EXCEPT ![m].state = to, ![m].cost = cost]
        BY <1>3 DEF ResolutionSettles
    <2> DEFINE new == [row[m] EXCEPT !.state = to, !.cost = cost]
    <2>2. row[m] \in Rows /\ row[m].state = "reconciliation_required" /\ m \notin lapsed
        BY <1>3 DEF ResolutionSettles, QueueTypeOK, MembersIn
    <2>3. cost # None
        BY QueueAssumption
    <2>4. /\ new \in Rows /\ new.state \in Terminal /\ new.state # "claimed"
          /\ new.cost # None
        BY <2>2, <2>3 DEF Rows, QueueStates, Terminal
    <2>5. row' = [row EXCEPT ![m] = new]
        BY <2>1, <2>2 DEF QueueTypeOK
    <2>6. resolving' = resolving \ {m} /\ lapsed' = lapsed /\ authority' = authority
        BY <1>3 DEF ResolutionSettles
    <2> HIDE DEF new
    <2> QED
        BY <2>2, <2>4, <2>5, <2>6, RowReplaced
<1>4. CASE AuthorityEnds
    BY <1>4 DEF QueueTypeOK, AuthorityEnds, MembersIn
<1> QED
    BY <1>1, <1>2, <1>3, <1>4

(***************************************************************************)
(* Steps of one run that leave the queue and the plan's costs alone.       *)
(***************************************************************************)
\* The run goes forward: it knows its member no better than before.
RunChange(r) ==
    /\ run' \in [Runs -> RunRecords] /\ \A s \in Runs \ {r} : run'[s] = run[s]
    /\ run'[r].step \in Working \cup {"peeked", "admitted"} =>
            /\ run[r].step \in Working \cup {"peeked", "admitted"}
            /\ run'[r].member = run[r].member
    /\ run'[r].step \in Working => run[r].step \in Working
    /\ run'[r].step \in Unsent => run[r].step \in Unsent
    /\ run'[r].step = "charged" => run'[r] = run[r]

\* No permit becomes usable, except that of a run before its claim.
PermitChange ==
    /\ permit' \in [Runs -> Phases]
    /\ expired' \subseteq {s \in Runs : permit'[s] \in {"granted", "dispatched"}}
    /\ \A s \in Runs :
        permit'[s] = "granted" /\ s \notin expired' =>
            (permit[s] = "granted" /\ s \notin expired) \/ run'[s].step \notin Unsent

\* The record of a call is well formed wherever it goes, and when it ends.
LEMMA RunSteps ==
    ASSUME TypeOK, NEW r \in Runs, NEW new \in RunRecords, run' = [run EXCEPT ![r] = new]
    PROVE  /\ run' \in [Runs -> RunRecords] /\ run'[r] = new
           /\ \A s \in Runs \ {r} : run'[s] = run[s]
BY DEF TypeOK

\* A call that goes on to a step keeps its member, and the other calls.
LEMMA GoesType ==
    ASSUME TypeOK, NEW r \in Runs, NEW step \in Steps, Goes(r, step)
    PROVE  /\ run' \in [Runs -> RunRecords]
           /\ run'[r].step = step /\ run'[r].member = run[r].member
           /\ \A s \in Runs \ {r} : run'[s] = run[s]
<1>1. /\ [run[r] EXCEPT !.step = step] \in RunRecords
      /\ [run[r] EXCEPT !.step = step].step = step
      /\ [run[r] EXCEPT !.step = step].member = run[r].member
    BY DEF TypeOK, RunRecords
<1> QED
    BY <1>1 DEF TypeOK, Goes

\* A call that ends leaves the other calls alone.
LEMMA EndsType ==
    ASSUME TypeOK, NEW r \in Runs, NEW step \in Steps, Ends(r, step)
    PROVE  /\ run' \in [Runs -> RunRecords] /\ run'[r].step = step
           /\ \A s \in Runs \ {r} : run'[s] = run[s]
<1>1. [NewRun EXCEPT !.step = step] \in RunRecords /\ [NewRun EXCEPT !.step = step].step = step
    BY DEF NewRun, RunRecords, Steps
<1> QED
    BY <1>1 DEF TypeOK, Ends

\* A permit that moves on, or stays, is no more usable than before.
LEMMA PermitSteps ==
    ASSUME TypeOK, NEW r \in Runs, NEW phase \in Phases,
           Becomes(r, phase) \/ Cancelled(r) \/ UNCHANGED <<permit, expired>>,
           phase # "granted" \/ run'[r].step \notin Unsent
    PROVE  PermitChange
<1>1. CASE UNCHANGED <<permit, expired>>
    BY <1>1 DEF TypeOK, Live, PermitChange
<1>2. ASSUME NEW p \in Phases, Becomes(r, p), p # "granted" \/ run'[r].step \notin Unsent
      PROVE  PermitChange
    BY <1>2 DEF TypeOK, Becomes, Live, PermitChange
<1>3. CASE Becomes(r, phase)
    BY <1>2, <1>3
<1>4. CASE Cancelled(r)
    <2>1. CASE permit[r] = "granted"
        BY <1>2, <1>4, <2>1 DEF Cancelled, Phases
    <2>2. CASE permit[r] # "granted"
        BY <1>1, <1>4, <2>2 DEF Cancelled
    <2> QED
        BY <2>1, <2>2
<1> QED
    BY <1>1, <1>3, <1>4

\* A step of a call that leaves the queue alone keeps the invariant.
LEMMA LocalStep ==
    ASSUME DispatchInv, NEW r \in Runs, RunChange(r), PermitChange,
           UNCHANGED <<queueVars, charged>>, transports' \in [Members -> Nat]
    PROVE  DispatchInv'
<1>1. TypeOK'
    BY DEF DispatchInv, TypeOK, QueueTypeOK, MembersIn, queueVars, Live, RunChange, PermitChange
<1>2. MembersKnown'
    BY DEF DispatchInv, MembersKnown, MemberOf, RunChange
<1>3. ClaimsKept'
    BY DEF DispatchInv, ClaimsKept, MemberOf, queueVars, RunChange
<1>4. LeasesLast'
    <2> SUFFICES ASSUME NEW s \in Runs, run'[s].step \in Unsent,
                        permit'[s] = "granted", s \notin expired'
                 PROVE  /\ row[run'[s].member].state = "claimed" /\ row[run'[s].member].claim = s
                        /\ run'[s].member \notin lapsed
        BY DEF LeasesLast, Holds, MemberOf, queueVars
    <2>1. permit[s] = "granted" /\ s \notin expired
        BY DEF PermitChange
    <2>2. run[s].step \in Unsent /\ run'[s].member = run[s].member
        BY DEF RunChange, Working
    <2> QED
        BY <2>1, <2>2 DEF DispatchInv, LeasesLast, Holds, MemberOf
<1>5. ChargesKnown'
    BY DEF DispatchInv, ChargesKnown, MemberOf, At, RunChange
<1> QED
    BY <1>1, <1>2, <1>3, <1>4, <1>5 DEF DispatchInv

\* The time limit and the resolutions of a permit keep the invariant.
LEMMA PermitActions ==
    ASSUME DispatchInv, NEW r \in Runs,
           TtlPasses(r) \/ PermitSwept(r) \/ PermitResolved(r)
    PROVE  DispatchInv'
<1>1. TypeOK
    BY DEF DispatchInv
<1>2. UNCHANGED <<queueVars, charged>> /\ transports' = transports /\ run' = run
    BY DEF TtlPasses, PermitSwept, PermitResolved
<1>3. PermitChange
    <2>1. CASE TtlPasses(r)
        BY <1>1, <2>1 DEF TtlPasses, TypeOK, Live, PermitChange
    <2>2. CASE PermitSwept(r)
        <3>1. Becomes(r, "closed") \/ Becomes(r, "unresolved")
            BY <2>2 DEF PermitSwept
        <3> QED
            BY <1>1, <3>1, PermitSteps DEF Phases
    <2>3. CASE PermitResolved(r)
        BY <1>1, <2>3, PermitSteps DEF PermitResolved, Phases
    <2> QED
        BY <2>1, <2>2, <2>3
<1>4. RunChange(r)
    BY <1>1, <1>2 DEF RunChange, TypeOK
<1>5. transports' \in [Members -> Nat]
    BY <1>1, <1>2 DEF TypeOK
<1> QED
    BY <1>2, <1>3, <1>4, <1>5, LocalStep

\* A call up to its claim, and the crash of a call.
LEMMA CallActions ==
    ASSUME DispatchInv, NEW r \in Runs, Preflight(r) \/ Admit(r) \/ Crash(r)
    PROVE  DispatchInv'
<1>1. TypeOK
    BY DEF DispatchInv
<1>2. UNCHANGED <<queueVars, charged>> /\ transports' = transports
    BY DEF Preflight, Admit, Crash, outside, queueVars
<1>3. transports' \in [Members -> Nat]
    BY <1>1, <1>2 DEF TypeOK
<1>4. CASE Preflight(r)
    <2>1. Goes(r, "checked") /\ UNCHANGED <<permit, expired>>
        BY <1>4 DEF Preflight, outside
    <2>2. RunChange(r)
        BY <1>1, <2>1, GoesType DEF RunChange, Steps, Working, Unsent
    <2>3. PermitChange
        BY <1>1, <2>1, PermitSteps DEF Phases
    <2> QED
        BY <1>2, <1>3, <2>2, <2>3, LocalStep
<1>5. CASE Admit(r)
    <2>1. Goes(r, "admitted") /\ Becomes(r, "granted") /\ run[r].step = "peeked"
        BY <1>5 DEF Admit, At
    <2>2. RunChange(r) /\ run'[r].step = "admitted"
        BY <1>1, <2>1, GoesType DEF RunChange, Steps, Working, Unsent
    <2>3. PermitChange
        BY <1>1, <2>1, <2>2, PermitSteps DEF Phases, Unsent
    <2> QED
        BY <1>2, <1>3, <2>2, <2>3, LocalStep
<1>6. CASE Crash(r)
    <2>1. Ends(r, "crashed") /\ UNCHANGED <<permit, expired>>
        BY <1>6 DEF Crash, outside
    <2>2. RunChange(r)
        BY <1>1, <2>1, EndsType DEF RunChange, Steps, Working, Unsent
    <2>3. PermitChange
        BY <1>1, <2>1, PermitSteps DEF Phases
    <2> QED
        BY <1>2, <1>3, <2>2, <2>3, LocalStep
<1> QED
    BY <1>4, <1>5, <1>6

\* The steps of invoke.
LEMMA InvokeActions ==
    ASSUME DispatchInv, NEW r \in Runs,
           \/ Refused(r) \/ StartRun(r) \/ DispatchUnrecorded(r) \/ ReadClock(r)
           \/ BeginTransport(r) \/ TransportRefused(r) \/ Answer(r) \/ Finish(r)
    PROVE  DispatchInv'
<1>1. TypeOK /\ run[r] \in RunRecords
    BY DEF DispatchInv, TypeOK
<1>2. UNCHANGED <<queueVars, charged>>
    BY DEF Refused, StartRun, DispatchUnrecorded, ReadClock, BeginTransport, TransportRefused,
           Answer, Finish, outside, queueVars
<1>3. CASE Refused(r) \/ DispatchUnrecorded(r)
    <2>1. /\ Goes(r, "returned") /\ Cancelled(r) /\ run[r].step \in {"invoking", "started"}
          /\ transports' = transports
        BY <1>3 DEF Refused, DispatchUnrecorded, At
    <2>2. RunChange(r)
        BY <1>1, <2>1, GoesType DEF RunChange, Steps, Working, Unsent
    <2>3. PermitChange
        BY <1>1, <2>1, PermitSteps DEF Phases
    <2> QED
        BY <1>1, <1>2, <2>1, <2>2, <2>3, LocalStep DEF TypeOK
<1>4. CASE StartRun(r)
    <2> DEFINE new == [run[r] EXCEPT !.step = "started", !.sent = TRUE]
    <2>1. run' = [run EXCEPT ![r] = new] /\ run[r].step = "invoking" /\ UNCHANGED <<permit, expired>>
        BY <1>1, <1>4 DEF StartRun, At, outside, TypeOK
    <2>2. new \in RunRecords /\ new.step = "started" /\ new.member = run[r].member
        BY <1>1 DEF RunRecords, Steps
    <2> HIDE DEF new
    <2>3. RunChange(r)
        BY <1>1, <2>1, <2>2, RunSteps DEF RunChange, Working, Unsent
    <2>4. PermitChange
        BY <1>1, <2>1, PermitSteps DEF Phases
    <2>5. transports' = transports
        BY <1>4 DEF StartRun, outside
    <2> QED
        BY <1>1, <1>2, <2>3, <2>4, <2>5, LocalStep DEF TypeOK
<1>9. CASE ReadClock(r)
    <2>1. /\ Goes(r, "entering") /\ run[r].step = "started" /\ transports' = transports
          /\ UNCHANGED <<permit, expired>>
        BY <1>9 DEF ReadClock, At, outside
    <2>2. RunChange(r)
        BY <1>1, <2>1, GoesType DEF RunChange, Steps, Working, Unsent
    <2>3. PermitChange
        BY <1>1, <2>1, PermitSteps DEF Phases
    <2> QED
        BY <1>1, <1>2, <2>1, <2>2, <2>3, LocalStep DEF TypeOK
<1>5. CASE BeginTransport(r)
    <2>1. /\ Goes(r, "sending") /\ run[r].step = "entering" /\ expired' = expired
          /\ permit' = [permit EXCEPT ![r] = "dispatched"]
        BY <1>5 DEF BeginTransport, At
    <2>2. RunChange(r)
        BY <1>1, <2>1, GoesType DEF RunChange, Steps, Working, Unsent
    <2>3. PermitChange
        BY <1>1, <2>1 DEF PermitChange, TypeOK, Live, Phases
    <2>4. MemberOf(r) \in Members
        BY <2>1 DEF DispatchInv, MembersKnown, Working, Unsent
    <2>5. transports \in [Members -> Nat]
        BY <1>1 DEF TypeOK
    <2>6. transports' = [transports EXCEPT ![MemberOf(r)] = transports[MemberOf(r)] + 1]
        BY <1>5 DEF BeginTransport
    <2>7. transports' \in [Members -> Nat]
        BY <2>4, <2>5, <2>6
    <2> QED
        BY <1>2, <2>2, <2>3, <2>7, LocalStep
<1>6. CASE TransportRefused(r)
    <2>1. PICK cost \in {0, None}, persisted \in BOOLEAN :
            run' = [run EXCEPT ![r].step = "answered", ![r].cost = cost,
                               ![r].persisted = persisted]
        BY <1>6 DEF TransportRefused
    <2> DEFINE new == [run[r] EXCEPT !.step = "answered", !.cost = cost, !.persisted = persisted]
    <2>2. /\ run' = [run EXCEPT ![r] = new] /\ run[r].step \in {"started", "entering"}
          /\ Cancelled(r) \/ UNCHANGED <<permit, expired>>
        BY <1>1, <1>6, <2>1 DEF TransportRefused, At, TypeOK
    <2>3. cost \in Costs \cup {None}
        BY QueueAssumption
    <2>4. new \in RunRecords /\ new.step = "answered" /\ new.member = run[r].member
        BY <1>1, <2>3 DEF RunRecords, Steps
    <2> HIDE DEF new
    <2>5. RunChange(r)
        BY <1>1, <2>2, <2>4, RunSteps DEF RunChange, Working, Unsent
    <2>6. PermitChange
        BY <1>1, <2>2, PermitSteps DEF Phases
    <2>7. transports' = transports
        BY <1>6 DEF TransportRefused
    <2> QED
        BY <1>1, <1>2, <2>5, <2>6, <2>7, LocalStep DEF TypeOK
<1>7. CASE Answer(r)
    <2>1. PICK net \in {"known", "unknown"}, cost \in Costs \cup {None}, persisted \in BOOLEAN :
            run' = [run EXCEPT ![r].step = "answered", ![r].net = net, ![r].cost = cost,
                               ![r].persisted = persisted]
        BY <1>7 DEF Answer
    <2> DEFINE new == [run[r] EXCEPT !.step = "answered", !.net = net, !.cost = cost,
                                     !.persisted = persisted]
    <2>2. run' = [run EXCEPT ![r] = new] /\ run[r].step = "sending"
        BY <1>1, <1>7, <2>1 DEF Answer, At, TypeOK
    <2>3. new \in RunRecords /\ new.step = "answered" /\ new.member = run[r].member
        BY <1>1 DEF RunRecords, Steps
    <2>4. UNCHANGED <<permit, expired>> /\ transports' = transports
        BY <1>7 DEF Answer, outside
    <2> HIDE DEF new
    <2>5. RunChange(r)
        BY <1>1, <2>2, <2>3, RunSteps DEF RunChange, Working, Unsent
    <2>6. PermitChange
        BY <1>1, <2>4, PermitSteps DEF Phases
    <2> QED
        BY <1>1, <1>2, <2>4, <2>5, <2>6, LocalStep DEF TypeOK
<1>8. CASE Finish(r)
    <2>1. PICK result \in BOOLEAN :
            run' = [run EXCEPT ![r].step = "returned", ![r].result = result]
        BY <1>8 DEF Finish
    <2> DEFINE new == [run[r] EXCEPT !.step = "returned", !.result = result]
    <2>2. run' = [run EXCEPT ![r] = new] /\ run[r].step = "answered"
        BY <1>1, <1>8, <2>1 DEF Finish, At, TypeOK
    <2>3. new \in RunRecords /\ new.step = "returned" /\ new.member = run[r].member
        BY <1>1 DEF RunRecords, Steps
    <2>4. Becomes(r, "closed") \/ Becomes(r, "unresolved") \/ Cancelled(r)
        BY <1>8 DEF Finish, FinishPermit
    <2> HIDE DEF new
    <2>5. RunChange(r)
        BY <1>1, <2>2, <2>3, RunSteps DEF RunChange, Working, Unsent
    <2>6. PermitChange
        BY <1>1, <2>4, PermitSteps DEF Phases
    <2>7. transports' = transports
        BY <1>8 DEF Finish
    <2> QED
        BY <1>1, <1>2, <2>5, <2>6, <2>7, LocalStep DEF TypeOK
<1> QED
    BY <1>3, <1>4, <1>5, <1>6, <1>7, <1>8, <1>9

(***************************************************************************)
(* Steps that change the queue.                                            *)
(***************************************************************************)
\* What a claim's row means to the runs of S: it is not queued again, and while the
\* permit is usable it stays claimed.
RowsKept(S) ==
    \A s \in S, m \in Members : row[m].claim = s /\ row[m].state # "queued" =>
        /\ row'[m].claim = s /\ row'[m].state # "queued"
        /\ Holds(m, s) /\ m \notin lapsed /\ permit[s] = "granted" /\ s \notin expired
              => row'[m].state = "claimed" /\ m \notin lapsed'

\* mark_expired_claims keeps every row that a call still holds.
LEMMA SweepKeeps ==
    ASSUME QueueTypeOK, MarkExpiredClaims
    PROVE  RowsKept(Runs)
BY SweptRows DEF RowsKept, MarkExpiredClaims, Holds

\* So does a claim, and the claimed row is live.
LEMMA ClaimKeeps ==
    ASSUME QueueTypeOK, NEW m \in Members, NEW c \in Claims, Claim(m, c)
    PROVE  /\ RowsKept(Runs)
           /\ row'[m].state = "claimed" /\ row'[m].claim = c /\ m \notin lapsed'
<1>1. row[m].state = "queued"
    BY DEF Claim, Claimable, FirstQueued, MembersIn
<1>2. /\ row' = [Swept EXCEPT ![m] = [state |-> "claimed", claim |-> c, cost |-> None]]
      /\ lapsed' = {}
    BY DEF Claim
<1>3. \A n \in Members \ {m} : row'[n] = Swept[n]
    BY <1>2, SweptRows
<1>4. row'[m].state = "claimed" /\ row'[m].claim = c
    BY <1>2, SweptRows
<1> QED
    BY <1>1, <1>2, <1>3, <1>4, SweptRows DEF RowsKept, Holds

\* The holder's calls concern nobody else.
LEMMA HolderKeeps ==
    ASSUME QueueTypeOK, NEW m \in Members, NEW r \in Runs,
           \/ ReleaseBeforeDispatch(m, r) \/ RequireReconciliation(m, r)
           \/ \E to \in Terminal, cost \in Costs : CompleteOrFail(m, r, to, cost)
    PROVE  RowsKept(Runs \ {r})
<1>1. /\ row[m].claim = r /\ lapsed' = lapsed \ {m}
      /\ \E new : row' = [row EXCEPT ![m] = new]
    BY DEF ReleaseBeforeDispatch, RequireReconciliation, CompleteOrFail, Holds
<1>2. \A n \in Members \ {m} : row'[n] = row[n]
    BY <1>1 DEF QueueTypeOK
<1> QED
    BY <1>1, <1>2 DEF RowsKept, Holds

\* So does what operators and time do.
LEMMA OperatorKeeps ==
    ASSUME QueueTypeOK, NEW m \in Members,
           ClaimLapses(m) \/ ResolutionRevokes(m) \/ ResolutionSettles(m) \/ AuthorityEnds
    PROVE  RowsKept(Runs)
<1>1. CASE ClaimLapses(m)
    BY <1>1 DEF ClaimLapses, LeaseLapses, RowsKept, Holds, Live
<1>2. CASE ResolutionRevokes(m) \/ AuthorityEnds
    BY <1>2 DEF ResolutionRevokes, AuthorityEnds, RowsKept, Holds
<1>3. CASE ResolutionSettles(m)
    <2>1. PICK to \in Terminal, cost \in Costs :
            row' = [row EXCEPT ![m].state = to, ![m].cost = cost]
        BY <1>3 DEF ResolutionSettles
    <2>2. row[m] \in Rows /\ row[m].state = "reconciliation_required" /\ lapsed' = lapsed
        BY <1>3 DEF ResolutionSettles, QueueTypeOK, MembersIn
    <2>3. /\ row'[m].claim = row[m].claim /\ row'[m].state # "queued"
          /\ \A n \in Members \ {m} : row'[n] = row[n]
        BY <2>1, <2>2 DEF QueueTypeOK, Rows, Terminal
    <2> QED
        BY <2>2, <2>3 DEF RowsKept, Holds
<1> QED
    BY <1>1, <1>2, <1>3

\* The runs of S go on as before; the others are not, or no longer, working.
LEMMA QueueStep ==
    ASSUME DispatchInv, NEW S \in SUBSET Runs, RowsKept(S), QueueTypeOK',
           run' \in [Runs -> RunRecords], \A s \in S : run'[s] = run[s],
           \A s \in Runs \ S :
               /\ run'[s].step \notin Working
               /\ run'[s].step \in {"peeked", "admitted"} => run'[s].member \in Members,
           PermitChange, charged' = charged, transports' = transports
    PROVE  DispatchInv'
<1>1. TypeOK'
    BY DEF DispatchInv, TypeOK, PermitChange, Live
<1>2. MembersKnown'
    BY DEF DispatchInv, MembersKnown, MemberOf
<1>3. \A s \in Runs : run'[s].step \in Working =>
        /\ s \in S /\ run'[s] = run[s] /\ run[s].member \in Members
        /\ row[run[s].member].claim = s /\ row[run[s].member].state # "queued"
    BY DEF DispatchInv, MembersKnown, ClaimsKept, MemberOf
<1>4. ClaimsKept'
    BY <1>3 DEF ClaimsKept, MemberOf, RowsKept
<1>5. LeasesLast'
    <2> SUFFICES ASSUME NEW s \in Runs, run'[s].step \in Unsent,
                        permit'[s] = "granted", s \notin expired'
                 PROVE  /\ row'[run'[s].member].state = "claimed" /\ row'[run'[s].member].claim = s
                        /\ run'[s].member \notin lapsed'
        BY DEF LeasesLast, Holds, MemberOf
    <2>1. permit[s] = "granted" /\ s \notin expired /\ run'[s].step \in Working
        BY DEF PermitChange, Working
    <2>2. Holds(run[s].member, s) /\ run[s].member \notin lapsed
        BY <1>3, <2>1 DEF DispatchInv, LeasesLast, MemberOf
    <2> QED
        BY <1>3, <2>1, <2>2 DEF RowsKept
<1>6. ChargesKnown'
    BY <1>3 DEF DispatchInv, ChargesKnown, MemberOf, At, Working
<1> QED
    BY <1>1, <1>2, <1>4, <1>5, <1>6 DEF DispatchInv

\* The look at the queue before admission keeps the invariant.
LEMMA PeekAction ==
    ASSUME DispatchInv, NEW r \in Runs, Peek(r)
    PROVE  DispatchInv'
<1>1. TypeOK /\ QueueTypeOK /\ run[r] \in RunRecords
    BY DEF DispatchInv, TypeOK
<1>2. MarkExpiredClaims /\ charged' = charged /\ transports' = transports
      /\ UNCHANGED <<permit, expired>>
    BY DEF Peek
<1>3. /\ run' \in [Runs -> RunRecords] /\ \A s \in Runs \ {r} : run'[s] = run[s]
      /\ run'[r].step \notin Working
      /\ run'[r].step \in {"peeked", "admitted"} => run'[r].member \in Members
    <2>1. CASE authority = "valid" /\ FirstQueued # {}
        <3>1. PICK m \in Members : run' = [run EXCEPT ![r].step = "peeked", ![r].member = m]
            BY <2>1 DEF Peek, FirstQueued, MembersIn
        <3> DEFINE new == [run[r] EXCEPT !.step = "peeked", !.member = m]
        <3>2. run' = [run EXCEPT ![r] = new]
            BY <1>1, <3>1 DEF TypeOK
        <3>3. new \in RunRecords /\ new.step = "peeked" /\ new.member \in Members
            BY <1>1 DEF RunRecords, Steps
        <3> HIDE DEF new
        <3> QED
            BY <1>1, <3>2, <3>3, RunSteps DEF Working, Unsent
    <2>2. CASE ~(authority = "valid" /\ FirstQueued # {})
        <3>1. run' = [run EXCEPT ![r] = NewRun]
            BY <2>2 DEF Peek
        <3>2. NewRun \in RunRecords /\ NewRun.step = "idle"
            BY DEF NewRun, RunRecords, Steps
        <3> QED
            BY <1>1, <3>1, <3>2, RunSteps DEF Working, Unsent
    <2> QED
        BY <2>1, <2>2
<1>4. RowsKept(Runs \ {r}) /\ QueueTypeOK'
    BY <1>1, <1>2, SweepKeeps, SweepType DEF RowsKept
<1>5. PermitChange
    BY <1>1, <1>2, PermitSteps DEF Phases
<1> QED
    BY <1>2, <1>3, <1>4, <1>5, QueueStep

\* A call that ends with a sweep, or with a call of its claim's holder.
LEMMA EndStep ==
    ASSUME DispatchInv, NEW r \in Runs, Ends(r, "done"),
           RowsKept(Runs \ {r}), QueueTypeOK',
           Cancelled(r) \/ UNCHANGED <<permit, expired>>,
           charged' = charged, transports' = transports
    PROVE  DispatchInv'
<1>1. TypeOK
    BY DEF DispatchInv
<1>2. /\ run' \in [Runs -> RunRecords] /\ \A s \in Runs \ {r} : run'[s] = run[s]
      /\ run'[r].step = "done"
    BY <1>1, EndsType DEF Steps
<1>3. PermitChange
    BY <1>1, PermitSteps DEF Phases
<1> QED
    BY <1>2, <1>3, QueueStep DEF Working, Unsent

\* A call that ends without a claim keeps the invariant.
LEMMA SweptEnd ==
    ASSUME DispatchInv, NEW r \in Runs, Ends(r, "done"),
           MarkExpiredClaims \/ UNCHANGED queueVars,
           Cancelled(r) \/ UNCHANGED <<permit, expired>>,
           charged' = charged, transports' = transports
    PROVE  DispatchInv'
<1>1. QueueTypeOK
    BY DEF DispatchInv, TypeOK
<1>2. RowsKept(Runs \ {r}) /\ QueueTypeOK'
    <2>1. CASE MarkExpiredClaims
        BY <1>1, <2>1, SweepKeeps, SweepType DEF RowsKept
    <2>2. CASE UNCHANGED queueVars
        BY <1>1, <2>2 DEF RowsKept, queueVars, QueueTypeOK, MembersIn, Holds
    <2> QED
        BY <2>1, <2>2
<1> QED
    BY <1>2, EndStep

\* The claim of a member keeps the invariant.
LEMMA ClaimAction ==
    ASSUME DispatchInv, NEW r \in Runs, ClaimMember(r)
    PROVE  DispatchInv'
<1>1. TypeOK /\ QueueTypeOK /\ r \in Claims
    BY DispatchAssumption DEF DispatchInv, TypeOK
<1>2. run[r].step = "admitted" /\ charged' = charged /\ transports' = transports
    BY DEF ClaimMember, At
<1>3. run[r].member \in Members
    BY <1>2 DEF DispatchInv, MembersKnown, MemberOf
<1>4. CASE Claim(MemberOf(r), r) /\ Goes(r, "claimed") /\ UNCHANGED <<permit, expired>>
    <2>1. /\ RowsKept(Runs) /\ QueueTypeOK'
          /\ row'[run[r].member].state = "claimed" /\ row'[run[r].member].claim = r
          /\ run[r].member \notin lapsed'
        BY <1>1, <1>3, <1>4, ClaimKeeps, ClaimType DEF MemberOf
    <2>2. /\ run' \in [Runs -> RunRecords] /\ \A s \in Runs \ {r} : run'[s] = run[s]
          /\ run'[r].step = "claimed" /\ run'[r].member = run[r].member
        BY <1>1, <1>4, GoesType DEF Steps
    <2>3. TypeOK'
        BY <1>1, <1>2, <1>4, <2>1, <2>2 DEF TypeOK, Live
    <2>4. MembersKnown'
        BY <1>3, <2>2 DEF DispatchInv, MembersKnown, MemberOf
    <2>5. \A s \in Runs \ {r} : run'[s].step \in Working =>
            /\ run[s].member \in Members
            /\ row[run[s].member].claim = s /\ row[run[s].member].state # "queued"
        BY <2>2 DEF DispatchInv, MembersKnown, ClaimsKept, MemberOf
    <2>6. ClaimsKept'
        <3> SUFFICES ASSUME NEW s \in Runs, run'[s].step \in Working
                     PROVE  /\ row'[run'[s].member].claim = s
                            /\ row'[run'[s].member].state # "queued"
            BY DEF ClaimsKept, MemberOf
        <3>1. CASE s = r
            BY <2>1, <2>2, <3>1
        <3>2. CASE s # r
            BY <2>1, <2>2, <2>5, <3>2 DEF RowsKept
        <3> QED
            BY <3>1, <3>2
    <2>7. LeasesLast'
        <3> SUFFICES ASSUME NEW s \in Runs, run'[s].step \in Unsent,
                            permit'[s] = "granted", s \notin expired'
                     PROVE  /\ row'[run'[s].member].state = "claimed"
                            /\ row'[run'[s].member].claim = s
                            /\ run'[s].member \notin lapsed'
            BY DEF LeasesLast, Holds, MemberOf
        <3>1. CASE s = r
            BY <2>1, <2>2, <3>1
        <3>2. CASE s # r
            <4>1. permit[s] = "granted" /\ s \notin expired /\ run'[s].step \in Working
                BY <1>4 DEF Working
            <4>2. Holds(run[s].member, s) /\ run[s].member \notin lapsed
                BY <2>2, <3>2, <4>1 DEF DispatchInv, LeasesLast, MemberOf
            <4> QED
                BY <2>1, <2>2, <2>5, <3>2, <4>1, <4>2 DEF RowsKept
        <3> QED
            BY <3>1, <3>2
    <2>8. ChargesKnown'
        BY <1>2, <2>2 DEF DispatchInv, ChargesKnown, MemberOf, At
    <2> QED
        BY <2>3, <2>4, <2>6, <2>7, <2>8 DEF DispatchInv
<1>5. CASE /\ MarkExpiredClaims /\ Ends(r, "done")
           /\ Cancelled(r) \/ UNCHANGED <<permit, expired>>
    BY <1>2, <1>5, SweptEnd
<1> QED
    BY <1>4, <1>5 DEF ClaimMember

\* What a call tells the queue about its member, when it ends.
LEMMA HolderEnd ==
    ASSUME DispatchInv, NEW r \in Runs, Ends(r, "done"), run[r].member \in Members,
           \/ ReleaseBeforeDispatch(MemberOf(r), r) \/ RequireReconciliation(MemberOf(r), r)
           \/ \E to \in Terminal, cost \in Costs : CompleteOrFail(MemberOf(r), r, to, cost),
           Cancelled(r) \/ UNCHANGED <<permit, expired>>,
           charged' = charged, transports' = transports
    PROVE  DispatchInv'
<1>1. QueueTypeOK /\ MemberOf(r) \in Members
    BY DEF DispatchInv, TypeOK, MemberOf
<1>2. RowsKept(Runs \ {r})
    BY <1>1, HolderKeeps
<1>3. QueueTypeOK'
    BY <1>1, ReleaseType, ReconciliationType, SettlementType
<1> QED
    BY <1>2, <1>3, EndStep

\* The ways a claim ends keep the invariant.
LEMMA EndActions ==
    ASSUME DispatchInv, NEW r \in Runs,
           Recheck(r) \/ ReleaseClaim(r) \/ Reconcile(r) \/ Settle(r)
    PROVE  DispatchInv'
<1>1. TypeOK /\ QueueTypeOK
    BY DEF DispatchInv, TypeOK
<1>2. run[r].step \in Working /\ charged' = charged /\ transports' = transports
    BY DEF Recheck, ReleaseClaim, Reconcile, Settle, At, Working, Unsent
<1>3. run[r].member \in Members
    BY <1>2 DEF DispatchInv, MembersKnown, MemberOf
<1>4. CASE Recheck(r)
    <2>1. CASE Goes(r, "invoking") /\ UNCHANGED <<queueVars, permit, expired>>
        <3>1. RunChange(r)
            BY <1>1, <1>4, <2>1, GoesType DEF RunChange, Steps, Working, Unsent, Recheck, At
        <3>2. PermitChange
            BY <1>1, <2>1, PermitSteps DEF Phases
        <3>3. UNCHANGED <<queueVars, charged>> /\ transports' \in [Members -> Nat]
            BY <1>1, <1>2, <2>1 DEF TypeOK
        <3> QED
            BY <3>1, <3>2, <3>3, LocalStep
    <2>2. CASE /\ Ends(r, "done")
               /\ RequireReconciliation(MemberOf(r), r) \/ UNCHANGED queueVars
               /\ Cancelled(r) \/ UNCHANGED <<permit, expired>>
        BY <1>2, <1>3, <2>2, HolderEnd, SweptEnd
    <2> QED
        BY <1>4, <2>1, <2>2 DEF Recheck, queueVars
<1>5. CASE ReleaseClaim(r) \/ Reconcile(r)
    <2>1. /\ Ends(r, "done") /\ UNCHANGED <<permit, expired>>
          /\ \/ ReleaseBeforeDispatch(MemberOf(r), r)
             \/ RequireReconciliation(MemberOf(r), r)
             \/ UNCHANGED queueVars
        BY <1>5 DEF ReleaseClaim, Reconcile
    <2> QED
        BY <1>2, <1>3, <2>1, HolderEnd, SweptEnd
<1>6. CASE Settle(r)
    <2>1. run[r].cost \in Costs
        BY <1>1, <1>6 DEF DispatchInv, ChargesKnown, TypeOK, RunRecords, Settle, At
    <2>2. /\ Ends(r, "done") /\ UNCHANGED <<permit, expired>>
          /\ \/ \E to \in Terminal : CompleteOrFail(MemberOf(r), r, to, run[r].cost)
             \/ UNCHANGED queueVars
        BY <1>6 DEF Settle, Terminal
    <2> QED
        BY <1>2, <1>3, <2>1, <2>2, HolderEnd, SweptEnd
<1> QED
    BY <1>4, <1>5, <1>6

\* No two runs work on one member, so a charge is not overwritten.
LEMMA ChargeAction ==
    ASSUME DispatchInv, NEW r \in Runs, Charge(r)
    PROVE  DispatchInv'
<1>1. TypeOK /\ run[r] \in RunRecords
    BY DEF DispatchInv, TypeOK
<1>2. /\ run[r].step = "returned" /\ UNCHANGED <<queueVars, permit, expired, transports>>
      /\ run[r].persisted /\ run[r].net # "unknown" /\ run[r].cost # None
    BY DEF Charge, At, Complete
<1>3. run[r].member \in Members
    BY <1>2 DEF DispatchInv, MembersKnown, MemberOf, Working
<1>4. charged' = [charged EXCEPT ![run[r].member] = run[r].cost]
    BY DEF Charge, NewCharge, MemberOf
<1>5. PICK new \in RunRecords :
        /\ run' = [run EXCEPT ![r] = new]
        /\ new.step \in {"charged", "returned"} /\ new.member = run[r].member
        /\ new.persisted = run[r].persisted /\ new.net = run[r].net /\ new.cost = run[r].cost
    <2>1. CASE run' = [run EXCEPT ![r].step = "charged"]
        <3> DEFINE new == [run[r] EXCEPT !.step = "charged"]
        <3>1. /\ new \in RunRecords /\ new.step = "charged" /\ new.member = run[r].member
              /\ new.persisted = run[r].persisted /\ new.net = run[r].net /\ new.cost = run[r].cost
            BY <1>1 DEF RunRecords, Steps
        <3>2. run' = [run EXCEPT ![r] = new]
            BY <2>1
        <3> HIDE DEF new
        <3> QED
            BY <3>1, <3>2
    <2>2. CASE run' = [run EXCEPT ![r].result = FALSE]
        <3> DEFINE new == [run[r] EXCEPT !.result = FALSE]
        <3>1. /\ new \in RunRecords /\ new.step = "returned" /\ new.member = run[r].member
              /\ new.persisted = run[r].persisted /\ new.net = run[r].net /\ new.cost = run[r].cost
            BY <1>1, <1>2 DEF RunRecords
        <3>2. run' = [run EXCEPT ![r] = new]
            BY <2>2
        <3> HIDE DEF new
        <3> QED
            BY <3>1, <3>2
    <2> QED
        BY <2>1, <2>2 DEF Charge
<1>6. /\ run' \in [Runs -> RunRecords] /\ run'[r] = new
      /\ \A s \in Runs \ {r} : run'[s] = run[s]
    BY <1>1, <1>5, RunSteps
<1>7. TypeOK'
    <2>1. charged' \in [Members -> Costs \cup {None}]
        BY <1>1, <1>4 DEF TypeOK, RunRecords
    <2>2. QueueTypeOK'
        BY <1>1, <1>2 DEF TypeOK, QueueTypeOK, queueVars, MembersIn
    <2> QED
        BY <1>1, <1>2, <1>6, <2>1, <2>2 DEF TypeOK, Live
<1>8. MembersKnown'
    BY <1>3, <1>5, <1>6 DEF DispatchInv, MembersKnown, MemberOf
<1>9. ClaimsKept'
    BY <1>2, <1>5, <1>6 DEF DispatchInv, ClaimsKept, MemberOf, queueVars, Working
<1>10. LeasesLast'
    <2>1. \A s \in Runs : run'[s].step \in Unsent => run'[s] = run[s]
        BY <1>5, <1>6 DEF Unsent
    <2> QED
        BY <1>2, <2>1 DEF DispatchInv, LeasesLast, MemberOf, Holds, queueVars
<1>11. ChargesKnown'
    <2> SUFFICES ASSUME NEW s \in Runs, run'[s].step = "charged"
                 PROVE  /\ run'[s].persisted /\ run'[s].net # "unknown" /\ run'[s].cost # None
                        /\ charged'[run'[s].member] = run'[s].cost
        BY DEF ChargesKnown, At, MemberOf
    <2>1. CASE s = r
        BY <1>1, <1>2, <1>3, <1>4, <1>5, <1>6, <2>1 DEF TypeOK
    <2>2. CASE s # r
        <3>1. /\ run'[s] = run[s] /\ run[s].step = "charged" /\ run[s].member \in Members
              /\ row[run[s].member].claim = s
            BY <1>6, <2>2 DEF DispatchInv, MembersKnown, ClaimsKept, MemberOf, Working
        <3>2. row[run[r].member].claim = r
            BY <1>2 DEF DispatchInv, ClaimsKept, MemberOf, Working
        <3>3. charged'[run[s].member] = charged[run[s].member]
            BY <1>1, <1>4, <2>2, <3>1, <3>2 DEF TypeOK
        <3> QED
            BY <3>1, <3>3 DEF DispatchInv, ChargesKnown, At, MemberOf
    <2> QED
        BY <2>1, <2>2
<1> QED
    BY <1>7, <1>8, <1>9, <1>10, <1>11 DEF DispatchInv

\* What operators and time do keeps the invariant.
LEMMA OperateAction ==
    ASSUME DispatchInv, Operate, UNCHANGED <<run, permit, expired, charged, transports>>
    PROVE  DispatchInv'
<1>1. TypeOK /\ QueueTypeOK
    BY DEF DispatchInv, TypeOK
<1>2. RowsKept(Runs) /\ QueueTypeOK'
    <2>1. CASE MarkExpiredClaims
        BY <1>1, <2>1, SweepKeeps, SweepType
    <2>2. CASE AuthorityEnds
        BY <1>1, <2>2 DEF AuthorityEnds, QueueTypeOK, MembersIn, RowsKept, Holds
    <2>3. ASSUME NEW m \in Members,
                 ClaimLapses(m) \/ ResolutionRevokes(m) \/ ResolutionSettles(m)
          PROVE  RowsKept(Runs) /\ QueueTypeOK'
        BY <1>1, <2>3, OperatorKeeps, OperatorType DEF ClaimLapses
    <2> QED
        BY <2>1, <2>2, <2>3 DEF Operate
<1>3. PermitChange
    BY <1>1 DEF PermitChange, TypeOK, Live
<1> QED
    BY <1>1, <1>2, <1>3, QueueStep DEF TypeOK

\* The invariant holds initially.
LEMMA InitDispatch == Init => DispatchInv
<1> SUFFICES ASSUME Init PROVE DispatchInv
    OBVIOUS
<1>1. Queued \in Rows /\ Queued.state = "queued" /\ Queued.cost = None
    BY DEF Queued, Rows, QueueStates
<1>2. NewRun \in RunRecords /\ NewRun.step = "idle"
    BY DEF NewRun, RunRecords, Steps
<1>3. QueueTypeOK
    BY <1>1 DEF Init, QueueInit, QueueTypeOK, MembersIn, Terminal
<1>4. TypeOK
    BY <1>2, <1>3 DEF Init, TypeOK, Phases
<1>5. \A s \in Runs : run[s].step = "idle"
    BY <1>2 DEF Init
<1> QED
    BY <1>4, <1>5
    DEF DispatchInv, MembersKnown, ClaimsKept, LeasesLast, ChargesKnown, At, Working, Unsent

\* Every step keeps the invariant.
LEMMA NextDispatch == DispatchInv /\ [Next]_vars => DispatchInv'
<1> SUFFICES ASSUME DispatchInv, [Next]_vars PROVE DispatchInv'
    OBVIOUS
<1>1. CASE Operate /\ UNCHANGED <<run, permit, expired, charged, transports>>
    BY <1>1, OperateAction
<1>2. ASSUME NEW r \in Runs,
             TtlPasses(r) \/ PermitSwept(r) \/ PermitResolved(r)
      PROVE  DispatchInv'
    BY <1>2, PermitActions
<1>3. ASSUME NEW r \in Runs, Preflight(r) \/ Admit(r) \/ Crash(r)
      PROVE  DispatchInv'
    BY <1>3, CallActions
<1>4. ASSUME NEW r \in Runs,
             \/ Refused(r) \/ StartRun(r) \/ DispatchUnrecorded(r) \/ ReadClock(r)
             \/ BeginTransport(r) \/ TransportRefused(r) \/ Answer(r) \/ Finish(r)
      PROVE  DispatchInv'
    BY <1>4, InvokeActions
<1>5. ASSUME NEW r \in Runs,
             \/ Peek(r) \/ ClaimMember(r) \/ Charge(r)
             \/ Recheck(r) \/ ReleaseClaim(r) \/ Reconcile(r) \/ Settle(r)
      PROVE  DispatchInv'
    BY <1>5, PeekAction, ClaimAction, ChargeAction, EndActions
<1>6. CASE UNCHANGED vars
    BY <1>6 DEF vars, queueVars, DispatchInv, TypeOK, QueueTypeOK, MembersIn, Live,
                MembersKnown, ClaimsKept, LeasesLast, ChargesKnown, At, MemberOf, Holds
<1> QED
    BY <1>1, <1>2, <1>3, <1>4, <1>5, <1>6 DEF Next

\* The invariant holds in every state of the dispatcher.
LEMMA DispatchInvariant == Spec => []DispatchInv
BY InitDispatch, NextDispatch, PTL DEF Spec

(***************************************************************************)
(* Theorems about every step.                                              *)
(***************************************************************************)
\* The control flow of one call.
Edges ==
    { <<"idle", "checked">>, <<"checked", "peeked">>, <<"peeked", "admitted">>,
      <<"admitted", "claimed">>, <<"claimed", "invoking">>, <<"invoking", "returned">>,
      <<"invoking", "started">>, <<"started", "returned">>, <<"started", "entering">>,
      <<"started", "answered">>, <<"entering", "sending">>, <<"entering", "answered">>,
      <<"sending", "answered">>, <<"answered", "returned">>,
      <<"returned", "charged">>, <<"returned", "returned">> }

\* A call is over, or takes an edge, on which it forgets nothing.
CallStep(r) ==
    /\ \A s \in Runs \ {r} : run'[s] = run[s]
    /\ \/ run'[r].step \in {"idle", "done", "crashed"} /\ ~run'[r].sent
       \/ /\ <<run[r].step, run'[r].step>> \in Edges
          /\ run[r].step # "checked" => run'[r].member = run[r].member
          /\ run'[r].sent = (run[r].sent \/ run'[r].step = "started")
          /\ run'[r].step = "claimed" => Claim(MemberOf(r), r)
          /\ run'[r].step = "entering" => ReadClock(r)
          /\ run'[r].step = "sending" => BeginTransport(r)

\* The end of a call, or the start of a new one, is a step of its control flow.
LEMMA OverStep ==
    ASSUME TypeOK, NEW r \in Runs,
           Ends(r, "done") \/ Ends(r, "crashed") \/ run' = [run EXCEPT ![r] = NewRun]
    PROVE  CallStep(r)
<1>1. ASSUME NEW new, run' = [run EXCEPT ![r] = new],
             new.step \in {"idle", "done", "crashed"}, ~new.sent
      PROVE  CallStep(r)
    BY <1>1 DEF TypeOK, CallStep
<1>2. ASSUME NEW how \in {"done", "crashed"}, Ends(r, how)
      PROVE  CallStep(r)
    <2> DEFINE new == [NewRun EXCEPT !.step = how]
    <2>1. run' = [run EXCEPT ![r] = new]
        BY <1>2 DEF Ends
    <2>2. new.step = how /\ ~new.sent
        BY DEF NewRun
    <2> HIDE DEF new
    <2> QED
        BY <1>1, <2>1, <2>2
<1>3. NewRun.step = "idle" /\ ~NewRun.sent
    BY DEF NewRun
<1> QED
    BY <1>1, <1>2, <1>3

\* So is going on along an edge,
LEMMA GoesStep ==
    ASSUME TypeOK, NEW r \in Runs, NEW step \in Steps, Goes(r, step),
           <<run[r].step, step>> \in Edges, step \notin {"started", "claimed", "entering", "sending"}
    PROVE  CallStep(r)
<1>1. /\ run'[r].step = step /\ run'[r].member = run[r].member /\ run'[r].sent = run[r].sent
      /\ run[r].sent \in BOOLEAN
      /\ \A s \in Runs \ {r} : run'[s] = run[s]
    <2>1. [run[r] EXCEPT !.step = step].sent = run[r].sent /\ run[r].sent \in BOOLEAN
        BY DEF TypeOK, RunRecords
    <2>2. run'[r] = [run[r] EXCEPT !.step = step]
        BY DEF TypeOK, Goes
    <2> QED
        BY <2>1, <2>2, GoesType
<1> QED
    BY <1>1 DEF CallStep

\* also with a new member or the first event sent.
LEMMA EdgeStep ==
    ASSUME TypeOK, NEW r \in Runs, NEW new, run' = [run EXCEPT ![r] = new],
           <<run[r].step, new.step>> \in Edges, new.step \notin {"claimed", "entering", "sending"},
           run[r].step # "checked" => new.member = run[r].member,
           new.sent = (run[r].sent \/ new.step = "started")
    PROVE  CallStep(r)
BY DEF TypeOK, CallStep

\* Every step of run r follows its control flow.
LEMMA CallSteps ==
    ASSUME DispatchInv, NEW r \in Runs,
           \/ Preflight(r) \/ Peek(r) \/ Admit(r) \/ ClaimMember(r) \/ Recheck(r)
           \/ Refused(r) \/ StartRun(r) \/ DispatchUnrecorded(r) \/ ReadClock(r)
           \/ BeginTransport(r) \/ TransportRefused(r) \/ Answer(r) \/ Finish(r) \/ ReleaseClaim(r)
           \/ Reconcile(r) \/ Charge(r) \/ Settle(r) \/ Crash(r)
    PROVE  CallStep(r)
<1>1. TypeOK /\ run[r] \in RunRecords /\ run[r].sent \in BOOLEAN
    BY DEF DispatchInv, TypeOK, RunRecords
<1> USE DEF Edges
<1>2. CASE Preflight(r) \/ Admit(r)
    BY <1>1, <1>2, GoesStep DEF Preflight, Admit, At, Steps
<1>3. CASE Peek(r)
    <2>1. CASE authority = "valid" /\ FirstQueued # {}
        <3>1. PICK m : run' = [run EXCEPT ![r].step = "peeked", ![r].member = m]
            BY <1>3, <2>1 DEF Peek
        <3> DEFINE new == [run[r] EXCEPT !.step = "peeked", !.member = m]
        <3>2. run' = [run EXCEPT ![r] = new] /\ run[r].step = "checked"
            BY <1>1, <1>3, <3>1 DEF TypeOK, Peek, At
        <3>3. new.step = "peeked" /\ new.sent = run[r].sent
            BY <1>1 DEF RunRecords
        <3> HIDE DEF new
        <3> QED
            BY <1>1, <3>2, <3>3, EdgeStep
    <2> QED
        BY <1>1, <1>3, <2>1, OverStep DEF Peek
<1>4. CASE ClaimMember(r)
    <2>1. CASE Claim(MemberOf(r), r) /\ Goes(r, "claimed")
        <3>1. run[r].step = "admitted"
            BY <1>4 DEF ClaimMember, At
        <3>2. /\ run'[r].step = "claimed" /\ run'[r].member = run[r].member
              /\ run'[r].sent = run[r].sent
            <4>1. /\ [run[r] EXCEPT !.step = "claimed"].sent = run[r].sent
                  /\ run'[r] = [run[r] EXCEPT !.step = "claimed"]
                BY <1>1, <2>1 DEF RunRecords, TypeOK, Goes
            <4> QED
                BY <1>1, <2>1, <4>1, GoesType DEF Steps
        <3>3. \A s \in Runs \ {r} : run'[s] = run[s]
            BY <1>1, <2>1, GoesType DEF Steps
        <3> QED
            BY <1>1, <2>1, <3>1, <3>2, <3>3 DEF CallStep
    <2> QED
        BY <1>1, <1>4, <2>1, OverStep DEF ClaimMember
<1>5. CASE Recheck(r)
    BY <1>1, <1>5, GoesStep, OverStep DEF Recheck, At, Steps
<1>6. CASE Refused(r) \/ DispatchUnrecorded(r)
    BY <1>1, <1>6, GoesStep DEF Refused, DispatchUnrecorded, At, Steps
<1>7. CASE StartRun(r)
    <2> DEFINE new == [run[r] EXCEPT !.step = "started", !.sent = TRUE]
    <2>1. run' = [run EXCEPT ![r] = new] /\ run[r].step = "invoking"
        BY <1>1, <1>7 DEF TypeOK, StartRun, At
    <2>2. new.step = "started" /\ new.sent = TRUE /\ new.member = run[r].member
        BY <1>1 DEF RunRecords
    <2> HIDE DEF new
    <2> QED
        BY <1>1, <2>1, <2>2, EdgeStep
<1>8. CASE ReadClock(r) \/ BeginTransport(r)
    <2>1. PICK step \in {"entering", "sending"} :
            /\ Goes(r, step) /\ <<run[r].step, step>> \in Edges
            /\ IF step = "entering" THEN ReadClock(r) ELSE BeginTransport(r)
        BY <1>8 DEF ReadClock, BeginTransport, At
    <2>2. /\ [run[r] EXCEPT !.step = step].sent = run[r].sent
          /\ run'[r] = [run[r] EXCEPT !.step = step]
        BY <1>1, <2>1 DEF RunRecords, TypeOK, Goes
    <2>3. /\ run'[r].step = step /\ run'[r].member = run[r].member
          /\ \A s \in Runs \ {r} : run'[s] = run[s]
        BY <1>1, <2>1, GoesType DEF Steps
    <2> QED
        BY <1>1, <2>1, <2>2, <2>3 DEF CallStep
<1>9. CASE TransportRefused(r)
    <2>1. PICK cost, persisted : run' = [run EXCEPT ![r].step = "answered", ![r].cost = cost,
                                                    ![r].persisted = persisted]
        BY <1>9 DEF TransportRefused
    <2> DEFINE new == [run[r] EXCEPT !.step = "answered", !.cost = cost, !.persisted = persisted]
    <2>2. run' = [run EXCEPT ![r] = new] /\ run[r].step \in {"started", "entering"}
        BY <1>1, <1>9, <2>1 DEF TransportRefused, At, TypeOK
    <2>3. new.step = "answered" /\ new.sent = run[r].sent /\ new.member = run[r].member
        BY <1>1 DEF RunRecords
    <2> HIDE DEF new
    <2> QED
        BY <1>1, <2>2, <2>3, EdgeStep
<1>10. CASE Answer(r)
    <2>1. PICK net, cost, persisted :
            run' = [run EXCEPT ![r].step = "answered", ![r].net = net, ![r].cost = cost,
                               ![r].persisted = persisted]
        BY <1>10 DEF Answer
    <2> DEFINE new == [run[r] EXCEPT !.step = "answered", !.net = net, !.cost = cost,
                                     !.persisted = persisted]
    <2>2. run' = [run EXCEPT ![r] = new] /\ run[r].step = "sending"
        BY <1>1, <1>10, <2>1 DEF Answer, At, TypeOK
    <2>3. new.step = "answered" /\ new.sent = run[r].sent /\ new.member = run[r].member
        BY <1>1 DEF RunRecords
    <2> HIDE DEF new
    <2> QED
        BY <1>1, <2>2, <2>3, EdgeStep
<1>11. CASE Finish(r)
    <2>1. PICK result : run' = [run EXCEPT ![r].step = "returned", ![r].result = result]
        BY <1>11 DEF Finish
    <2> DEFINE new == [run[r] EXCEPT !.step = "returned", !.result = result]
    <2>2. run' = [run EXCEPT ![r] = new] /\ run[r].step = "answered"
        BY <1>1, <1>11, <2>1 DEF Finish, At, TypeOK
    <2>3. new.step = "returned" /\ new.sent = run[r].sent /\ new.member = run[r].member
        BY <1>1 DEF RunRecords
    <2> HIDE DEF new
    <2> QED
        BY <1>1, <2>2, <2>3, EdgeStep
<1>12. CASE Charge(r)
    <2>1. CASE run' = [run EXCEPT ![r].step = "charged"]
        BY <1>1, <1>12, <2>1, GoesStep DEF Goes, Charge, At, Steps
    <2>2. CASE run' = [run EXCEPT ![r].result = FALSE]
        <3> DEFINE new == [run[r] EXCEPT !.result = FALSE]
        <3>1. run' = [run EXCEPT ![r] = new] /\ run[r].step = "returned"
            BY <1>12, <2>2 DEF Charge, At
        <3>2. new.step = "returned" /\ new.sent = run[r].sent /\ new.member = run[r].member
            BY <1>1, <3>1 DEF RunRecords
        <3> HIDE DEF new
        <3> QED
            BY <1>1, <3>1, <3>2, EdgeStep
    <2> QED
        BY <1>12, <2>1, <2>2 DEF Charge
<1>13. CASE ReleaseClaim(r) \/ Reconcile(r) \/ Settle(r) \/ Crash(r)
    BY <1>1, <1>13, OverStep DEF ReleaseClaim, Reconcile, Settle, Crash
<1> QED
    BY <1>2, <1>3, <1>4, <1>5, <1>6, <1>7, <1>8, <1>9, <1>10, <1>11, <1>12, <1>13

\* One run at a time, and only begin_transport counts a transport.
LEMMA RunStep ==
    ASSUME DispatchInv, [Next]_vars
    PROVE  \/ run' = run /\ transports' = transports
           \/ \E r \in Runs : CallStep(r) /\ (BeginTransport(r) \/ transports' = transports)
<1>1. CASE Operate /\ UNCHANGED <<run, permit, expired, charged, transports>>
    BY <1>1
<1>2. ASSUME NEW r \in Runs, TtlPasses(r) \/ PermitSwept(r) \/ PermitResolved(r)
      PROVE  run' = run /\ transports' = transports
    BY <1>2 DEF TtlPasses, PermitSwept, PermitResolved
<1>3. ASSUME NEW r \in Runs,
             \/ Preflight(r) \/ Peek(r) \/ Admit(r) \/ ClaimMember(r) \/ Recheck(r)
             \/ Refused(r) \/ StartRun(r) \/ DispatchUnrecorded(r) \/ ReadClock(r)
             \/ BeginTransport(r) \/ TransportRefused(r) \/ Answer(r) \/ Finish(r) \/ ReleaseClaim(r)
             \/ Reconcile(r) \/ Charge(r) \/ Settle(r) \/ Crash(r)
      PROVE  CallStep(r) /\ (BeginTransport(r) \/ transports' = transports)
    <2>1. CallStep(r)
        BY <1>3, CallSteps
    <2>2. BeginTransport(r) \/ transports' = transports
        BY <1>3 DEF Preflight, Peek, Admit, ClaimMember, Recheck, Refused, StartRun,
                    DispatchUnrecorded, ReadClock, TransportRefused, Answer, Finish,
                    ReleaseClaim, Reconcile, Charge, Settle, Crash, outside
    <2> QED
        BY <2>1, <2>2
<1>4. CASE UNCHANGED vars
    BY <1>4 DEF vars
<1> QED
    BY <1>1, <1>2, <1>3, <1>4 DEF Next

\* How a member's row may change.
RowStep(m) ==
    \/ row'[m] = row[m]
    \/ row[m].state = "queued" /\ row'[m].state = "claimed"
    \/ row[m].state = "claimed" /\ row'[m].state = "reconciliation_required"
    \/ row[m].state = "reconciliation_required" /\ row'[m].state \in Terminal
    \/ row[m].state = "claimed" /\ \E r \in Runs : ReleaseClaim(r) /\ MemberOf(r) = m
    \/ /\ row[m].state = "claimed" /\ row'[m].state \in Terminal
       /\ \E r \in Runs : /\ At(r, "charged") /\ MemberOf(r) = m /\ row[m].claim = r
                         /\ row'[m].cost = run[r].cost /\ row'[m].cost <= Ceiling[m]
                         /\ charged' = charged

\* Every step moves the row of a member as the claim queue allows.
LEMMA RowSteps ==
    ASSUME DispatchInv, [Next]_vars, NEW m \in Members
    PROVE  RowStep(m)
<1>1. QueueTypeOK /\ TypeOK
    BY DEF DispatchInv, TypeOK
<1>2. ASSUME MarkExpiredClaims \/ UNCHANGED row
      PROVE  RowStep(m)
    BY <1>1, <1>2, SweptRows DEF RowStep, MarkExpiredClaims
<1>3. ASSUME NEW n \in Members, NEW r \in Runs, RequireReconciliation(n, r)
      PROVE  RowStep(m)
    <2>1. Holds(n, r) /\ row' = [row EXCEPT ![n] = Uncertain(n)]
        BY <1>3 DEF RequireReconciliation
    <2> QED
        BY <1>1, <2>1, HeldRow DEF RowStep, QueueTypeOK
<1>4. CASE Operate
    <2>1. ASSUME NEW n \in Members, ResolutionSettles(n) PROVE RowStep(m)
        <3>1. PICK to \in Terminal, cost \in Costs :
                row' = [row EXCEPT ![n].state = to, ![n].cost = cost]
            BY <2>1 DEF ResolutionSettles
        <3>2. row[n] \in Rows /\ row[n].state = "reconciliation_required"
            BY <1>1, <2>1 DEF ResolutionSettles, QueueTypeOK, MembersIn
        <3>3. row'[n].state = to /\ \A k \in Members \ {n} : row'[k] = row[k]
            BY <1>1, <3>1, <3>2 DEF QueueTypeOK, Rows
        <3> QED
            BY <3>2, <3>3 DEF RowStep
    <2>2. \/ \E n \in Members : ResolutionSettles(n)
          \/ MarkExpiredClaims \/ UNCHANGED row
        BY <1>4 DEF Operate, AuthorityEnds, ClaimLapses, LeaseLapses, ResolutionRevokes
    <2> QED
        BY <1>2, <2>1, <2>2
<1>5. ASSUME NEW r \in Runs, ClaimMember(r) PROVE RowStep(m)
    <2>1. MemberOf(r) \in Members /\ r \in Claims
        BY <1>5, DispatchAssumption DEF ClaimMember, At, DispatchInv, MembersKnown
    <2>2. CASE Claim(MemberOf(r), r)
        <3>1. row[MemberOf(r)].state = "queued"
            BY <2>2 DEF Claim, Claimable, FirstQueued, MembersIn
        <3>2. row' = [Swept EXCEPT ![MemberOf(r)] =
                          [state |-> "claimed", claim |-> r, cost |-> None]]
            BY <2>2 DEF Claim
        <3> QED
            BY <1>1, <2>1, <3>1, <3>2, SweptRows DEF RowStep
    <2> QED
        BY <1>2, <1>5, <2>2 DEF ClaimMember
<1>6. ASSUME NEW r \in Runs, Recheck(r) \/ ReleaseClaim(r) \/ Reconcile(r) \/ Settle(r)
      PROVE  RowStep(m)
    <2>1. MemberOf(r) \in Members
        BY <1>6 DEF Recheck, ReleaseClaim, Reconcile, Settle, At, Working, Unsent,
                    DispatchInv, MembersKnown
    <2>2. CASE Recheck(r) \/ Reconcile(r)
        BY <1>2, <1>3, <2>1, <2>2 DEF Recheck, Reconcile, queueVars
    <2>3. CASE ReleaseClaim(r)
        <3>1. CASE UNCHANGED queueVars
            BY <1>2, <3>1 DEF queueVars
        <3>2. CASE ReleaseBeforeDispatch(MemberOf(r), r)
            <4>1. /\ row[MemberOf(r)].state = "claimed"
                  /\ \E new : row' = [row EXCEPT ![MemberOf(r)] = new]
                BY <3>2 DEF ReleaseBeforeDispatch, Holds
            <4> QED
                BY <1>1, <2>1, <2>3, <4>1 DEF RowStep, QueueTypeOK
        <3> QED
            BY <2>3, <3>1, <3>2 DEF ReleaseClaim
    <2>4. CASE Settle(r)
        <3>1. CASE UNCHANGED queueVars
            BY <1>2, <3>1 DEF queueVars
        <3>2. ASSUME NEW to \in Terminal, CompleteOrFail(MemberOf(r), r, to, run[r].cost)
              PROVE  RowStep(m)
            <4>1. /\ Holds(MemberOf(r), r) /\ At(r, "charged") /\ charged' = charged
                  /\ row' = [row EXCEPT ![MemberOf(r)] =
                                IF Settles(MemberOf(r), run[r].cost)
                                THEN [row[MemberOf(r)] EXCEPT !.state = to, !.cost = run[r].cost]
                                ELSE Uncertain(MemberOf(r))]
                BY <2>4, <3>2 DEF CompleteOrFail, Settle
            <4>2. /\ row[MemberOf(r)] \in Rows /\ row[MemberOf(r)].state = "claimed"
                  /\ row[MemberOf(r)].claim = r
                  /\ Uncertain(MemberOf(r)).state = "reconciliation_required"
                BY <1>1, <2>1, <4>1, HeldRow
            <4>3. CASE Settles(MemberOf(r), run[r].cost)
                <5> DEFINE new == [row[MemberOf(r)] EXCEPT !.state = to, !.cost = run[r].cost]
                <5>1. new.state = to /\ new.cost = run[r].cost
                    BY <4>2 DEF Rows
                <5>2. row' = [row EXCEPT ![MemberOf(r)] = new] /\ run[r].cost <= Ceiling[MemberOf(r)]
                    BY <4>1, <4>3 DEF Settles
                <5> HIDE DEF new
                <5> QED
                    BY <1>1, <2>1, <4>1, <4>2, <5>1, <5>2 DEF RowStep, QueueTypeOK
            <4>4. CASE ~Settles(MemberOf(r), run[r].cost)
                BY <1>1, <2>1, <4>1, <4>2, <4>4 DEF RowStep, QueueTypeOK
            <4> QED
                BY <4>3, <4>4
        <3>3. \/ \E to \in Terminal : CompleteOrFail(MemberOf(r), r, to, run[r].cost)
              \/ UNCHANGED queueVars
            BY <2>4 DEF Settle, Terminal
        <3> QED
            BY <3>1, <3>2, <3>3
    <2> QED
        BY <1>6, <2>2, <2>3, <2>4
<1>7. ASSUME NEW r \in Runs,
             \/ TtlPasses(r) \/ PermitSwept(r) \/ PermitResolved(r) \/ Crash(r)
             \/ Preflight(r) \/ Peek(r) \/ Admit(r) \/ Refused(r) \/ StartRun(r)
             \/ DispatchUnrecorded(r) \/ ReadClock(r) \/ BeginTransport(r) \/ TransportRefused(r)
             \/ Answer(r) \/ Finish(r) \/ Charge(r)
      PROVE  RowStep(m)
    BY <1>2, <1>7 DEF TtlPasses, PermitSwept, PermitResolved, Crash, Preflight, Peek, Admit,
        Refused, StartRun, DispatchUnrecorded, ReadClock, BeginTransport, TransportRefused,
        Answer, Finish, Charge, outside, queueVars
<1>8. CASE UNCHANGED vars
    BY <1>2, <1>8 DEF vars, queueVars
<1> QED
    BY <1>4, <1>5, <1>6, <1>7, <1>8 DEF Next

\* A claim given back leaves its member unsettled.
LEMMA ReleaseNeverSettles ==
    ASSUME DispatchInv, NEW m \in Members, NEW r \in Runs, ReleaseClaim(r), MemberOf(r) = m,
           row[m].state = "claimed"
    PROVE  row'[m].state \notin Terminal
<1>1. QueueTypeOK
    BY DEF DispatchInv, TypeOK
<1>2. CASE ReleaseBeforeDispatch(m, r)
    <2> DEFINE new == IF m \in lapsed THEN Uncertain(m) ELSE Queued
    <2>1. Holds(m, r) /\ row' = [row EXCEPT ![m] = new]
        BY <1>2 DEF ReleaseBeforeDispatch
    <2>2. new.state \notin Terminal
        BY <1>1, <2>1, HeldRow DEF Queued, Terminal
    <2> HIDE DEF new
    <2> QED
        BY <1>1, <2>1, <2>2 DEF QueueTypeOK
<1>3. CASE UNCHANGED queueVars
    BY <1>3 DEF queueVars, Terminal
<1> QED
    BY <1>2, <1>3 DEF ReleaseClaim

(***************************************************************************)
(* The theorems.                                                           *)
(***************************************************************************)
\* Every row, and what every call knows, keeps its shape: no transaction of the
\* queue and no step of run_one leaves a row that claims without a holder, or a
\* lapsed or resolving mark on a row it does not belong to.
THEOREM DispatchTypeCorrect == Spec => []TypeOK
<1>1. DispatchInv => TypeOK
    BY DEF DispatchInv
<1>2. QED
    BY <1>1, DispatchInvariant, PTL

\* _transition's state guard: a settled row, whoever settled it, is never written
\* again, by a late worker, a sweep or a second operator.
THEOREM SettledStaysSettled == Spec => SettledForGood
<1>1. DispatchInv /\ [Next]_vars =>
        [\A m \in Members : row[m].state \in Terminal => row'[m] = row[m]]_vars
    BY RowSteps DEF RowStep, Terminal
<1>2. QED
    BY <1>1, DispatchInvariant, PTL DEF Spec, SettledForGood

\* run_one settles a claimed member only on the persisted answer of the run that
\* holds it, with that answer's cost and within the member's ceiling.
THEOREM SettlementHasEvidence == Spec => SettledByEvidence
<1>1. ASSUME DispatchInv, [Next]_vars, NEW m \in Members,
             row[m].state = "claimed", row'[m].state \in Terminal
      PROVE  \E r \in Runs :
                /\ row[m].claim = r /\ run[r].persisted /\ run[r].net # "unknown"
                /\ row'[m].cost = run[r].cost /\ row'[m].cost <= Ceiling[m]
    <2>1. RowStep(m)
        BY <1>1, RowSteps
    <2>2. ~ \E r \in Runs : ReleaseClaim(r) /\ MemberOf(r) = m
        BY <1>1, ReleaseNeverSettles
    <2>3. PICK r \in Runs :
            /\ At(r, "charged") /\ row[m].claim = r
            /\ row'[m].cost = run[r].cost /\ row'[m].cost <= Ceiling[m]
        BY <1>1, <2>1, <2>2 DEF RowStep, Terminal
    <2>4. run[r].persisted /\ run[r].net # "unknown"
        BY <1>1, <2>3 DEF DispatchInv, ChargesKnown
    <2>5. QED
        BY <2>3, <2>4
<1>2. DispatchInv /\ [Next]_vars =>
        [\A m \in Members :
            row[m].state = "claimed" /\ row'[m].state \in Terminal =>
                \E r \in Runs :
                    /\ row[m].claim = r /\ run[r].persisted /\ run[r].net # "unknown"
                    /\ row'[m].cost = run[r].cost /\ row'[m].cost <= Ceiling[m]]_vars
    BY <1>1
<1>3. QED
    BY <1>2, DispatchInvariant, PTL DEF Spec, SettledByEvidence

\* record_plan_cost comes before complete and fail: a claimed member is settled
\* with exactly the cost that the plan was charged for it.
THEOREM SettlementIsCharged == Spec => SettledIsCharged
<1>1. ASSUME DispatchInv, [Next]_vars, NEW m \in Members,
             row[m].state = "claimed", row'[m].state \in Terminal
      PROVE  charged[m] = row'[m].cost
    <2>1. RowStep(m)
        BY <1>1, RowSteps
    <2>2. ~ \E r \in Runs : ReleaseClaim(r) /\ MemberOf(r) = m
        BY <1>1, ReleaseNeverSettles
    <2>3. PICK r \in Runs :
            At(r, "charged") /\ MemberOf(r) = m /\ row'[m].cost = run[r].cost
        BY <1>1, <2>1, <2>2 DEF RowStep, Terminal
    <2>4. QED
        BY <1>1, <2>3 DEF DispatchInv, ChargesKnown
<1>2. DispatchInv /\ [Next]_vars =>
        [\A m \in Members :
            row[m].state = "claimed" /\ row'[m].state \in Terminal
                => charged[m] = row'[m].cost]_vars
    BY <1>1
<1>3. QED
    BY <1>2, DispatchInvariant, PTL DEF Spec, SettledIsCharged

\* A grant that is in time means an unexpired lease, so a worker holds its member when
\* begin_transport reads its clock, and goes on holding it while the grant is in time; a
\* worker that stalls before the lock may send late, but its member is never queued
\* again and never another run's.
THEOREM NoStraySends == Spec => NoStraySend
<1>1. ASSUME DispatchInv, [Next]_vars, NEW r \in Runs,
             At(r, "started"), run'[r].step = "entering", permit[r] = "granted"
      PROVE  Holds(MemberOf(r), r)
    <2>1. PICK s \in Runs : CallStep(s)
        BY <1>1, RunStep DEF At
    <2>2. s = r
        BY <1>1, <2>1 DEF CallStep, At
    <2>3. ReadClock(r)
        BY <1>1, <2>1, <2>2 DEF CallStep
    <2>4. QED
        BY <1>1, <2>3 DEF ReadClock, InTime, At, DispatchInv, LeasesLast, Unsent
<1>2. ASSUME DispatchInv, [Next]_vars, NEW r \in Runs,
             At(r, "entering"), run'[r].step = "sending"
      PROVE  /\ row[MemberOf(r)].claim = r /\ row[MemberOf(r)].state # "queued"
             /\ r \notin expired => Holds(MemberOf(r), r)
    <2>1. PICK s \in Runs : CallStep(s)
        BY <1>2, RunStep DEF At
    <2>2. s = r
        BY <1>2, <2>1 DEF CallStep, At
    <2>3. permit[r] = "granted"
        BY <1>2, <2>1, <2>2 DEF CallStep, BeginTransport, MayTransport
    <2>4. QED
        BY <1>2, <2>3 DEF At, DispatchInv, ClaimsKept, LeasesLast, Working, Unsent
<1>3. DispatchInv /\ [Next]_vars =>
        [\A r \in Runs :
            /\ At(r, "started") /\ run'[r].step = "entering" /\ permit[r] = "granted"
                => Holds(MemberOf(r), r)
            /\ At(r, "entering") /\ run'[r].step = "sending" =>
                /\ row[MemberOf(r)].claim = r /\ row[MemberOf(r)].state # "queued"
                /\ r \notin expired => Holds(MemberOf(r), r)]_vars
    BY <1>1, <1>2
<1>4. QED
    BY <1>3, DispatchInvariant, PTL DEF Spec, NoStraySend

(***************************************************************************)
(* One attempt: while the dispatch events can be read, a member whose row  *)
(* is queued, or whose run has stored no dispatch event, was never sent.   *)
(***************************************************************************)
\* The dispatch event is stored before the transport begins.
EventsFirst ==
    \A r \in Runs :
        /\ run[r].step \in {"started", "entering", "sending"} => run[r].sent
        /\ run[r].step \in {"idle", "checked", "peeked", "admitted", "claimed", "invoking"}
            => ~run[r].sent

QueuedUnsent ==
    \A m \in Members :
        transports[m] = 0 \/ (transports[m] = 1 /\ row[m].state # "queued")

WorkersUnsent ==
    \A r \in Runs :
        run[r].step \in Working /\ (~run[r].sent \/ run[r].step \in {"started", "entering"})
            => transports[MemberOf(r)] = 0

AttemptsKept == EventsFirst /\ QueuedUnsent /\ WorkersUnsent

\* Every step keeps an attempt behind its start event.
LEMMA EventsStep ==
    ASSUME DispatchInv, EventsFirst, [Next]_vars
    PROVE  EventsFirst'
<1>1. CASE run' = run
    BY <1>1 DEF EventsFirst
<1>2. ASSUME NEW r \in Runs, CallStep(r) PROVE EventsFirst'
    <2>1. ASSUME NEW s \in Runs \ {r}
          PROVE  /\ run'[s].step \in {"started", "entering", "sending"} => run'[s].sent
                 /\ run'[s].step \in
                        {"idle", "checked", "peeked", "admitted", "claimed", "invoking"}
                        => ~run'[s].sent
        BY <1>2, <2>1 DEF CallStep, EventsFirst
    <2>2. /\ run'[r].step \in {"started", "entering", "sending"} => run'[r].sent
          /\ run'[r].step \in
                {"idle", "checked", "peeked", "admitted", "claimed", "invoking"}
                => ~run'[r].sent
        BY <1>2 DEF CallStep, EventsFirst, Edges
    <2> QED
        BY <2>1, <2>2 DEF EventsFirst
<1> QED
    BY <1>1, <1>2, RunStep

\* begin_transport is the first for its member, and the member's row is not queued.
LEMMA SendingStep ==
    ASSUME DispatchInv, AttemptsKept, NEW r \in Runs, BeginTransport(r), CallStep(r)
    PROVE  QueuedUnsent' /\ WorkersUnsent'
<1> DEFINE m == MemberOf(r)
<1>1. /\ run[r].step = "entering" /\ row' = row /\ run'[r].step = "sending" /\ run'[r].sent
      /\ transports' = [transports EXCEPT ![m] = @ + 1]
    <2>1. run[r].step = "entering" /\ Goes(r, "sending") /\ run[r].sent
        BY DEF BeginTransport, At, AttemptsKept, EventsFirst
    <2>2. run'[r].step = "sending"
        BY <2>1, GoesType DEF DispatchInv, Steps
    <2> QED
        BY <2>1, <2>2 DEF BeginTransport, CallStep, queueVars
<1>2. /\ m \in Members /\ transports[m] = 0 /\ row[m].claim = r /\ row[m].state # "queued"
      /\ transports \in [Members -> Nat]
    BY <1>1 DEF Working, Unsent, At, DispatchInv, MembersKnown, ClaimsKept,
                AttemptsKept, WorkersUnsent, TypeOK
<1>3. transports'[m] = 1 /\ \A n \in Members \ {m} : transports'[n] = transports[n]
    BY <1>1, <1>2
<1>4. QueuedUnsent'
    BY <1>1, <1>2, <1>3 DEF AttemptsKept, QueuedUnsent
<1>5. ASSUME NEW s \in Runs, run'[s].step \in Working, ~run'[s].sent \/ run'[s].step \in {"started", "entering"}
      PROVE  transports'[run'[s].member] = 0
    <2>1. s # r /\ run'[s] = run[s]
        BY <1>1, <1>5 DEF CallStep
    <2>2. MemberOf(s) \in Members /\ row[MemberOf(s)].claim = s /\ transports[MemberOf(s)] = 0
        BY <1>5, <2>1 DEF DispatchInv, MembersKnown, ClaimsKept, AttemptsKept, WorkersUnsent, At
    <2>3. MemberOf(s) # m
        BY <1>2, <2>1, <2>2
    <2> QED
        BY <1>3, <2>1, <2>2, <2>3 DEF MemberOf
<1>6. WorkersUnsent'
    BY <1>5 DEF WorkersUnsent, At, MemberOf
<1> QED
    BY <1>4, <1>6

\* Only a release returns a member to the queue, and only one nothing was sent for.
LEMMA QueuedStep ==
    ASSUME DispatchInv, AttemptsKept, [Next]_vars, ~EventReadFails, transports' = transports
    PROVE  QueuedUnsent'
<1> SUFFICES ASSUME NEW m \in Members, transports[m] # 0, row'[m].state = "queued"
             PROVE  FALSE
    BY DEF AttemptsKept, QueuedUnsent
<1>1. row[m].state # "queued"
    BY DEF AttemptsKept, QueuedUnsent
<1>2. PICK r \in Runs : ReleaseClaim(r) /\ MemberOf(r) = m
    BY <1>1, RowSteps DEF RowStep, Terminal
<1>3. ~run[r].sent /\ run[r].step \in Working
    BY <1>2 DEF ReleaseClaim, Dispatched, At, Working
<1> QED
    BY <1>2, <1>3 DEF AttemptsKept, WorkersUnsent

\* A claim is made of a queued member, and a run that has sent nothing goes on
\* having sent nothing.
LEMMA WorkersStep ==
    ASSUME DispatchInv, AttemptsKept, transports' = transports,
           run' = run \/ \E r \in Runs : CallStep(r)
    PROVE  WorkersUnsent'
<1>1. CASE run' = run
    BY <1>1 DEF AttemptsKept, WorkersUnsent, At, MemberOf
<1>2. ASSUME NEW r \in Runs, CallStep(r), NEW s \in Runs, run'[s].step \in Working,
             ~run'[s].sent \/ run'[s].step \in {"started", "entering"}
      PROVE  transports[run'[s].member] = 0
    <2>1. CASE s # r
        BY <1>2, <2>1 DEF CallStep, AttemptsKept, WorkersUnsent, At, MemberOf
    <2>2. CASE s = r /\ run'[r].step = "claimed"
        <3>1. Claim(MemberOf(r), r) /\ run'[r].member = run[r].member
            BY <1>2, <2>2 DEF CallStep, Edges
        <3>2. row[MemberOf(r)].state = "queued" /\ MemberOf(r) \in Members
            BY <3>1 DEF Claim, Claimable, FirstQueued, MembersIn
        <3> QED
            BY <2>2, <3>1, <3>2 DEF AttemptsKept, QueuedUnsent, MemberOf
    <2>3. CASE s = r /\ run'[r].step # "claimed"
        <3>1. /\ run[r].step \in Working /\ run'[r].member = run[r].member
              /\ ~run[r].sent \/ run[r].step \in {"started", "entering"}
            BY <1>2, <2>3 DEF CallStep, Edges, Working, Unsent, AttemptsKept, EventsFirst
        <3> QED
            BY <2>3, <3>1 DEF AttemptsKept, WorkersUnsent, At, MemberOf
    <2> QED
        BY <2>1, <2>2, <2>3
<1>3. ASSUME NEW r \in Runs, CallStep(r) PROVE WorkersUnsent'
    BY <1>2, <1>3 DEF WorkersUnsent, At, MemberOf
<1> QED
    BY <1>1, <1>3

AttemptInv == DispatchInv /\ (~EventReadFails => AttemptsKept)

\* The plan's queue gives a member to the provider at most once, as long as
\* _runtime_evidence can read what the run has stored: no release, expiry, crash,
\* sweep or operator opens a second attempt.
THEOREM AtMostOneAttempt == Spec => [](~EventReadFails => OneAttempt)
<1>1. Init => AttemptInv
    <2> SUFFICES ASSUME Init PROVE AttemptInv
        OBVIOUS
    <2>1. NewRun.step = "idle" /\ ~NewRun.sent
        BY DEF NewRun
    <2>2. AttemptsKept
        BY <2>1 DEF Init, AttemptsKept, EventsFirst, QueuedUnsent, WorkersUnsent, At,
                    Working, Unsent
    <2> QED
        BY <2>2, InitDispatch DEF AttemptInv
<1>2. AttemptInv /\ [Next]_vars => AttemptInv'
    <2> SUFFICES ASSUME AttemptInv, [Next]_vars PROVE AttemptInv'
        OBVIOUS
    <2>1. DispatchInv /\ DispatchInv'
        BY NextDispatch DEF AttemptInv
    <2>2. ASSUME ~EventReadFails PROVE AttemptsKept'
        <3>1. AttemptsKept /\ EventsFirst'
            BY <2>1, <2>2, EventsStep DEF AttemptInv, AttemptsKept
        <3>2. CASE transports' = transports
            <4>1. run' = run \/ \E r \in Runs : CallStep(r)
                BY <2>1, RunStep
            <4> QED
                BY <2>1, <2>2, <3>1, <3>2, <4>1, QueuedStep, WorkersStep DEF AttemptsKept
        <3>3. CASE \E r \in Runs : CallStep(r) /\ BeginTransport(r)
            BY <2>1, <3>1, <3>3, SendingStep DEF AttemptsKept
        <3> QED
            BY <2>1, <3>2, <3>3, RunStep
    <2> QED
        BY <2>1, <2>2 DEF AttemptInv
<1>3. AttemptInv => (~EventReadFails => OneAttempt)
    BY DEF AttemptInv, AttemptsKept, QueuedUnsent, OneAttempt
<1>4. QED
    BY <1>1, <1>2, <1>3, PTL DEF Spec

\* A settlement has its evidence, is charged and is never undone.
THEOREM SettlementsAreHeld == Spec => SettlementsHold
BY SettlementHasEvidence, SettlementIsCharged, SettledStaysSettled DEF SettlementsHold

(***************************************************************************)
(* The workers use admission as the ledger has it.                         *)
(***************************************************************************)
\* Before its admission a call holds no unit, and the units held fit the capacity.
Early == {"idle", "checked", "peeked"}
NothingEarly == \A r \in Runs : run[r].step \in Early => permit[r] = "none"
UnitsFit == Cardinality(Ledger!Holding(permit)) <= Capacity

\* What a permit may become outside try_admit.
LaterMoves ==
    { <<"granted", "dispatched">>, <<"granted", "closed">>, <<"dispatched", "closed">>,
      <<"dispatched", "unresolved">>, <<"unresolved", "closed">> }

\* A step moves at most one permit, and a call that is early has been so.
UnitStep(r) ==
    /\ \A s \in Runs \ {r} : run'[s] = run[s]
    /\ run'[r].step \in Early => run[r].step \in Early
    /\ \/ permit' = permit
       \/ /\ \E phase \in Phases : permit' = [permit EXCEPT ![r] = phase]
          /\ <<permit[r], permit'[r]>> \in LaterMoves \/ Admit(r)

\* cancel_before_transport moves a grant that was not used, and nothing else.
LEMMA CancelledMoves ==
    ASSUME TypeOK, NEW r \in Runs, Cancelled(r)
    PROVE  \/ permit' = permit
           \/ /\ \E phase \in Phases : permit' = [permit EXCEPT ![r] = phase]
              /\ <<permit[r], permit'[r]>> \in LaterMoves
BY DEF TypeOK, Cancelled, Becomes, LaterMoves, Phases

\* The steps of a call and of its permit.
LEMMA UnitSteps ==
    ASSUME TypeOK, [Next]_vars
    PROVE  \/ UNCHANGED <<run, permit>>
           \/ \E r \in Runs : UnitStep(r)
<1>1. ASSUME NEW r \in Runs, NEW new, run' = [run EXCEPT ![r] = new],
             new.step \in Early => run[r].step \in Early,
             \/ permit' = permit
             \/ /\ \E phase \in Phases : permit' = [permit EXCEPT ![r] = phase]
                /\ <<permit[r], permit'[r]>> \in LaterMoves \/ Admit(r)
      PROVE  UnitStep(r)
    BY <1>1 DEF TypeOK, UnitStep
<1>2. ASSUME NEW r \in Runs, NEW step, Goes(r, step), step \notin Early,
             \/ permit' = permit
             \/ /\ \E phase \in Phases : permit' = [permit EXCEPT ![r] = phase]
                /\ <<permit[r], permit'[r]>> \in LaterMoves \/ Admit(r)
      PROVE  UnitStep(r)
    <2>1. [run[r] EXCEPT !.step = step].step = step
        BY DEF TypeOK, RunRecords
    <2>2. run' = [run EXCEPT ![r] = [run[r] EXCEPT !.step = step]]
        BY <1>2 DEF Goes, TypeOK
    <2>3. QED
        BY <1>1, <1>2, <2>1, <2>2
<1>3. ASSUME NEW r \in Runs, NEW how, Ends(r, how), how \notin Early,
             permit' = permit \/ Cancelled(r)
      PROVE  UnitStep(r)
    <2>1. [NewRun EXCEPT !.step = how].step = how
        BY DEF NewRun
    <2>2. QED
        BY <1>1, <1>3, <2>1, CancelledMoves DEF Ends
<1>4. ASSUME NEW r \in Runs, TtlPasses(r) \/ PermitSwept(r) \/ PermitResolved(r)
      PROVE  UnitStep(r)
    BY <1>4 DEF TtlPasses, PermitSwept, PermitResolved, Becomes, Live, LaterMoves, Phases,
                TypeOK, UnitStep
<1>5. ASSUME NEW r \in Runs, Preflight(r) PROVE UnitStep(r)
    <2>1. /\ [run[r] EXCEPT !.step = "checked"].step = "checked"
          /\ run' = [run EXCEPT ![r] = [run[r] EXCEPT !.step = "checked"]]
          /\ run[r].step \in Early /\ permit' = permit
        BY <1>5 DEF Preflight, Goes, outside, At, Early, TypeOK, RunRecords
    <2>2. QED
        BY <1>1, <2>1
<1>6. ASSUME NEW r \in Runs, Peek(r) PROVE UnitStep(r)
    <2>1. run[r].step \in Early /\ permit' = permit
        BY <1>6 DEF Peek, At, Early
    <2>2. \E new : run' = [run EXCEPT ![r] = new]
        <3>1. CASE run' = [run EXCEPT ![r] = NewRun]
            BY <3>1
        <3>2. ASSUME NEW m, run' = [run EXCEPT ![r].step = "peeked", ![r].member = m]
              PROVE  run' = [run EXCEPT ![r] = [run[r] EXCEPT !.step = "peeked", !.member = m]]
            BY <3>2 DEF TypeOK
        <3>3. QED
            BY <1>6, <3>1, <3>2 DEF Peek
    <2>3. QED
        BY <1>1, <2>1, <2>2
<1>7. ASSUME NEW r \in Runs, Admit(r) PROVE UnitStep(r)
    BY <1>2, <1>7 DEF Admit, Becomes, Early, Phases
<1>8. ASSUME NEW r \in Runs, ClaimMember(r) \/ Recheck(r) \/ Refused(r) \/ StartRun(r)
                \/ DispatchUnrecorded(r) \/ ReadClock(r)
      PROVE  UnitStep(r)
    <2>1. CASE StartRun(r)
        <3>1. /\ [run[r] EXCEPT !.step = "started", !.sent = TRUE].step = "started"
              /\ run' = [run EXCEPT ![r] = [run[r] EXCEPT !.step = "started", !.sent = TRUE]]
              /\ permit' = permit
            BY <2>1 DEF StartRun, outside, TypeOK, RunRecords
        <3>2. QED
            BY <1>1, <3>1 DEF Early
    <2>2. CASE Refused(r) \/ DispatchUnrecorded(r)
        BY <1>2, <2>2, CancelledMoves DEF Refused, DispatchUnrecorded, Early
    <2>3. CASE ClaimMember(r) \/ Recheck(r)
        BY <1>2, <1>3, <2>3 DEF ClaimMember, Recheck, Early
    <2>4. CASE ReadClock(r)
        BY <1>2, <2>4 DEF ReadClock, outside, Early
    <2>5. QED
        BY <1>8, <2>1, <2>2, <2>3, <2>4
<1>9. ASSUME NEW r \in Runs, BeginTransport(r) PROVE UnitStep(r)
    BY <1>2, <1>9 DEF BeginTransport, MayTransport, Early, LaterMoves, Phases, TypeOK
<1>10. ASSUME NEW r \in Runs, TransportRefused(r) PROVE UnitStep(r)
    <2>1. PICK cost, persisted : run' = [run EXCEPT ![r].step = "answered", ![r].cost = cost,
                                                    ![r].persisted = persisted]
        BY <1>10 DEF TransportRefused
    <2> DEFINE new == [run[r] EXCEPT !.step = "answered", !.cost = cost, !.persisted = persisted]
    <2>2. run' = [run EXCEPT ![r] = new] /\ new.step = "answered"
        BY <2>1 DEF TypeOK, RunRecords
    <2>3. permit' = permit \/ Cancelled(r)
        BY <1>10 DEF TransportRefused
    <2> HIDE DEF new
    <2>4. QED
        BY <1>1, <2>2, <2>3, CancelledMoves DEF Early
<1>11. ASSUME NEW r \in Runs, Answer(r) PROVE UnitStep(r)
    <2>1. PICK net, cost, persisted :
            run' = [run EXCEPT ![r].step = "answered", ![r].net = net, ![r].cost = cost,
                               ![r].persisted = persisted]
        BY <1>11 DEF Answer
    <2> DEFINE new == [run[r] EXCEPT !.step = "answered", !.net = net, !.cost = cost,
                                     !.persisted = persisted]
    <2>2. run' = [run EXCEPT ![r] = new] /\ new.step = "answered" /\ permit' = permit
        <3>1. run' = [run EXCEPT ![r] = new]
            BY <2>1 DEF TypeOK
        <3>2. new.step = "answered"
            BY DEF TypeOK, RunRecords
        <3>3. permit' = permit
            BY <1>11 DEF Answer, outside
        <3>4. QED
            BY <3>1, <3>2, <3>3
    <2> HIDE DEF new
    <2>3. QED
        BY <1>1, <2>2 DEF Early
<1>12. ASSUME NEW r \in Runs, Finish(r) PROVE UnitStep(r)
    <2>1. PICK result : run' = [run EXCEPT ![r].step = "returned", ![r].result = result]
        BY <1>12 DEF Finish
    <2> DEFINE new == [run[r] EXCEPT !.step = "returned", !.result = result]
    <2>2. run' = [run EXCEPT ![r] = new] /\ new.step = "returned"
        BY <2>1 DEF TypeOK, RunRecords
    <2>3. \/ Cancelled(r)
          \/ /\ \E phase \in Phases : permit' = [permit EXCEPT ![r] = phase]
             /\ <<permit[r], permit'[r]>> \in LaterMoves
        BY <1>12 DEF Finish, FinishPermit, Becomes, LaterMoves, Phases, TypeOK
    <2> HIDE DEF new
    <2>4. QED
        BY <1>1, <2>2, <2>3, CancelledMoves DEF Early
<1>13. ASSUME NEW r \in Runs, Charge(r) PROVE UnitStep(r)
    <2>1. permit' = permit /\ run[r].step = "returned"
        BY <1>13 DEF Charge, At
    <2>2. CASE run' = [run EXCEPT ![r].step = "charged"]
        <3>1. Goes(r, "charged")
            BY <2>2 DEF Goes
        <3>2. QED
            BY <1>2, <2>1, <3>1 DEF Early
    <2>3. CASE run' = [run EXCEPT ![r].result = FALSE]
        <3>1. /\ [run[r] EXCEPT !.result = FALSE].step = "returned"
              /\ run' = [run EXCEPT ![r] = [run[r] EXCEPT !.result = FALSE]]
            BY <2>1, <2>3 DEF TypeOK, RunRecords
        <3>2. QED
            BY <1>1, <2>1, <3>1 DEF Early
    <2>4. QED
        BY <1>13, <2>2, <2>3 DEF Charge
<1>14. ASSUME NEW r \in Runs, ReleaseClaim(r) \/ Reconcile(r) \/ Settle(r) \/ Crash(r)
       PROVE  UnitStep(r)
    BY <1>3, <1>14 DEF ReleaseClaim, Reconcile, Settle, Crash, outside, Early
<1>15. QED
    BY <1>4, <1>5, <1>6, <1>7, <1>8, <1>9, <1>10, <1>11, <1>12, <1>13, <1>14
       DEF Next, vars

\* The ledger counts as this module does.
LEMMA LedgerCounts == \A S : Ledger!Cardinality(S) = Cardinality(S)
BY DEF Ledger!Cardinality, Cardinality

\* A step that moves a permit is a step of the ledger, and keeps the units within the
\* capacity.
LEMMA LedgerStep ==
    ASSUME TypeOK, NothingEarly, UnitsFit, [Next]_vars, permit' # permit
    PROVE  Ledger!Next /\ UnitsFit'
<1>1. PICK r \in Runs : UnitStep(r)
    BY UnitSteps
<1>2. PICK phase \in Phases : permit' = [permit EXCEPT ![r] = phase]
    BY <1>1 DEF UnitStep
<1>3. permit \in [Runs -> Phases] /\ permit' \in [Runs -> Phases] /\ permit'[r] = phase
    BY <1>2 DEF TypeOK
<1>4. IsFiniteSet(Ledger!Holding(permit)) /\ IsFiniteSet(Ledger!Holding(permit'))
    BY DispatchAssumption, FS_Subset DEF Ledger!Holding
<1>5. /\ <<permit[r], permit'[r]>> \in Ledger!Moves
      /\ Cardinality(Ledger!Holding(permit')) <= Capacity
    <2>1. CASE <<permit[r], permit'[r]>> \in LaterMoves
        <3>1. Ledger!Holding(permit') \in SUBSET Ledger!Holding(permit)
            BY <1>2, <1>3, <2>1 DEF Ledger!Holding, LaterMoves
        <3>2. Cardinality(Ledger!Holding(permit')) <= Cardinality(Ledger!Holding(permit))
            BY <1>4, <3>1, FS_Subset
        <3>3. /\ Cardinality(Ledger!Holding(permit')) \in Nat
              /\ Cardinality(Ledger!Holding(permit)) \in Nat
            BY <1>4, FS_CardinalityType
        <3>4. QED
            BY <2>1, <3>2, <3>3, DispatchAssumption DEF UnitsFit, LaterMoves, Ledger!Moves
    <2>2. CASE Admit(r)
        <3>1. permit[r] = "none" /\ permit'[r] = "granted"
            BY <1>3, <2>2 DEF Admit, At, Becomes, NothingEarly, Early, TypeOK
        <3>2. Ledger!Holding(permit') = Ledger!Holding(permit) \cup {r}
            BY <1>2, <1>3, <3>1 DEF Ledger!Holding
        <3>3. r \notin Ledger!Holding(permit)
            BY <3>1 DEF Ledger!Holding
        <3>4. /\ Cardinality(Ledger!Holding(permit')) = Cardinality(Ledger!Holding(permit)) + 1
              /\ Cardinality(Ledger!Holding(permit)) \in Nat
            BY <1>4, <3>2, <3>3, FS_AddElement, FS_CardinalityType
        <3>5. Cardinality(Ledger!Holding(permit)) < Capacity
            BY <2>2 DEF Admit, HasCapacity, Ledger!Holding
        <3>6. QED
            BY <3>1, <3>4, <3>5, DispatchAssumption DEF Ledger!Moves
    <2>3. QED
        BY <1>1, <2>1, <2>2 DEF UnitStep
<1>6. \A s \in Runs \ {r} : permit'[s] = permit[s]
    BY <1>2, <1>3
<1>7. permit' \in [Runs -> Ledger!Phases]
    BY <1>3 DEF Phases, Ledger!Phases
<1>8. QED
    BY <1>5, <1>6, <1>7, LedgerCounts DEF Ledger!Next, UnitsFit

\* A call that has not been admitted holds nothing, and the units held fit.
LEMMA NextUnits ==
    ASSUME TypeOK, NothingEarly, UnitsFit, [Next]_vars
    PROVE  NothingEarly' /\ UnitsFit'
<1>1. UnitsFit'
    BY LedgerStep DEF UnitsFit, Ledger!Holding
<1>2. NothingEarly'
    <2>1. ASSUME NEW r \in Runs, UnitStep(r) PROVE NothingEarly'
        <3>1. permit \in [Runs -> Phases]
            BY DEF TypeOK
        <3>2. ~Admit(r) \/ run'[r].step = "admitted"
            BY GoesType DEF Admit, Steps
        <3>3. run'[r].step \in Early => permit'[r] = "none"
            BY <2>1, <3>1, <3>2 DEF UnitStep, NothingEarly, LaterMoves, Early
        <3>4. \A s \in Runs \ {r} : run'[s] = run[s] /\ permit'[s] = permit[s]
            BY <2>1, <3>1 DEF UnitStep
        <3>5. QED
            BY <3>3, <3>4 DEF NothingEarly
    <2>2. CASE UNCHANGED <<run, permit>>
        BY <2>2 DEF NothingEarly
    <2>3. QED
        BY <2>1, <2>2, UnitSteps
<1>3. QED
    BY <1>1, <1>2

\* The workers' permits are an admission ledger.
THEOREM DispatchersKeepLedger == Spec => ImplementsLedger
<1> DEFINE LedgerInv == TypeOK /\ NothingEarly /\ UnitsFit
<1>1. Init => LedgerInv /\ Ledger!Init
    <2> SUFFICES ASSUME Init PROVE LedgerInv /\ Ledger!Init
        OBVIOUS
    <2>1. TypeOK
        BY InitDispatch DEF DispatchInv
    <2>2. Ledger!Init /\ NothingEarly
        BY DEF Init, Ledger!Init, NothingEarly
    <2>3. Ledger!Holding(permit) = {}
        BY DEF Init, Ledger!Holding
    <2>4. UnitsFit
        BY <2>3, FS_EmptySet, DispatchAssumption DEF UnitsFit
    <2>5. QED
        BY <2>1, <2>2, <2>4
<1>2. LedgerInv /\ TypeOK' /\ [Next]_vars => LedgerInv' /\ [Ledger!Next]_permit
    BY NextUnits, LedgerStep
<1>3. QED
    BY <1>1, <1>2, DispatchTypeCorrect, PTL DEF Spec, ImplementsLedger, Ledger!Spec
=============================================================================
