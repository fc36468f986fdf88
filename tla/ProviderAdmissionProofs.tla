----------------------- MODULE ProviderAdmissionProofs -----------------------
(***************************************************************************)
(* Machine-checked proofs about the Provider Admission Kernel, for every   *)
(* set of requests, projects and authorities and every policy history.     *)
(***************************************************************************)
EXTENDS ProviderAdmission, FiniteSetTheorems, TLAPS

(***************************************************************************)
(* Types of the operators.                                                 *)
(***************************************************************************)
\* Appending a receipt keeps the control row well formed.
LEMMA AppendType ==
    ASSUME NEW c \in ControlStates, NEW kind, NEW circuit \in Circuits, NEW signal
    PROVE  /\ AppendTransition(c, kind, circuit, signal) \in ControlStates
           /\ AppendTransition(c, kind, circuit, signal).policy = c.policy
           /\ AppendTransition(c, kind, circuit, signal).target = c.target
           /\ AppendTransition(c, kind, circuit, signal).circuit = circuit
           /\ AppendTransition(c, kind, circuit, signal).probe = None
           /\ AppendTransition(c, kind, circuit, signal).episode
                = NextEpisode(c, kind, circuit, signal)
<1>1. NextEpisode(c, kind, circuit, signal) \in Episodes
    BY DEF NextEpisode, Episodes, ControlStates
<1>2. QED
    BY <1>1 DEF AppendTransition, ControlStates

\* Any set of requests is finite, so what it counts is a natural number.
LEMMA CountType ==
    ASSUME NEW S \in SUBSET Requests
    PROVE  IsFiniteSet(S) /\ Cardinality(S) \in Nat
BY ConstantsAssumption, FS_Subset, FS_CardinalityType

\* The sweep keeps every row and the control row well formed.
LEMMA SweepType ==
    ASSUME TypeOK
    PROVE  /\ SweptReq \in [Requests -> States]
           /\ SweptUnits \in [Projects -> Int]
           /\ SweptControl \in ControlStates
           /\ SweptControl.policy = control.policy
           /\ SweptControl.target = control.target
           /\ evidenced \subseteq Unresolved(SweptReq)
<1>1. SweptReq \in [Requests -> States]
    BY DEF TypeOK, SweptReq, SweptState, States
<1>2. SweptUnits \in [Projects -> Int]
    <2>1. \A p \in Projects :
            Cardinality({r \in ExpiredGrants : ProjectOf[r] = p}) \in Nat
        BY CountType DEF ExpiredGrants, TypeOK, InState
    <2>2. QED BY <2>1 DEF SweptUnits, TypeOK
<1>3. /\ SweptControl \in ControlStates
      /\ SweptControl.policy = control.policy
      /\ SweptControl.target = control.target
    <2>1. control \in ControlStates
        BY DEF TypeOK
    <2>2. /\ "closed" \in Circuits
          /\ "open" \in Circuits
        BY DEF Circuits
    <2>3. ASSUME NEW kind, NEW circuit \in Circuits, NEW signal,
                 SweptControl = AppendTransition(control, kind, circuit, signal)
          PROVE  /\ SweptControl \in ControlStates
                 /\ SweptControl.policy = control.policy
                 /\ SweptControl.target = control.target
        BY <2>1, <2>3, AppendType
    <2>4. QED BY <2>1, <2>2, <2>3, AppendType, Zenon DEF SweptControl
<1>4. evidenced \subseteq Unresolved(SweptReq)
    BY DEF TypeOK, SweptReq, SweptState, Unresolved, InState, Live
<1>5. QED BY <1>1, <1>2, <1>3, <1>4

\* Counting one unit more or less keeps the projects' counters integers.
LEMMA CountersType ==
    ASSUME NEW u \in [Projects -> Int], NEW r \in Requests
    PROVE  /\ [u EXCEPT ![ProjectOf[r]] = @ + 1] \in [Projects -> Int]
           /\ [u EXCEPT ![ProjectOf[r]] = @ - 1] \in [Projects -> Int]
<1>1. ProjectOf[r] \in Projects
    BY ConstantsAssumption
<1>2. QED BY <1>1

\* Restricting the recorded order keeps it a set of pairs of requests.
LEMMA KeepOrderType ==
    ASSUME before \subseteq Requests \X Requests, KeepOrder
    PROVE  before' \subseteq Requests \X Requests
BY DEF KeepOrder

\* Cancelling an unused grant keeps rows, counters and the control row well formed.
LEMMA CancelGrantedType ==
    ASSUME NEW r \in Requests, NEW q \in [Requests -> States],
           NEW u \in [Projects -> Int], NEW c \in ControlStates, NEW reason,
           q[r] = "granted", evidenced \subseteq Unresolved(q),
           CancelGranted(r, q, u, c, reason)
    PROVE  /\ req' \in [Requests -> States]
           /\ units' \in [Projects -> Int]
           /\ control' \in ControlStates
           /\ control'.policy = c.policy /\ control'.target = c.target
           /\ evidenced \subseteq Unresolved(req')
<1>1. req' \in [Requests -> States] /\ evidenced \subseteq Unresolved(req')
    BY DEF CancelGranted, States, Unresolved, InState
<1>2. units' \in [Projects -> Int]
    BY CountersType DEF CancelGranted
<1>3. /\ control' \in ControlStates
      /\ control'.policy = c.policy
      /\ control'.target = c.target
    <2>1. "open" \in Circuits
        BY DEF Circuits
    <2>2. QED BY <2>1, AppendType DEF CancelGranted
<1>4. QED BY <1>1, <1>2, <1>3

\* Initially every variable is of its type.
LEMMA InitType == Init => TypeOK
<1> SUFFICES ASSUME Init PROVE TypeOK
    OBVIOUS
<1> USE DEF Init
<1>1. control \in ControlStates /\ control.target \in 1 .. HardMax[control.policy]
    BY ConstantsAssumption DEF ControlStates, Policies, Circuits, Episodes
<1>2. /\ req \in [Requests -> States]
      /\ lapsed \subseteq InState(req, Live)
      /\ evidenced \subseteq Unresolved(req)
    BY DEF States
<1>3. /\ lastLane \in Lanes \cup {None}
      /\ ctl \in [Authorities -> Bindings \cup {Unissued, Spent}]
      /\ stopEvidence \in BOOLEAN
    OBVIOUS
<1>4. /\ before \subseteq Requests \X Requests
      /\ units \in [Projects -> Int]
      /\ lastGrant \in [Projects -> Nat]
      /\ grantSeq \in Nat
      /\ checked \subseteq Requests
      /\ lost \subseteq Requests
    OBVIOUS
<1>5. QED
    BY <1>1, <1>2, <1>3, <1>4 DEF TypeOK

\* Each action keeps every variable of its type.
LEMMA NextType == TypeOK /\ [Next]_vars => TypeOK'
<1> SUFFICES ASSUME TypeOK, [Next]_vars PROVE TypeOK'
    OBVIOUS
<1> USE DEF rows, fairness
<1>1. ASSUME NEW r \in Requests, Lapse(r) PROVE TypeOK'
    BY <1>1 DEF Lapse, TypeOK, InState, Unresolved
<1>2. ASSUME NEW r \in Requests, LoseAuthority(r) PROVE TypeOK'
    BY <1>2 DEF LoseAuthority, TypeOK, InState, Unresolved
<1>3. ASSUME NEW r \in Requests, VerifyAuthority(r) PROVE TypeOK'
    <2>1. Youngest(r) \subseteq Requests \X Requests
        BY DEF Youngest, MayWait, TypeOK
    <2>2. QED
        BY <1>3, <2>1 DEF VerifyAuthority, TypeOK, InState, Unresolved
<1>4. ASSUME NEW r \in Requests, TryAdmit(r) PROVE TypeOK'
    <2>1. checked' \subseteq Requests /\ before' \subseteq Requests \X Requests
        BY <1>4, KeepOrderType DEF TryAdmit, TypeOK
    <2>2. CASE AdmitRaises(r) /\ UNCHANGED <<req, lapsed, units, fairness, control>>
        BY <1>4, <2>1, <2>2 DEF TryAdmit, TypeOK, InState, Unresolved
    <2>3. CASE AdmitSweepsOnly(r)
        BY <1>4, <2>1, <2>3, SweepType
           DEF TryAdmit, AdmitSweepsOnly, CommitSweep, TypeOK, InState, Unresolved
    <2>4. CASE /\ SweptReq[r] \in {"absent", "waiting"}
               /\ lapsed' = {}
               /\ control' = SweptControl
               /\ AdmitWaits(r) \/ AdmitGrants(r)
        <3>1. /\ req' \in [Requests -> States]
              /\ units' \in [Projects -> Int]
              /\ lastGrant' \in [Projects -> Nat]
              /\ grantSeq' \in Nat
              /\ lastLane' \in Lanes \cup {None}
            BY <2>4, SweepType, ConstantsAssumption
               DEF AdmitWaits, AdmitGrants, InsertedReq, TypeOK, States
        <3>2. evidenced' \subseteq Unresolved(req')
            BY <1>4, <2>4, SweepType
               DEF TryAdmit, AdmitWaits, AdmitGrants, InsertedReq, InState, Unresolved
        <3>3. control' \in ControlStates /\ control'.target \in 1 .. HardMax[control'.policy]
            BY <2>4, SweepType DEF TypeOK
        <3>4. QED
            BY <1>4, <2>1, <2>4, <3>1, <3>2, <3>3 DEF TryAdmit, TypeOK, InState
    <2>5. QED
        BY <1>4, <2>2, <2>3, <2>4 DEF TryAdmit
<1>5. ASSUME NEW r \in Requests, CancelBeforeTransport(r) PROVE TypeOK'
    <2>1. /\ req' \in [Requests -> States]
          /\ units' \in [Projects -> Int]
          /\ control' \in ControlStates
          /\ control'.policy = control.policy /\ control'.target = control.target
          /\ evidenced \subseteq Unresolved(req')
        BY <1>5, CancelGrantedType DEF CancelBeforeTransport, TypeOK
    <2>2. lapsed' \subseteq InState(req', Live)
        BY <1>5 DEF CancelBeforeTransport, CancelGranted, TypeOK, InState
    <2>3. QED
        BY <1>5, <2>1, <2>2 DEF CancelBeforeTransport, TypeOK
<1>6. ASSUME NEW r \in Requests, CancelWaiting(r) PROVE TypeOK'
    <2>1. before' \subseteq Requests \X Requests
        BY <1>6, KeepOrderType DEF CancelWaiting, TypeOK
    <2>2. QED
        BY <1>6, <2>1 DEF CancelWaiting, TypeOK, States, InState, Unresolved
<1>7. ASSUME NEW r \in Requests, BeginTransport(r) PROVE TypeOK'
    <2>1. before' \subseteq Requests \X Requests
        BY <1>7, KeepOrderType DEF BeginTransport, TypeOK
    <2>2. CASE SweptReq[r] # "granted" /\ CommitSweep
        BY <1>7, <2>1, <2>2, SweepType
           DEF BeginTransport, CommitSweep, TypeOK, InState, Unresolved
    <2>3. CASE /\ SweptReq[r] = "granted"
               /\ CancelGranted(r, SweptReq, SweptUnits, SweptControl, "grant_blocked")
        <3>1. /\ req' \in [Requests -> States]
              /\ units' \in [Projects -> Int]
              /\ control' \in ControlStates
              /\ control'.policy = control.policy /\ control'.target = control.target
              /\ evidenced \subseteq Unresolved(req')
            BY <2>3, SweepType, CancelGrantedType
        <3>2. QED
            BY <1>7, <2>1, <3>1 DEF BeginTransport, TypeOK, InState
    <2>4. CASE /\ SweptReq[r] = "granted"
               /\ req' = [SweptReq EXCEPT ![r] = "dispatched"]
               /\ units' = SweptUnits
               /\ control' = SweptControl
        BY <1>7, <2>1, <2>4, SweepType
           DEF BeginTransport, TypeOK, States, InState, Unresolved
    <2>5. QED
        BY <1>7, <2>2, <2>3, <2>4 DEF BeginTransport
<1>8. ASSUME NEW r \in Requests, ResolveReconciliation(r) PROVE TypeOK'
    <2>1. /\ control' \in ControlStates
          /\ control'.policy = control.policy /\ control'.target = control.target
        BY <1>8, AppendType DEF ResolveReconciliation, TypeOK, ControlStates
    <2>2. units' \in [Projects -> Int]
        BY <1>8, CountersType DEF ResolveReconciliation, TypeOK
    <2>3. req' \in [Requests -> States] /\ evidenced' \subseteq Unresolved(req')
        BY <1>8 DEF ResolveReconciliation, TypeOK, States, InState, Unresolved
    <2>4. lapsed' \subseteq InState(req', Live)
        BY <1>8 DEF ResolveReconciliation, TypeOK, InState, Live
    <2>5. QED
        BY <1>8, <2>1, <2>2, <2>3, <2>4 DEF ResolveReconciliation, TypeOK
<1>9. ASSUME NEW r \in Requests, NEW o \in Outcomes, Finish(r, o) PROVE TypeOK'
    <2>1. FinishCircuit(o) \in Circuits
        BY DEF FinishCircuit, Circuits, TypeOK, ControlStates
    <2>2. /\ control' \in ControlStates
          /\ control'.policy = control.policy /\ control'.target = control.target
        BY <1>9, <2>1, AppendType DEF Finish, TypeOK
    <2>3. /\ req' \in [Requests -> States]
          /\ units' \in [Projects -> Int]
          /\ lapsed' \subseteq InState(req', Live)
          /\ evidenced' \subseteq Unresolved(req')
        <3>1. req' \in [Requests -> States] /\ evidenced' \subseteq Unresolved(req')
            BY <1>9 DEF Finish, TypeOK, States, InState, Unresolved
        <3>2. units' \in [Projects -> Int]
            BY <1>9, CountersType DEF Finish, TypeOK
        <3>3. lapsed' \subseteq InState(req', Live)
            BY <1>9 DEF Finish, TypeOK, InState
        <3>4. QED BY <3>1, <3>2, <3>3
    <2>4. stopEvidence' \in BOOLEAN
        BY <1>9 DEF Finish, TypeOK
    <2>5. QED
        BY <1>9, <2>2, <2>3, <2>4 DEF Finish, TypeOK
<1>10. ASSUME NEW a \in Authorities, IssueControl(a) PROVE TypeOK'
    <2>1. Snapshot \in SUBSET Requests /\ NoSnapshot \in SUBSET Requests
        BY DEF Snapshot, NoSnapshot, Active, InState
    <2>2. ctl' \in [Authorities -> Bindings \cup {Unissued, Spent}]
        BY <1>10, <2>1 DEF IssueControl, TypeOK, Bindings, TargetBindings,
            SupersedeBindings, HalfOpenBindings, ControlStates
    <2>3. QED
        BY <1>10, <2>2 DEF IssueControl, TypeOK, InState, Unresolved
<1>11. ASSUME NEW a \in Authorities, NEW b, Consume(a, b)
       PROVE  ctl' \in [Authorities -> Bindings \cup {Unissued, Spent}]
    BY <1>11 DEF Consume, TypeOK
<1>12. ASSUME NEW a \in Authorities, NEW t \in Targets, ActivateTarget(a, t) PROVE TypeOK'
    <2>1. AppendTransition(control, "target_activated", "closed", "target_activated")
            \in ControlStates
        BY AppendType DEF TypeOK, Circuits
    <2>2. /\ control' \in ControlStates
          /\ control'.target = t
          /\ control'.policy = control.policy
        BY <1>12, <2>1, AppendType
           DEF ActivateTarget, ControlStates, TypeOK, Circuits
    <2>3. QED
        BY <1>11, <1>12, <2>2
           DEF ActivateTarget, AllowedTarget, TypeOK, InState, Unresolved
<1>13. ASSUME NEW a \in Authorities, NEW r \in Requests, ActivateHalfOpen(a, r) PROVE TypeOK'
    <2>1. AppendTransition(control, "half_open_activated", "half_open",
                           "half_open_authorized") \in ControlStates
        BY AppendType DEF TypeOK, Circuits
    <2>2. /\ control' \in ControlStates
          /\ control'.target = control.target
          /\ control'.policy = control.policy
        BY <1>13, <2>1, AppendType
           DEF ActivateHalfOpen, ControlStates, TypeOK, Circuits
    <2>3. QED
        BY <1>11, <1>13, <2>2 DEF ActivateHalfOpen, TypeOK, InState, Unresolved
<1>14. ASSUME NEW a \in Authorities, NEW t \in Targets, SupersedePolicy(a, t) PROVE TypeOK'
    <2>1. AppendTransition(control, "policy_superseded", "closed", "policy_superseded")
            \in ControlStates
        BY AppendType DEF TypeOK, Circuits
    <2>2. /\ control' \in ControlStates
          /\ control'.target = t
          /\ control'.policy = control.policy + 1
        BY <1>14, <2>1 DEF SupersedePolicy, ControlStates
    <2>3. before' \subseteq Requests \X Requests
        BY <1>14, KeepOrderType DEF SupersedePolicy, TypeOK
    <2>4. ctl' \in [Authorities -> Bindings \cup {Unissued, Spent}]
        BY <1>11, <1>14 DEF SupersedePolicy
    <2>5. t \in 1 .. HardMax[control.policy + 1]
        BY <1>14 DEF SupersedePolicy, AllowedTarget
    <2>6. QED
        BY <1>14, <2>2, <2>3, <2>4, <2>5 DEF SupersedePolicy, TypeOK, InState, Unresolved
<1>15. CASE UNCHANGED vars
    BY <1>15 DEF vars, TypeOK, InState, Unresolved
<1>16. QED
    BY <1>1, <1>2, <1>3, <1>4, <1>5, <1>6, <1>7, <1>8, <1>9, <1>10, <1>12, <1>13,
       <1>14, <1>15 DEF Next

\* The kernel's tables and projections always have the shape their schema gives
\* them, the target within the current policy's hard maximum included.
THEOREM TypeCorrect == Spec => []TypeOK
BY InitType, NextType, PTL DEF Spec

(***************************************************************************)
(* The control row and the rows.  What the circuit, its probe and the open *)
(* episode say is an invariant of rows q, control row c, evidence e and    *)
(* history h, so that the sweep inside an action can be reasoned about on  *)
(* its own.                                                                *)
(***************************************************************************)
ProbeAlone(q, c) ==
    /\ c.circuit = "half_open" <=> c.probe # None
    /\ c.circuit = "half_open" =>
        /\ \A r \in Requests \ {c.probe} : q[r] \notin Live \cup Holding
        /\ q[c.probe] \in {"absent", "granted", "dispatched"}

StopsGlobally(q, c) ==
    Scope[c.policy] = "global" /\ Unresolved(q) # {} => c.circuit = "open"

\* Closing needs no pressure; the migration may trust an unknown-only episode
\* because it is open and holds no pressure; its rows have their evidence.
EvidenceKept(q, c, e, h) ==
    /\ h => c.circuit # "closed"
    /\ c.episode = "unknown_only" => c.circuit = "open" /\ ~h
    /\ Scope[c.policy] = "global" /\ c.episode = "unknown_only" => Unresolved(q) \subseteq e

ControlOK(q, c, e, h) ==
    ProbeAlone(q, c) /\ StopsGlobally(q, c) /\ EvidenceKept(q, c, e, h)

ControlInv == TypeOK /\ ControlOK(req, control, evidenced, stopEvidence)

\* While half open no row but the probe's is touched by the sweep, and a touched
\* probe leaves the circuit open.
LEMMA SweepControl ==
    ASSUME ControlInv
    PROVE  ControlOK(SweptReq, SweptControl, evidenced, stopEvidence)
<1> USE DEF ControlInv, ControlOK
<1>1. control \in ControlStates /\ "open" \in Circuits /\ "closed" \in Circuits
    BY DEF TypeOK, Circuits
<1>2. CASE /\ ExpiredDispatches # {}
           /\ Scope[control.policy] = "capacity_reservation"
           /\ control.circuit = "closed"
    <2>1. SweptControl = AppendTransition(control, "dispatch_expired_isolated",
                                          "closed", "dispatch_expired_isolated")
        BY <1>2 DEF SweptControl
    <2>2. /\ SweptControl.circuit = "closed" /\ SweptControl.probe = None
          /\ SweptControl.policy = control.policy /\ SweptControl.episode = "none"
        <3>1. NextEpisode(control, "dispatch_expired_isolated", "closed",
                          "dispatch_expired_isolated") = "none"
            BY DEF NextEpisode
        <3>2. QED BY <1>1, <2>1, <3>1, AppendType
    <2>3. QED
        BY <1>2, <2>2 DEF ProbeAlone, StopsGlobally, EvidenceKept
<1>3. CASE /\ ExpiredDispatches # {}
           /\ ~(Scope[control.policy] = "capacity_reservation" /\ control.circuit = "closed")
    <2>1. SweptControl = AppendTransition(control, "permit_expired", "open", "permit_expired")
        BY <1>3 DEF SweptControl
    <2>2. /\ SweptControl.circuit = "open" /\ SweptControl.probe = None
          /\ SweptControl.policy = control.policy /\ SweptControl.episode = "mixed"
        BY <1>1, <2>1, AppendType DEF NextEpisode, Disqualifying
    <2>3. QED
        BY <2>2 DEF ProbeAlone, StopsGlobally, EvidenceKept
<1>4. CASE ExpiredDispatches = {} /\ control.circuit = "half_open" /\ ExpiredGrants # {}
    <2>1. SweptControl = AppendTransition(control, "half_open_cancelled", "open",
                                          "half_open_probe_expired")
        BY <1>4 DEF SweptControl
    <2>2. /\ SweptControl.circuit = "open" /\ SweptControl.probe = None
          /\ SweptControl.policy = control.policy /\ SweptControl.episode = "mixed"
        <3>1. NextEpisode(control, "half_open_cancelled", "open",
                          "half_open_probe_expired") = "mixed"
            BY <1>4 DEF NextEpisode
        <3>2. QED BY <1>1, <2>1, <3>1, AppendType
    <2>3. QED
        BY <2>2 DEF ProbeAlone, StopsGlobally, EvidenceKept
<1>5. CASE ExpiredDispatches = {} /\ ~(control.circuit = "half_open" /\ ExpiredGrants # {})
    <2>1. SweptControl = control
        BY <1>5 DEF SweptControl
    <2>2. Unresolved(SweptReq) = Unresolved(req)
        BY <1>5 DEF ExpiredDispatches, SweptReq, SweptState, Unresolved, InState, TypeOK, Live
    <2>3. ProbeAlone(SweptReq, control)
        <3>1. control.circuit = "half_open" => SweptReq[control.probe] = req[control.probe]
            BY <1>1, <1>5 DEF ExpiredDispatches, ExpiredGrants, SweptReq, SweptState,
                ProbeAlone, TypeOK, InState, Live, ControlStates
        <3>2. \A r \in Requests : req[r] \notin Live \cup Holding
                => SweptReq[r] \notin Live \cup Holding
            BY DEF SweptReq, SweptState, TypeOK, InState, Live, Holding
        <3>3. QED BY <3>1, <3>2 DEF ProbeAlone
    <2>4. QED
        BY <2>1, <2>2, <2>3 DEF StopsGlobally, EvidenceKept
<1>6. QED BY <1>2, <1>3, <1>4, <1>5

\* Cancelling an unused grant reopens a half-open circuit and disturbs nothing else.
LEMMA CancelGrantedControl ==
    ASSUME NEW r \in Requests, NEW q \in [Requests -> States], NEW u,
           NEW c \in ControlStates, NEW reason,
           q[r] = "granted", CancelGranted(r, q, u, c, reason),
           ControlOK(q, c, evidenced, stopEvidence)
    PROVE  ControlOK(req', control', evidenced, stopEvidence)
<1>1. Unresolved(req') = Unresolved(q)
    BY DEF CancelGranted, Unresolved, InState
<1>2. \A s \in Requests : q[s] \notin Live \cup Holding => req'[s] \notin Live \cup Holding
    BY DEF CancelGranted, Live, Holding
<1>3. CASE c.circuit = "half_open"
    <2>1. control' = AppendTransition(c, "half_open_cancelled", "open", reason)
        BY <1>3 DEF CancelGranted
    <2>2. /\ control'.circuit = "open" /\ control'.probe = None
          /\ control'.policy = c.policy /\ control'.episode = "mixed"
        <3>1. NextEpisode(c, "half_open_cancelled", "open", reason) = "mixed"
            BY <1>3 DEF NextEpisode
        <3>2. "open" \in Circuits
            BY DEF Circuits
        <3>3. QED BY <2>1, <3>1, <3>2, AppendType
    <2>3. QED
        BY <1>1, <2>2 DEF ControlOK, ProbeAlone, StopsGlobally, EvidenceKept
<1>4. CASE c.circuit # "half_open"
    <2>1. control' = c
        BY <1>4 DEF CancelGranted
    <2>2. QED
        BY <1>1, <1>4, <2>1 DEF ControlOK, ProbeAlone, StopsGlobally, EvidenceKept
<1>5. QED BY <1>3, <1>4

\* The probe, asking while the circuit is half open, is granted at once.
LEMMA ProbeHasTurn ==
    ASSUME ControlInv, NEW r \in Requests, ~AdmitRefused(r),
           SweptControl.circuit = "half_open", SweptReq[r] \in {"absent", "waiting"}
    PROVE  HasTurn(r)
<1> DEFINE Q == InsertedReq(r)
<1>1. r = SweptControl.probe
    BY DEF AdmitRefused
<1>2. SweptReq \in [Requests -> States]
    BY SweepType DEF ControlInv
<1>3. \A s \in Requests \ {r} : Q[s] \notin Live \cup Holding
    BY <1>1, <1>2, SweepControl DEF ControlOK, ProbeAlone, InsertedReq
<1>4. Q[r] = "waiting"
    BY <1>2 DEF InsertedReq
<1>5. Active(Q) = {} /\ InState(Q, {"waiting"}) = {r}
    BY <1>3, <1>4 DEF Active, InState, Live, Holding
<1>6. \A p : ActiveOf(Q, p) = {}
    BY <1>5 DEF ActiveOf
<1>7. Cardinality({}) = 0
    BY FS_EmptySet
<1>8. 0 + 1 <= Cap[control.policy]
    BY ConstantsAssumption DEF ControlInv, TypeOK, ControlStates
<1>9. Eligible(Q) = {r}
    BY <1>5, <1>6, <1>7, <1>8 DEF Eligible
<1>10. LaneRows(Q) = {r}
    BY <1>9 DEF LaneRows
<1>11. r \in Selected(Q)
    BY <1>10 DEF Selected
<1>12. Cardinality(Active(Q)) + 1 <= EffectiveCapacity(SweptControl)
    BY <1>5, <1>7 DEF EffectiveCapacity
<1>13. QED
    BY <1>11, <1>12 DEF HasTurn

\* A grant, a row left waiting, or nothing but the sweep, keeps the control row
\* consistent with the rows.
LEMMA TryAdmitControl ==
    ASSUME ControlInv, NEW r \in Requests, TryAdmit(r)
    PROVE  ControlOK(req', control', evidenced', stopEvidence')
<1>1. evidenced' = evidenced /\ stopEvidence' = stopEvidence
    BY DEF TryAdmit
<1>2. SweptReq \in [Requests -> States]
    BY SweepType DEF ControlInv
<1>3. CASE UNCHANGED <<req, control>>
    BY <1>1, <1>3 DEF ControlInv
<1>4. CASE AdmitSweepsOnly(r)
    BY <1>1, <1>4, SweepControl DEF AdmitSweepsOnly, CommitSweep
<1>5. CASE /\ ~AdmitRefused(r)
           /\ SweptReq[r] \in {"absent", "waiting"}
           /\ control' = SweptControl
           /\ AdmitWaits(r) \/ AdmitGrants(r)
    <2>1. PICK v \in {"waiting", "granted"} : req' = [SweptReq EXCEPT ![r] = v]
        BY <1>5 DEF AdmitWaits, AdmitGrants, InsertedReq
    <2>2. Unresolved(req') = Unresolved(SweptReq)
        BY <1>2, <1>5, <2>1 DEF Unresolved, InState
    <2>3. ProbeAlone(req', SweptControl)
        <3>1. CASE SweptControl.circuit = "half_open"
            <4>1. r = SweptControl.probe
                BY <1>5, <3>1 DEF AdmitRefused
            <4>2. req' = [SweptReq EXCEPT ![r] = "granted"]
                BY <1>5, <3>1, ProbeHasTurn DEF AdmitWaits, AdmitGrants
            <4>3. ProbeAlone(SweptReq, SweptControl)
                BY SweepControl DEF ControlOK
            <4>4. QED
                BY <1>2, <4>1, <4>2, <4>3 DEF ProbeAlone
        <3>2. CASE SweptControl.circuit # "half_open"
            BY <3>2, SweepControl DEF ControlOK, ProbeAlone
        <3>3. QED BY <3>1, <3>2
    <2>4. QED
        BY <1>1, <1>5, <2>2, <2>3, SweepControl
           DEF ControlOK, StopsGlobally, EvidenceKept
<1>6. QED
    BY <1>3, <1>4, <1>5 DEF TryAdmit

\* Transport starts, or the grant is cancelled, without contradicting the circuit.
LEMMA BeginTransportControl ==
    ASSUME ControlInv, NEW r \in Requests, BeginTransport(r)
    PROVE  ControlOK(req', control', evidenced', stopEvidence')
<1>1. evidenced' = evidenced /\ stopEvidence' = stopEvidence
    BY DEF BeginTransport
<1>2. SweptReq \in [Requests -> States] /\ SweptControl \in ControlStates
    BY SweepType DEF ControlInv
<1>3. CASE CommitSweep
    BY <1>1, <1>3, SweepControl DEF CommitSweep
<1>4. CASE /\ SweptReq[r] = "granted"
           /\ CancelGranted(r, SweptReq, SweptUnits, SweptControl, "grant_blocked")
    BY <1>1, <1>2, <1>4, SweepControl, CancelGrantedControl
<1>5. CASE /\ SweptReq[r] = "granted"
           /\ req' = [SweptReq EXCEPT ![r] = "dispatched"]
           /\ control' = SweptControl
    <2>1. Unresolved(req') = Unresolved(SweptReq)
        BY <1>2, <1>5 DEF Unresolved, InState
    <2>2. ProbeAlone(req', SweptControl)
        BY <1>2, <1>5, SweepControl DEF ControlOK, ProbeAlone, Live, Holding
    <2>3. QED
        BY <1>1, <1>5, <2>1, <2>2, SweepControl DEF ControlOK, StopsGlobally, EvidenceKept
<1>6. QED
    BY <1>3, <1>4, <1>5 DEF BeginTransport

\* What finish writes depends only on the circuit it reads: it never closes an
\* open circuit, it closes a half-open one only for a success, and pressure or
\* missing evidence leaves the circuit open in an episode that is not unknown-only.
LEMMA FinishReceipt ==
    ASSUME TypeOK, NEW o \in Outcomes
    PROVE  LET next == NextEpisode(control, FinishKind(o), FinishCircuit(o), FinishSignal(o)) IN
           /\ FinishCircuit(o) \in {"open", "closed"}
           /\ control.circuit = "open" => FinishCircuit(o) = "open"
           /\ control.circuit = "half_open" /\ FinishCircuit(o) = "closed"
                => FinishKind(o) = "half_open_succeeded"
           /\ Pressure(o) \/ IntegrityStop(o) => FinishCircuit(o) = "open" /\ next # "unknown_only"
           /\ FinishCircuit(o) = "closed" => next = "none"
           /\ next = "unknown_only" => \/ control.circuit = "closed" /\ Ambiguous(o)
                                       \/ control.episode = "unknown_only"
           /\ Ambiguous(o) /\ Scope[control.policy] = "global" => FinishCircuit(o) = "open"
           /\ control.circuit = "half_open" => next # "unknown_only"
<1>1. control.circuit \in {"closed", "open", "half_open"}
    BY DEF TypeOK, ControlStates, Circuits
<1>2. Pressure(o) => o.resp = "yes" /\ o.net = "yes"
    BY DEF Pressure, Outcomes
<1>3. Isolated(o) => ~Pressure(o) /\ ~IntegrityStop(o) /\ control.circuit = "closed"
                     /\ Scope[control.policy] # "global"
    BY DEF Isolated, IntegrityStop
<1>4. IntegrityStop(o) => Ambiguous(o)
    BY DEF Ambiguous
<1>5. /\ FinishCircuit(o) \in {"open", "closed"}
      /\ control.circuit = "open" => FinishCircuit(o) = "open"
      /\ Pressure(o) \/ IntegrityStop(o) => FinishCircuit(o) = "open"
      /\ Ambiguous(o) /\ Scope[control.policy] = "global" => FinishCircuit(o) = "open"
    BY <1>1, <1>3, <1>4 DEF FinishCircuit
<1>6. control.circuit = "half_open" =>
        FinishKind(o) \in {"half_open_succeeded", "half_open_failed"}
    BY DEF FinishKind
<1>7. control.circuit = "half_open" /\ FinishCircuit(o) = "closed"
        => FinishKind(o) = "half_open_succeeded"
    BY DEF FinishKind
<1>8. FinishKind(o) = "unknown_after_dispatch"
        => Ambiguous(o) /\ ~Pressure(o) /\ ~IntegrityStop(o)
    BY DEF FinishKind, FinishSignal
<1>9. Pressure(o) \/ IntegrityStop(o) => FinishSignal(o) \in {"pressure", "local_integrity_stop"}
    BY DEF FinishSignal
<1>10. QED
    BY <1>1, <1>5, <1>6, <1>7, <1>8, <1>9 DEF NextEpisode

\* Recording an outcome keeps the control row consistent with the rows.
LEMMA FinishControl ==
    ASSUME ControlInv, NEW r \in Requests, NEW o \in Outcomes, Finish(r, o)
    PROVE  ControlOK(req', control', evidenced', stopEvidence')
<1> DEFINE next == NextEpisode(control, FinishKind(o), FinishCircuit(o), FinishSignal(o))
<1> USE DEF ControlInv
<1>1. /\ control'.circuit = FinishCircuit(o)
      /\ control'.probe = None
      /\ control'.policy = control.policy
      /\ control'.episode = next
    BY FinishReceipt, AppendType DEF Finish, TypeOK, Circuits
<1>2. req \in [Requests -> States]
    BY DEF TypeOK
<1>3. IF Ambiguous(o)
      THEN Unresolved(req') = Unresolved(req) \cup {r} /\ evidenced' = evidenced \cup {r}
      ELSE Unresolved(req') = Unresolved(req) /\ evidenced' = evidenced
    BY <1>2 DEF Finish, Unresolved, InState
<1>4. ProbeAlone(req', control')
    BY <1>1, FinishReceipt DEF ProbeAlone
<1>5. StopsGlobally(req', control')
    BY <1>1, <1>3, FinishReceipt DEF ControlOK, StopsGlobally
<1>6. EvidenceKept(req', control', evidenced', stopEvidence')
    <2>1. stopEvidence' => control'.circuit # "closed"
        <3>1. CASE Pressure(o) \/ IntegrityStop(o)
            BY <1>1, <3>1, FinishReceipt
        <3>2. CASE ~(Pressure(o) \/ IntegrityStop(o)) /\ stopEvidence
            <4>1. control.circuit \in {"open", "half_open"}
                BY <3>2 DEF ControlOK, EvidenceKept, TypeOK, ControlStates, Circuits
            <4>2. QED
                BY <1>1, <3>2, <4>1, FinishReceipt DEF Finish
        <3>3. CASE ~(Pressure(o) \/ IntegrityStop(o)) /\ ~stopEvidence
            BY <3>3 DEF Finish
        <3>4. QED BY <3>1, <3>2, <3>3 DEF TypeOK
    <2>2. control'.episode = "unknown_only" => control'.circuit = "open" /\ ~stopEvidence'
        <3>1. SUFFICES ASSUME next = "unknown_only"
                       PROVE  control'.circuit = "open" /\ ~stopEvidence'
            BY <1>1
        <3>2. control'.circuit = "open" /\ ~(Pressure(o) \/ IntegrityStop(o))
            BY <1>1, <3>1, FinishReceipt
        <3>3. ~stopEvidence
            BY <3>1, FinishReceipt DEF ControlOK, EvidenceKept
        <3>4. QED
            BY <3>2, <3>3 DEF Finish
    <2>3. Scope[control'.policy] = "global" /\ control'.episode = "unknown_only"
            => Unresolved(req') \subseteq evidenced'
        <3>1. SUFFICES ASSUME Scope[control.policy] = "global", next = "unknown_only"
                       PROVE  Unresolved(req') \subseteq evidenced'
            BY <1>1
        <3>2. CASE control.circuit = "closed"
            BY <1>3, <3>1, <3>2 DEF ControlOK, StopsGlobally
        <3>3. CASE control.episode = "unknown_only"
            BY <1>3, <3>1, <3>3 DEF ControlOK, EvidenceKept
        <3>4. QED
            BY <3>1, <3>2, <3>3, FinishReceipt
    <2>4. QED BY <2>1, <2>2, <2>3 DEF EvidenceKept
<1>7. QED BY <1>4, <1>5, <1>6 DEF ControlOK

\* Initially the circuit is closed and nothing is unresolved.
LEMMA InitControl == Init => ControlOK(req, control, evidenced, stopEvidence)
BY DEF Init, ControlOK, ProbeAlone, StopsGlobally, EvidenceKept, Unresolved, InState

\* Each action keeps the control row consistent with the rows.
LEMMA NextControl == ControlInv /\ [Next]_vars => ControlInv'
<1> SUFFICES ASSUME ControlInv, [Next]_vars PROVE ControlOK(req, control, evidenced, stopEvidence)'
    BY NextType DEF ControlInv
<1> USE DEF rows, fairness
<1>1. ASSUME UNCHANGED <<req, control, evidenced, stopEvidence>>
      PROVE  ControlOK(req, control, evidenced, stopEvidence)'
    BY <1>1 DEF ControlInv
<1>2. ASSUME NEW r \in Requests, CancelBeforeTransport(r)
      PROVE  ControlOK(req, control, evidenced, stopEvidence)'
    BY <1>2, CancelGrantedControl DEF CancelBeforeTransport, ControlInv, TypeOK
<1>3. ASSUME NEW r \in Requests, CancelWaiting(r)
      PROVE  ControlOK(req, control, evidenced, stopEvidence)'
    <2>1. Unresolved(req') = Unresolved(req)
        BY <1>3 DEF CancelWaiting, Unresolved, InState, ControlInv, TypeOK
    <2>2. ProbeAlone(req', control)
        BY <1>3 DEF CancelWaiting, ProbeAlone, Live, Holding, ControlInv, ControlOK, TypeOK
    <2>3. QED
        BY <1>3, <2>1, <2>2
           DEF CancelWaiting, ControlInv, ControlOK, StopsGlobally, EvidenceKept
<1>4. ASSUME NEW r \in Requests, ResolveReconciliation(r)
      PROVE  ControlOK(req, control, evidenced, stopEvidence)'
    <2>1. /\ control'.circuit = control.circuit
          /\ control'.probe = None
          /\ control'.policy = control.policy
          /\ control'.episode = NextEpisode(control, "reconciliation_resolved",
                                            control.circuit, "reconciled")
        BY <1>4, AppendType DEF ResolveReconciliation, ControlInv, TypeOK, ControlStates
    <2>2. control.circuit = "open" =>
            NextEpisode(control, "reconciliation_resolved", control.circuit, "reconciled")
                = control.episode
        BY DEF NextEpisode, Disqualifying
    <2>3. control.circuit # "open" =>
            NextEpisode(control, "reconciliation_resolved", control.circuit, "reconciled")
                = "none"
        BY DEF NextEpisode
    <2>4. Unresolved(req') = Unresolved(req) \ {r}
        BY <1>4 DEF ResolveReconciliation, Unresolved, InState, ControlInv, TypeOK
    <2>5. QED
        BY <1>4, <2>1, <2>2, <2>3, <2>4 DEF ResolveReconciliation, ControlInv,
            ControlOK, ProbeAlone, StopsGlobally, EvidenceKept
<1>5. ASSUME NEW a \in Authorities, NEW t \in Targets, ActivateTarget(a, t)
      PROVE  ControlOK(req, control, evidenced, stopEvidence)'
    <2>1. AppendTransition(control, "target_activated", "closed", "target_activated")
            \in ControlStates
        BY AppendType DEF ControlInv, TypeOK, Circuits
    <2>2. /\ control'.circuit = "closed"
          /\ control'.probe = None
          /\ control'.policy = control.policy
          /\ control'.episode = NextEpisode(control, "target_activated", "closed",
                                            "target_activated")
        BY <1>5, <2>1, AppendType
           DEF ActivateTarget, ControlStates, ControlInv, TypeOK, Circuits
    <2>3. NextEpisode(control, "target_activated", "closed", "target_activated") = "none"
        BY DEF NextEpisode
    <2>4. Unresolved(req) = {}
        BY <1>5 DEF ActivateTarget, Idle, Unresolved, InState, Holding
    <2>5. QED
        BY <1>5, <2>2, <2>3, <2>4 DEF ActivateTarget, ControlInv, ControlOK,
            ProbeAlone, StopsGlobally, EvidenceKept
<1>6. ASSUME NEW a \in Authorities, NEW r \in Requests, ActivateHalfOpen(a, r)
      PROVE  ControlOK(req, control, evidenced, stopEvidence)'
    <2>1. AppendTransition(control, "half_open_activated", "half_open",
                           "half_open_authorized") \in ControlStates
        BY AppendType DEF ControlInv, TypeOK, Circuits
    <2>2. /\ control'.circuit = "half_open"
          /\ control'.probe = r
          /\ control'.policy = control.policy
          /\ control'.episode = NextEpisode(control, "half_open_activated", "half_open",
                                            "half_open_authorized")
        BY <1>6, <2>1, AppendType
           DEF ActivateHalfOpen, ControlStates, ControlInv, TypeOK, Circuits
    <2>3. NextEpisode(control, "half_open_activated", "half_open", "half_open_authorized")
            = "none"
        BY DEF NextEpisode
    <2>4. \A s \in Requests : req[s] \notin Live \cup Holding
        BY <1>6 DEF ActivateHalfOpen, Idle, InState
    <2>5. Unresolved(req) = {}
        BY <2>4 DEF Unresolved, InState, Holding
    <2>6. r # None
        BY ConstantsAssumption
    <2>7. QED
        BY <1>6, <2>2, <2>3, <2>4, <2>5, <2>6 DEF ActivateHalfOpen, ControlInv, ControlOK,
            ProbeAlone, StopsGlobally, EvidenceKept
<1>7. ASSUME NEW a \in Authorities, NEW t \in Targets, SupersedePolicy(a, t)
      PROVE  ControlOK(req, control, evidenced, stopEvidence)'
    <2>1. AppendTransition(control, "policy_superseded", "closed", "policy_superseded")
            \in ControlStates
        BY AppendType DEF ControlInv, TypeOK, Circuits
    <2>2. /\ control'.circuit = "closed"
          /\ control'.probe = None
          /\ control'.policy = control.policy + 1
          /\ control'.episode = NextEpisode(control, "policy_superseded", "closed",
                                            "policy_superseded")
        BY <1>7, <2>1, AppendType
           DEF SupersedePolicy, ControlStates, ControlInv, TypeOK, Circuits
    <2>3. NextEpisode(control, "policy_superseded", "closed", "policy_superseded") = "none"
        BY DEF NextEpisode
    <2>4. \/ Unresolved(req) = {} /\ control.circuit = "closed"
          \/ /\ Scope[control.policy + 1] = "capacity_reservation"
             /\ control.circuit = "open"
             /\ control.episode = "unknown_only"
        BY <1>7 DEF SupersedePolicy, CanIsolate
    <2>5. ~stopEvidence
        BY <2>4 DEF ControlInv, ControlOK, EvidenceKept
    <2>6. QED
        BY <1>7, <2>2, <2>3, <2>4, <2>5 DEF SupersedePolicy, ControlOK,
            ProbeAlone, StopsGlobally, EvidenceKept
<1>8. QED
    BY <1>1, <1>2, <1>3, <1>4, <1>5, <1>6, <1>7, TryAdmitControl, BeginTransportControl,
       FinishControl DEF Next, Lapse, LoseAuthority, VerifyAuthority, IssueControl, vars

\* The inductive invariant behind the circuit's properties.
LEMMA ControlInvariant == Spec => []ControlInv
<1>1. Init => ControlInv
    BY InitType, InitControl DEF ControlInv
<1>2. QED
    BY <1>1, NextControl, PTL DEF Spec

\* While half open, nothing but the bound probe is live and nothing is unresolved.
THEOREM HalfOpenIsExclusive == Spec => []HalfOpenExclusive
<1>1. ControlInv => HalfOpenExclusive
    BY DEF ControlInv, ControlOK, ProbeAlone, HalfOpenExclusive
<1>2. QED BY <1>1, ControlInvariant, PTL

\* Provider pressure and missing evidence keep the circuit from closing until a
\* probe succeeds, through every sibling outcome, resolution and migration.
THEOREM PressureStopsProvider == Spec => []PressureStops
<1>1. ControlInv => PressureStops
    BY DEF ControlInv, ControlOK, EvidenceKept, PressureStops
<1>2. QED BY <1>1, ControlInvariant, PTL

\* Under the provider-global scope an unresolved outcome means an open circuit.
THEOREM UnresolvedStopsGlobally == Spec => []GlobalStop
<1>1. ControlInv => GlobalStop
    BY DEF ControlInv, ControlOK, StopsGlobally, GlobalStop
<1>2. QED BY <1>1, ControlInvariant, PTL

\* An episode that may be isolated has the evidence its snapshot needs.
THEOREM SnapshotIsReadable == Spec => []SnapshotReadable
<1>1. ControlInv => SnapshotReadable
    BY DEF ControlInv, ControlOK, EvidenceKept, SnapshotReadable
<1>2. QED BY <1>1, ControlInvariant, PTL

(***************************************************************************)
(* Capacity: the counters agree with the rows, and the rows fit the target *)
(* and the per-project cap.                                                *)
(***************************************************************************)
Counted(q, u) == \A p \in Projects : u[p] = Cardinality(ActiveOf(q, p))
Within(q, c) == Cardinality(Active(q)) <= EffectiveCapacity(c)
Capped(q, c) == \A p \in Projects : Cardinality(ActiveOf(q, p)) <= Cap[c.policy]

CapacityInv ==
    ControlInv /\ Counted(req, units) /\ Within(req, control) /\ Capped(req, control)

\* Holding rows are finitely many; a smaller set of them counts no more.
LEMMA Counting ==
    ASSUME NEW q, NEW p, NEW S \in SUBSET Active(q)
    PROVE  /\ IsFiniteSet(S) /\ Cardinality(S) \in Nat
           /\ Cardinality(S) <= Cardinality(Active(q))
           /\ IsFiniteSet(ActiveOf(q, p)) /\ Cardinality(ActiveOf(q, p)) \in Nat
           /\ Cardinality(Active(q)) \in Nat
<1>1. Active(q) \in SUBSET Requests /\ S \in SUBSET Requests /\ ActiveOf(q, p) \in SUBSET Requests
    BY DEF Active, ActiveOf, InState
<1>2. QED
    BY <1>1, CountType, FS_Subset

\* Releasing units keeps a capacity that sufficed sufficient.
LEMMA FewerUnits ==
    ASSUME NEW q, NEW q2, NEW c \in ControlStates, NEW d \in ControlStates,
           Active(q2) \subseteq Active(q), Within(q, c), Capped(q, c),
           d.policy = c.policy, c.target \in Nat \ {0}, d.target = c.target,
           d.circuit = "half_open" => c.circuit = "half_open"
    PROVE  Within(q2, d) /\ Capped(q2, d)
<1>1. Within(q2, d)
    <2>1. Cardinality(Active(q2)) <= Cardinality(Active(q))
        BY Counting
    <2>2. EffectiveCapacity(c) \in Nat /\ EffectiveCapacity(d) \in Nat
          /\ EffectiveCapacity(c) <= EffectiveCapacity(d)
        BY DEF EffectiveCapacity
    <2>3. Cardinality(Active(q2)) \in Nat /\ Cardinality(Active(q)) \in Nat
        BY Counting
    <2>4. QED BY <2>1, <2>2, <2>3 DEF Within
<1>2. ASSUME NEW p \in Projects
      PROVE  Cardinality(ActiveOf(q2, p)) <= Cap[d.policy]
    <2>1. ActiveOf(q2, p) \in SUBSET ActiveOf(q, p)
        BY DEF ActiveOf
    <2>2. IsFiniteSet(ActiveOf(q, p)) /\ Cardinality(ActiveOf(q, p)) \in Nat
          /\ Cardinality(ActiveOf(q2, p)) \in Nat
        BY Counting
    <2>3. Cardinality(ActiveOf(q2, p)) <= Cardinality(ActiveOf(q, p))
        BY <2>1, <2>2, FS_Subset
    <2>4. Cap[c.policy] \in Nat
        BY ConstantsAssumption DEF ControlStates
    <2>5. QED BY <2>2, <2>3, <2>4 DEF Capped
<1>3. QED BY <1>1, <1>2 DEF Capped

\* Taking one unit is counted once.
LEMMA UnitTaken ==
    ASSUME NEW q, NEW q2, NEW u \in [Projects -> Int], NEW r \in Requests,
           r \notin Active(q), Active(q2) = Active(q) \cup {r}, Counted(q, u)
    PROVE  Counted(q2, [u EXCEPT ![ProjectOf[r]] = @ + 1])
<1>1. SUFFICES ASSUME NEW p \in Projects
               PROVE  [u EXCEPT ![ProjectOf[r]] = @ + 1][p] = Cardinality(ActiveOf(q2, p))
    BY DEF Counted
<1>2. IsFiniteSet(ActiveOf(q, p)) /\ u[p] = Cardinality(ActiveOf(q, p))
    BY Counting DEF Counted
<1>3. CASE p = ProjectOf[r]
    <2>1. ActiveOf(q2, p) = ActiveOf(q, p) \cup {r} /\ r \notin ActiveOf(q, p)
        BY <1>3 DEF ActiveOf
    <2>2. Cardinality(ActiveOf(q2, p)) = Cardinality(ActiveOf(q, p)) + 1
        BY <1>2, <2>1, FS_AddElement
    <2>3. QED BY <1>2, <1>3, <2>2
<1>4. CASE p # ProjectOf[r]
    <2>1. ActiveOf(q2, p) = ActiveOf(q, p)
        BY <1>4 DEF ActiveOf
    <2>2. QED BY <1>2, <1>4, <2>1
<1>5. QED BY <1>3, <1>4

\* Releasing one unit is counted once.
LEMMA UnitReleased ==
    ASSUME NEW q, NEW q2, NEW u \in [Projects -> Int], NEW r \in Requests,
           r \in Active(q), Active(q2) = Active(q) \ {r}, Counted(q, u)
    PROVE  Counted(q2, [u EXCEPT ![ProjectOf[r]] = @ - 1])
<1>1. SUFFICES ASSUME NEW p \in Projects
               PROVE  [u EXCEPT ![ProjectOf[r]] = @ - 1][p] = Cardinality(ActiveOf(q2, p))
    BY DEF Counted
<1>2. IsFiniteSet(ActiveOf(q, p)) /\ u[p] = Cardinality(ActiveOf(q, p))
    BY Counting DEF Counted
<1>3. CASE p = ProjectOf[r]
    <2>1. ActiveOf(q2, p) = ActiveOf(q, p) \ {r} /\ r \in ActiveOf(q, p)
        BY <1>3 DEF ActiveOf
    <2>2. Cardinality(ActiveOf(q2, p)) = Cardinality(ActiveOf(q, p)) - 1
        BY <1>2, <2>1, FS_RemoveElement
    <2>3. QED BY <1>2, <1>3, <2>2
<1>4. CASE p # ProjectOf[r]
    <2>1. ActiveOf(q2, p) = ActiveOf(q, p)
        BY <1>4 DEF ActiveOf
    <2>2. QED BY <1>2, <1>4, <2>1
<1>5. QED BY <1>3, <1>4

\* Changing a row from one holding state to another, or from one that holds
\* nothing to another, leaves the units alone.
LEMMA UnitsKept ==
    ASSUME NEW q \in [Requests -> States], NEW r \in Requests, NEW v \in States,
           q[r] \in Holding <=> v \in Holding
    PROVE  Active([q EXCEPT ![r] = v]) = Active(q)
BY DEF Active, InState

\* The units of equal holding rows are counted alike.
LEMMA SameUnits ==
    ASSUME NEW q, NEW q2, NEW u, Active(q2) = Active(q), Counted(q, u)
    PROVE  Counted(q2, u)
BY DEF Counted, ActiveOf

\* The sweep gives back exactly the units of the expired grants.
LEMMA SweepUnits ==
    ASSUME TypeOK, Counted(req, units)
    PROVE  /\ Active(SweptReq) = Active(req) \ ExpiredGrants
           /\ Counted(SweptReq, SweptUnits)
<1>1. Active(SweptReq) = Active(req) \ ExpiredGrants
    BY DEF TypeOK, Active, InState, SweptReq, SweptState, ExpiredGrants, Holding, Live
<1>2. ASSUME NEW p \in Projects
      PROVE  SweptUnits[p] = Cardinality(ActiveOf(SweptReq, p))
    <2> DEFINE A == ActiveOf(req, p)
               X == {r \in ExpiredGrants : ProjectOf[r] = p}
    <2>1. ActiveOf(SweptReq, p) = A \ X
        BY <1>1 DEF ActiveOf
    <2>2. X \in SUBSET A
        BY DEF ExpiredGrants, ActiveOf, Active, InState, TypeOK, Holding
    <2>3. IsFiniteSet(A) /\ Cardinality(A) \in Nat
        BY Counting
    <2>4. A \cap X = X
        BY <2>2
    <2>5. Cardinality(A \ X) = Cardinality(A) - Cardinality(X)
        <3> HIDE DEF A, X
        <3>1. Cardinality(A \ X) = Cardinality(A) - Cardinality(A \cap X)
            BY <2>3, FS_Difference
        <3>2. QED BY <2>4, <3>1
    <2>6. SweptUnits[p] = Cardinality(A) - Cardinality(X)
        BY DEF SweptUnits, Counted
    <2>7. QED BY <2>1, <2>5, <2>6
<1>3. QED BY <1>1, <1>2 DEF Counted

\* The target is positive, and the sweep never enters half open.
LEMMA TargetPositive ==
    ASSUME TypeOK
    PROVE  control.target \in Nat \ {0}
<1>1. control.policy \in Policies
    BY DEF TypeOK, ControlStates
<1>2. HardMax[control.policy] \in Nat
    BY <1>1, ConstantsAssumption
<1>3. QED BY <1>2 DEF TypeOK

\* The sweep of a bucket never turns its circuit to half open: only an admission probes.
LEMMA SweepNeverProbes ==
    ASSUME TypeOK
    PROVE  SweptControl.circuit = "half_open" => control.circuit = "half_open"
<1>1. control \in ControlStates /\ "open" \in Circuits /\ "closed" \in Circuits
    BY DEF TypeOK, Circuits
<1>2. ASSUME NEW kind, NEW circuit \in {"open", "closed"}, NEW signal,
             SweptControl = AppendTransition(control, kind, circuit, signal)
      PROVE  SweptControl.circuit # "half_open"
    BY <1>1, <1>2, AppendType
<1>3. QED
    BY <1>2, Zenon DEF SweptControl

\* After the sweep everything still fits.
LEMMA SweepFits ==
    ASSUME CapacityInv
    PROVE  /\ Counted(SweptReq, SweptUnits)
           /\ Within(SweptReq, SweptControl) /\ Capped(SweptReq, SweptControl)
<1> USE DEF CapacityInv, ControlInv
<1>1. Active(SweptReq) \subseteq Active(req)
    BY SweepUnits
<1>2. control \in ControlStates
    BY DEF TypeOK
<1>3. QED
    BY <1>1, <1>2, SweepUnits, SweepType, TargetPositive, SweepNeverProbes, FewerUnits

\* A cancelled grant gives its one unit back.
LEMMA CancelGrantedFits ==
    ASSUME NEW r \in Requests, NEW q \in [Requests -> States],
           NEW u \in [Projects -> Int], NEW c \in ControlStates, NEW reason,
           c.target \in Nat \ {0}, q[r] = "granted", CancelGranted(r, q, u, c, reason),
           Counted(q, u), Within(q, c), Capped(q, c)
    PROVE  Counted(req', units') /\ Within(req', control') /\ Capped(req', control')
<1>1. r \in Active(q) /\ Active(req') = Active(q) \ {r}
    BY DEF CancelGranted, Active, InState, Holding
<1>2. Counted(req', units')
    BY <1>1, UnitReleased DEF CancelGranted
<1>3. /\ control' \in ControlStates
      /\ control'.policy = c.policy /\ control'.target = c.target
      /\ control'.circuit = "half_open" => c.circuit = "half_open"
    <2>1. "open" \in Circuits
        BY DEF Circuits
    <2>2. QED BY <2>1, AppendType DEF CancelGranted
<1>4. QED
    BY <1>1, <1>2, <1>3, FewerUnits

\* try_admit grants only what fits the target and the project's cap.
LEMMA TryAdmitFits ==
    ASSUME CapacityInv, NEW r \in Requests, TryAdmit(r)
    PROVE  Counted(req', units') /\ Within(req', control') /\ Capped(req', control')
<1> USE DEF CapacityInv, ControlInv
<1>1. /\ SweptReq \in [Requests -> States] /\ SweptUnits \in [Projects -> Int]
      /\ SweptControl \in ControlStates /\ SweptControl.policy = control.policy
    BY SweepType
<1>2. CASE AdmitRaises(r) /\ UNCHANGED <<req, lapsed, units, fairness, control>>
    BY <1>2
<1>3. CASE AdmitSweepsOnly(r)
    BY <1>3, SweepFits DEF AdmitSweepsOnly, CommitSweep
<1>4. CASE /\ SweptReq[r] \in {"absent", "waiting"}
           /\ control' = SweptControl
           /\ AdmitWaits(r)
    <2>1. Active(req') = Active(SweptReq)
        BY <1>1, <1>4, UnitsKept DEF AdmitWaits, InsertedReq, States, Holding
    <2>2. QED
        BY <1>4, <2>1, SweepFits, SameUnits DEF AdmitWaits, Within, Capped, ActiveOf
<1>5. CASE /\ SweptReq[r] \in {"absent", "waiting"}
           /\ control' = SweptControl
           /\ AdmitGrants(r)
    <2> DEFINE Q == InsertedReq(r)
    <2>1. Active(Q) = Active(SweptReq)
        BY <1>1, <1>5, UnitsKept DEF InsertedReq, States, Holding
    <2>2. r \notin Active(Q) /\ Active(req') = Active(Q) \cup {r}
        BY <1>1, <1>5 DEF AdmitGrants, InsertedReq, Active, InState, Holding
    <2>3. Counted(Q, SweptUnits)
        BY <2>1, SweepFits, SameUnits
    <2>4. Counted(req', units')
        BY <1>1, <1>5, <2>2, <2>3, UnitTaken DEF AdmitGrants
    <2>5. IsFiniteSet(Active(Q)) /\ Cardinality(Active(req')) = Cardinality(Active(Q)) + 1
        BY <2>2, Counting, FS_AddElement
    <2>6. Within(req', control')
        BY <1>5, <2>5 DEF AdmitGrants, HasTurn, Within
    <2>7. r \in Eligible(Q)
        BY <1>5 DEF AdmitGrants, HasTurn, Selected, LaneRows
    <2>8. ASSUME NEW p \in Projects
          PROVE  Cardinality(ActiveOf(req', p)) <= Cap[control'.policy]
        <3>1. CASE p = ProjectOf[r]
            <4>1. ActiveOf(req', p) = ActiveOf(Q, p) \cup {r} /\ r \notin ActiveOf(Q, p)
                BY <2>2, <3>1 DEF ActiveOf
            <4>2. Cardinality(ActiveOf(req', p)) = Cardinality(ActiveOf(Q, p)) + 1
                BY <4>1, Counting, FS_AddElement
            <4>3. Cardinality(ActiveOf(Q, p)) + 1 <= Cap[control.policy]
                BY <2>7, <3>1 DEF Eligible
            <4>4. QED BY <1>1, <1>5, <4>2, <4>3
        <3>2. CASE p # ProjectOf[r]
            <4>1. ActiveOf(req', p) = ActiveOf(SweptReq, p)
                BY <2>1, <2>2, <3>2 DEF ActiveOf
            <4>2. QED BY <1>5, <4>1, SweepFits DEF Capped
        <3>3. QED BY <3>1, <3>2
    <2>9. QED BY <2>4, <2>6, <2>8 DEF Capped
<1>6. QED
    BY <1>2, <1>3, <1>4, <1>5 DEF TryAdmit

\* A transport moves a grant's unit or gives it back.
LEMMA BeginTransportFits ==
    ASSUME CapacityInv, NEW r \in Requests, BeginTransport(r)
    PROVE  Counted(req', units') /\ Within(req', control') /\ Capped(req', control')
<1> USE DEF CapacityInv, ControlInv
<1>1. /\ SweptReq \in [Requests -> States] /\ SweptUnits \in [Projects -> Int]
      /\ SweptControl \in ControlStates /\ SweptControl.target = control.target
    BY SweepType
<1>2. CASE CommitSweep
    BY <1>2, SweepFits DEF CommitSweep
<1>3. CASE /\ SweptReq[r] = "granted"
           /\ CancelGranted(r, SweptReq, SweptUnits, SweptControl, "grant_blocked")
    BY <1>1, <1>3, SweepFits, TargetPositive, CancelGrantedFits
<1>4. CASE /\ SweptReq[r] = "granted"
           /\ req' = [SweptReq EXCEPT ![r] = "dispatched"]
           /\ units' = SweptUnits
           /\ control' = SweptControl
    <2>1. Active(req') = Active(SweptReq)
        BY <1>1, <1>4, UnitsKept DEF States, Holding
    <2>2. QED
        BY <1>4, <2>1, SweepFits, SameUnits DEF Within, Capped, ActiveOf
<1>5. QED
    BY <1>2, <1>3, <1>4 DEF BeginTransport

\* An outcome keeps its unit while unresolved and gives it back otherwise.
LEMMA FinishFits ==
    ASSUME CapacityInv, NEW r \in Requests, NEW o \in Outcomes, Finish(r, o)
    PROVE  Counted(req', units') /\ Within(req', control') /\ Capped(req', control')
<1> USE DEF CapacityInv, ControlInv
<1>1. req \in [Requests -> States] /\ units \in [Projects -> Int] /\ control \in ControlStates
    BY DEF TypeOK
<1>2. /\ control' \in ControlStates
      /\ control'.policy = control.policy /\ control'.target = control.target
      /\ control'.circuit # "half_open"
    BY <1>1, FinishReceipt, AppendType DEF Finish, Circuits
<1>3. CASE Ambiguous(o)
    <2>1. Active(req') = Active(req)
        BY <1>1, <1>3, UnitsKept DEF Finish, States, Holding
    <2>2. Counted(req', units')
        BY <1>3, <2>1, SameUnits DEF Finish
    <2>3. QED
        BY <1>1, <1>2, <2>1, <2>2, TargetPositive, FewerUnits
<1>4. CASE ~Ambiguous(o)
    <2>1. r \in Active(req) /\ Active(req') = Active(req) \ {r}
        BY <1>1, <1>4 DEF Finish, Active, InState, Holding
    <2>2. Counted(req', units')
        BY <1>1, <1>4, <2>1, UnitReleased DEF Finish
    <2>3. QED
        BY <1>1, <1>2, <2>1, <2>2, TargetPositive, FewerUnits
<1>5. QED BY <1>3, <1>4

\* Each action keeps the counters exact and the units within their bounds.
LEMMA NextCapacity == CapacityInv /\ [Next]_vars => CapacityInv'
<1> SUFFICES ASSUME CapacityInv, [Next]_vars
             PROVE  Counted(req', units') /\ Within(req', control') /\ Capped(req', control')
    BY NextControl DEF CapacityInv, Counted, Within, Capped, EffectiveCapacity, ActiveOf,
        Active, InState
<1> USE DEF rows, fairness, CapacityInv, ControlInv
<1>1. req \in [Requests -> States] /\ units \in [Projects -> Int] /\ control \in ControlStates
    BY DEF TypeOK
<1>2. CASE UNCHANGED <<req, units, control>>
    BY <1>2
<1>3. ASSUME NEW r \in Requests, CancelBeforeTransport(r)
      PROVE  Counted(req', units') /\ Within(req', control') /\ Capped(req', control')
    BY <1>1, <1>3, TargetPositive, CancelGrantedFits DEF CancelBeforeTransport
<1>4. ASSUME NEW r \in Requests, CancelWaiting(r)
      PROVE  Counted(req', units') /\ Within(req', control') /\ Capped(req', control')
    <2>1. Active(req') = Active(req)
        BY <1>1, <1>4, UnitsKept DEF CancelWaiting, States, Holding
    <2>2. QED
        BY <1>4, <2>1, SameUnits DEF CancelWaiting, Within, Capped, ActiveOf
<1>5. ASSUME NEW r \in Requests, ResolveReconciliation(r)
      PROVE  Counted(req', units') /\ Within(req', control') /\ Capped(req', control')
    <2>1. r \in Active(req) /\ Active(req') = Active(req) \ {r}
        BY <1>1, <1>5 DEF ResolveReconciliation, Active, InState, Holding
    <2>2. Counted(req', units')
        BY <1>1, <1>5, <2>1, UnitReleased DEF ResolveReconciliation
    <2>3. /\ control' \in ControlStates
          /\ control'.policy = control.policy /\ control'.target = control.target
          /\ control'.circuit = control.circuit
        BY <1>1, <1>5, AppendType DEF ResolveReconciliation, ControlStates
    <2>4. QED
        BY <1>1, <2>1, <2>2, <2>3, TargetPositive, FewerUnits
<1>6. ASSUME NEW a \in Authorities, NEW t \in Targets, ActivateTarget(a, t)
      PROVE  Counted(req', units') /\ Within(req', control') /\ Capped(req', control')
    <2>1. Active(req) = {}
        BY <1>6 DEF ActivateTarget, Idle, Active, InState
    <2>2. AppendTransition(control, "target_activated", "closed", "target_activated")
            \in ControlStates
        BY <1>1, AppendType DEF Circuits
    <2>3. control'.policy = control.policy /\ control'.target = t /\ control'.circuit = "closed"
        BY <1>1, <1>6, <2>2, AppendType DEF ActivateTarget, ControlStates, Circuits
    <2>4. t \in Nat
        BY ConstantsAssumption
    <2>5. Within(req', control')
        BY <1>6, <2>1, <2>3, <2>4, FS_EmptySet DEF ActivateTarget, Within, EffectiveCapacity
    <2>6. QED
        BY <1>6, <2>3, <2>5 DEF ActivateTarget, Capped
<1>7. ASSUME NEW a \in Authorities, NEW r \in Requests, ActivateHalfOpen(a, r)
      PROVE  Counted(req', units') /\ Within(req', control') /\ Capped(req', control')
    <2>1. Active(req) = {}
        BY <1>7 DEF ActivateHalfOpen, Idle, Active, InState
    <2>2. AppendTransition(control, "half_open_activated", "half_open",
                           "half_open_authorized") \in ControlStates
        BY <1>1, AppendType DEF Circuits
    <2>3. control'.policy = control.policy /\ control'.circuit = "half_open"
        BY <1>1, <1>7, <2>2, AppendType DEF ActivateHalfOpen, ControlStates, Circuits
    <2>4. Within(req', control')
        BY <1>7, <2>1, <2>3, FS_EmptySet DEF ActivateHalfOpen, Within, EffectiveCapacity
    <2>5. QED
        BY <1>7, <2>3, <2>4 DEF ActivateHalfOpen, Capped
<1>8. ASSUME NEW a \in Authorities, NEW t \in Targets, SupersedePolicy(a, t)
      PROVE  Counted(req', units') /\ Within(req', control') /\ Capped(req', control')
    <2>1. req' = req /\ units' = units
        BY <1>8 DEF SupersedePolicy
    <2>2. AppendTransition(control, "policy_superseded", "closed", "policy_superseded")
            \in ControlStates
        BY <1>1, AppendType DEF Circuits
    <2>3. /\ control'.policy = control.policy + 1
          /\ control'.target = t /\ control'.circuit = "closed"
        BY <1>1, <1>8, <2>2, AppendType DEF SupersedePolicy, ControlStates, Circuits
    <2>4. Active(req) = Unresolved(req)
        BY <1>8 DEF SupersedePolicy, Active, Unresolved, InState, Live, Holding
    <2>5. Within(req', control')
        BY <1>8, <2>1, <2>3, <2>4
           DEF SupersedePolicy, FitsSuccessor, Within, EffectiveCapacity
    <2>6. Capped(req', control')
        BY <1>8, <2>1, <2>3 DEF SupersedePolicy, FitsSuccessor, Capped, Counted
    <2>7. QED BY <2>1, <2>5, <2>6
<1>9. QED
    BY <1>2, <1>3, <1>4, <1>5, <1>6, <1>7, <1>8, TryAdmitFits, BeginTransportFits, FinishFits
       DEF Next, Lapse, LoseAuthority, VerifyAuthority, IssueControl, vars

\* The inductive invariant behind the capacity properties.
LEMMA CapacityInvariant == Spec => []CapacityInv
<1>1. Init => CapacityInv
    <2> SUFFICES ASSUME Init PROVE CapacityInv
        OBVIOUS
    <2>1. Active(req) = {} /\ \A p : ActiveOf(req, p) = {}
        BY DEF Init, Active, ActiveOf, InState, Holding
    <2>2. ControlInv
        BY InitType, InitControl DEF ControlInv
    <2>3. Cardinality({}) = 0
        BY FS_EmptySet
    <2>4. Counted(req, units)
        BY <2>1, <2>3 DEF Init, Counted
    <2>5. control.target \in Nat \ {0} /\ Cap[control.policy] \in Nat
        BY <2>2, TargetPositive, ConstantsAssumption DEF ControlInv, TypeOK, ControlStates
    <2>6. Within(req, control) /\ Capped(req, control)
        BY <2>1, <2>3, <2>5 DEF Within, Capped, EffectiveCapacity
    <2>7. QED
        BY <2>2, <2>4, <2>6 DEF CapacityInv
<1>2. QED
    BY <1>1, NextCapacity, PTL DEF Spec

\* Grants, transports and unresolved outcomes never exceed the effective capacity.
THEOREM CapacityIsBounded == Spec => []CapacityBound
<1>1. CapacityInv => CapacityBound
    BY DEF CapacityInv, Within, CapacityBound
<1>2. QED BY <1>1, CapacityInvariant, PTL

\* No project exceeds the current policy's per-project cap.
THEOREM ProjectCapHolds == Spec => []ProjectCap
<1>1. CapacityInv => ProjectCap
    BY DEF CapacityInv, Capped, ProjectCap
<1>2. QED BY <1>1, CapacityInvariant, PTL

\* The denormalised per-project counters are the numbers of holding rows.
THEOREM UnitsAreExact == Spec => []UnitsAgree
<1>1. CapacityInv => UnitsAgree
    BY DEF CapacityInv, Counted, UnitsAgree
<1>2. QED BY <1>1, CapacityInvariant, PTL

\* Both caps together, as the runs check them.
THEOREM CapacityIsHeld == Spec => []CapacityHolds
<1>1. CapacityBound /\ ProjectCap => CapacityHolds
    BY DEF CapacityHolds
<1>2. QED BY <1>1, CapacityIsBounded, ProjectCapHolds, PTL

\* Pressure, unresolved outcomes and the evidence for isolating them together.
THEOREM StopsAreHeld == Spec => []StopsHold
<1>1. PressureStops /\ GlobalStop /\ SnapshotReadable => StopsHold
    BY DEF StopsHold
<1>2. QED
    BY <1>1, PressureStopsProvider, UnresolvedStopsGlobally, SnapshotIsReadable, PTL

(***************************************************************************)
(* What one step does to the rows: one row moves, the others are at most   *)
(* swept.                                                                  *)
(***************************************************************************)
RowMoves ==
    { <<"absent", "waiting">>, <<"absent", "granted">>, <<"waiting", "granted">>,
      <<"waiting", "cancelled">>, <<"granted", "dispatched">>, <<"granted", "cancelled">>,
      <<"dispatched", "completed">>, <<"dispatched", "reconciliation_required">>,
      <<"reconciliation_required", "reconciled">> }

MovesOnly(r) ==
    /\ req' \in [Requests -> States]
    /\ req'[r] = req[r] \/ <<req[r], req'[r]>> \in RowMoves
    /\ \A s \in Requests \ {r} : req'[s] \in {req[s], SweptState(s)}

\* The sweep moves a live row along one of the edges.
LEMMA SweepMoves ==
    ASSUME TypeOK, NEW s \in Requests
    PROVE  /\ SweptState(s) = req[s] \/ <<req[s], SweptState(s)>> \in RowMoves
           /\ SweptReq[s] = SweptState(s)
           /\ SweptState(s) \in {"absent", "waiting", "granted"} => SweptState(s) = req[s]
BY DEF TypeOK, SweptReq, SweptState, RowMoves, InState, Live

\* Each step moves one row along an edge, and sweeps the others or leaves them alone.
LEMMA RowSteps ==
    ASSUME TypeOK, [Next]_vars
    PROVE  UNCHANGED req \/ \E r \in Requests : MovesOnly(r)
<1> USE DEF TypeOK, rows
<1>1. ASSUME NEW r \in Requests, TryAdmit(r) PROVE UNCHANGED req \/ MovesOnly(r)
    <2>1. SweptReq \in [Requests -> States]
        BY SweepType
    <2>2. CASE req' = SweptReq
        BY <2>1, <2>2, SweepMoves DEF MovesOnly
    <2>3. CASE SweptReq[r] \in {"absent", "waiting"} /\ (AdmitWaits(r) \/ AdmitGrants(r))
        BY <2>1, <2>3, SweepMoves
           DEF AdmitWaits, AdmitGrants, InsertedReq, MovesOnly, RowMoves, States
    <2>4. QED
        BY <1>1, <2>2, <2>3 DEF TryAdmit, AdmitSweepsOnly, CommitSweep
<1>2. ASSUME NEW r \in Requests, BeginTransport(r) PROVE MovesOnly(r)
    <2>1. SweptReq \in [Requests -> States]
        BY SweepType
    <2>2. CASE req' = SweptReq
        BY <2>1, <2>2, SweepMoves DEF MovesOnly
    <2>3. CASE /\ SweptReq[r] = "granted"
               /\ \/ req' = [SweptReq EXCEPT ![r] = "cancelled"]
                  \/ req' = [SweptReq EXCEPT ![r] = "dispatched"]
        BY <2>1, <2>3, SweepMoves DEF MovesOnly, RowMoves, States
    <2>4. QED
        BY <1>2, <2>2, <2>3 DEF BeginTransport, CancelGranted, CommitSweep
<1>3. ASSUME NEW r \in Requests, CancelBeforeTransport(r) \/ CancelWaiting(r)
      PROVE  MovesOnly(r)
    BY <1>3
       DEF CancelBeforeTransport, CancelGranted, CancelWaiting, MovesOnly, RowMoves, States
<1>4. ASSUME NEW r \in Requests, ResolveReconciliation(r) PROVE MovesOnly(r)
    BY <1>4 DEF ResolveReconciliation, MovesOnly, RowMoves, States
<1>5. ASSUME NEW r \in Requests, NEW o \in Outcomes, Finish(r, o) PROVE MovesOnly(r)
    BY <1>5 DEF Finish, MovesOnly, RowMoves, States
<1>6. QED
    BY <1>1, <1>2, <1>3, <1>4, <1>5
       DEF Next, Lapse, LoseAuthority, VerifyAuthority, IssueControl, ActivateTarget,
           ActivateHalfOpen, SupersedePolicy, vars

\* A unit in transport or unresolved is given back by an answer or a resolution.
THEOREM UnitsReleasedByEvidence == Spec => ReleasedByEvidence
<1> DEFINE Evidenced ==
        \A r \in Requests :
            req[r] \in {"dispatched", "reconciliation_required"} /\ req'[r] \notin Holding
                => \/ req[r] = "dispatched" /\ req'[r] = "completed"
                   \/ req[r] = "reconciliation_required" /\ req'[r] = "reconciled"
<1>1. TypeOK /\ [Next]_vars => Evidenced
    <2> SUFFICES ASSUME TypeOK, [Next]_vars, NEW s \in Requests,
                        req[s] \in {"dispatched", "reconciliation_required"},
                        req'[s] \notin Holding
                 PROVE  \/ req[s] = "dispatched" /\ req'[s] = "completed"
                        \/ req[s] = "reconciliation_required" /\ req'[s] = "reconciled"
        OBVIOUS
    <2>1. req'[s] = req[s] \/ <<req[s], req'[s]>> \in RowMoves
        BY RowSteps, SweepMoves DEF MovesOnly
    <2>2. QED
        BY <2>1 DEF RowMoves, Holding
<1>2. QED
    BY <1>1, TypeCorrect, PTL DEF Spec, ReleasedByEvidence

(***************************************************************************)
(* The circuit.                                                            *)
(***************************************************************************)
\* Nothing but an operator's authority leaves an open circuit.
THEOREM OpenIsLeftByAuthority == Spec => OpenLeftByAuthority
<1> DEFINE Authorized ==
        control.circuit = "open" /\ control'.circuit # "open"
            => \E a \in Authorities : ctl[a] # Spent /\ ctl'[a] = Spent
<1>1. TypeOK /\ [Next]_vars => Authorized
    <2> SUFFICES ASSUME TypeOK, [Next]_vars, control.circuit = "open",
                        control'.circuit # "open"
                 PROVE  \E a \in Authorities : ctl[a] # Spent /\ ctl'[a] = Spent
        OBVIOUS
    <2>1. control \in ControlStates /\ "open" \in Circuits
        BY DEF TypeOK, Circuits
    <2>2. SweptControl.circuit = "open"
        BY <2>1, AppendType DEF SweptControl
    <2>3. ASSUME NEW r \in Requests, NEW q, NEW u, NEW c, NEW reason,
                 c.circuit = "open", CancelGranted(r, q, u, c, reason)
          PROVE  FALSE
        BY <2>3 DEF CancelGranted
    <2>4. ASSUME NEW r \in Requests, TryAdmit(r) \/ BeginTransport(r) PROVE FALSE
        BY <2>2, <2>3, <2>4 DEF TryAdmit, AdmitSweepsOnly, BeginTransport, CommitSweep
    <2>5. ASSUME NEW r \in Requests, CancelBeforeTransport(r) \/ CancelWaiting(r)
          PROVE  FALSE
        BY <2>3, <2>5 DEF CancelBeforeTransport, CancelWaiting
    <2>6. ASSUME NEW r \in Requests, ResolveReconciliation(r) PROVE FALSE
        BY <2>1, <2>6, AppendType DEF ResolveReconciliation
    <2>7. ASSUME NEW r \in Requests, NEW o \in Outcomes, Finish(r, o) PROVE FALSE
        <3>1. FinishCircuit(o) = "open"
            BY DEF FinishCircuit, Isolated
        <3>2. QED
            BY <2>1, <2>7, <3>1, AppendType DEF Finish
    <2>8. ASSUME NEW a \in Authorities, NEW b, b.kind # "spent", Consume(a, b)
          PROVE  ctl[a] # Spent /\ ctl'[a] = Spent
        BY <2>8 DEF Consume, Spent, TypeOK
    <2>9. ASSUME NEW a \in Authorities, NEW t \in Targets,
                 ActivateTarget(a, t) \/ SupersedePolicy(a, t)
          PROVE  ctl[a] # Spent /\ ctl'[a] = Spent
        BY <2>8, <2>9 DEF ActivateTarget, SupersedePolicy
    <2>10. ASSUME NEW a \in Authorities, NEW r \in Requests, ActivateHalfOpen(a, r)
           PROVE  ctl[a] # Spent /\ ctl'[a] = Spent
        BY <2>8, <2>10 DEF ActivateHalfOpen
    <2>11. QED
        BY <2>4, <2>5, <2>6, <2>7, <2>9, <2>10
           DEF Next, Lapse, LoseAuthority, VerifyAuthority, IssueControl, vars
<1>2. QED
    BY <1>1, TypeCorrect, PTL DEF Spec, OpenLeftByAuthority

(***************************************************************************)
(* The order of grants.                                                    *)
(***************************************************************************)
\* Only requests that may wait are ordered, and no two of them both ways: a caller
\* reads the clock for a request that has no row yet only once at a time.
OrderInv ==
    /\ TypeOK
    /\ before \subseteq MayWait(req, checked) \X MayWait(req, checked)
    /\ \A r, s \in Requests : <<r, s>> \in before => <<s, r>> \notin before

\* No step orders two requests both ways.
LEMMA NextOrder == OrderInv /\ [Next]_vars => OrderInv'
<1> SUFFICES ASSUME OrderInv, [Next]_vars PROVE OrderInv'
    OBVIOUS
<1> USE DEF rows
<1>1. TypeOK /\ TypeOK'
    BY NextType DEF OrderInv
<1>2. ASSUME KeepOrder PROVE OrderInv'
    BY <1>1, <1>2 DEF KeepOrder, OrderInv
<1>3. ASSUME before' = before, MayWait(req, checked) \subseteq MayWait(req, checked)'
      PROVE  OrderInv'
    BY <1>1, <1>3 DEF OrderInv
<1>4. ASSUME NEW r \in Requests, VerifyAuthority(r) PROVE OrderInv'
    <2>1. MayWait(req, checked) \subseteq MayWait(req, checked)'
        BY <1>4 DEF VerifyAuthority, MayWait
    <2>2. CASE req[r] = "absent"
        <3>1. before' = Youngest(r) /\ r \notin MayWait(req, checked)
            BY <1>4, <2>2 DEF VerifyAuthority, MayWait
        <3>2. r \in MayWait(req, checked)'
            BY <1>4, <2>2 DEF VerifyAuthority, MayWait
        <3>3. QED
            BY <1>1, <2>1, <3>1, <3>2 DEF OrderInv, Youngest
    <2>3. CASE req[r] # "absent"
        BY <1>3, <1>4, <2>1, <2>3 DEF VerifyAuthority
    <2>4. QED
        BY <2>2, <2>3
<1>5. ASSUME NEW r \in Requests,
             CancelBeforeTransport(r) \/ ResolveReconciliation(r) \/ Lapse(r) \/ LoseAuthority(r)
      PROVE  OrderInv'
    <2>1. MayWait(req, checked) \subseteq MayWait(req, checked)'
        BY <1>1, <1>5 DEF CancelBeforeTransport, CancelGranted, ResolveReconciliation, Lapse,
               LoseAuthority, MayWait, TypeOK
    <2>2. QED
        BY <1>3, <1>5, <2>1
           DEF CancelBeforeTransport, ResolveReconciliation, Lapse, LoseAuthority
<1>6. ASSUME NEW r \in Requests, NEW o \in Outcomes, Finish(r, o) PROVE OrderInv'
    BY <1>1, <1>3, <1>6 DEF Finish, MayWait, TypeOK
<1>7. CASE UNCHANGED <<req, before, checked>>
    BY <1>3, <1>7 DEF MayWait
<1>8. QED
    BY <1>2, <1>4, <1>5, <1>6, <1>7
       DEF Next, TryAdmit, BeginTransport, CancelWaiting, SupersedePolicy, IssueControl,
           ActivateTarget, ActivateHalfOpen, vars

\* The recorded order is one of requests that may wait, and antisymmetric.
LEMMA OrderInvariant == Spec => []OrderInv
<1>1. Init => OrderInv
    BY InitType DEF Init, OrderInv
<1>2. QED
    BY <1>1, NextOrder, PTL DEF Spec

\* try_admit grants to r, and whoever waits afterwards took part in the selection.
Granting(r) ==
    /\ AdmitGrants(r)
    /\ SweptReq[r] \in {"absent", "waiting"}
    /\ \A s \in Requests : req'[s] = "waiting" => s # r /\ InsertedReq(r)[s] = "waiting"

\* A grant is made by try_admit, and the grant sequence counts nothing else.
LEMMA GrantStep ==
    ASSUME TypeOK, [Next]_vars
    PROVE  /\ grantSeq' # grantSeq => \E r \in Requests : Granting(r)
           /\ \A r \in Requests : req[r] # "granted" /\ req'[r] = "granted" => Granting(r)
<1> USE DEF TypeOK, rows, fairness
<1>1. ASSUME NEW r \in Requests, SweptReq[r] \in {"absent", "waiting"}, AdmitGrants(r)
      PROVE  Granting(r) /\ \A s \in Requests : req[s] # "granted" /\ req'[s] = "granted" => s = r
    <2>1. SweptReq \in [Requests -> States]
        BY SweepType
    <2>2. QED
        BY <1>1, <2>1, SweepMoves DEF AdmitGrants, Granting, InsertedReq
<1>2. ASSUME NEW r \in Requests, TryAdmit(r), ~(SweptReq[r] \in {"absent", "waiting"} /\ AdmitGrants(r))
      PROVE  /\ grantSeq' = grantSeq
             /\ \A s \in Requests : req'[s] = "granted" => req[s] = "granted"
    <2>1. SweptReq \in [Requests -> States]
        BY SweepType
    <2>2. CASE AdmitWaits(r)
        BY <2>1, <2>2, SweepMoves DEF AdmitWaits, InsertedReq
    <2>3. CASE req' \in {req, SweptReq} /\ UNCHANGED grantSeq
        BY <2>3, SweepMoves
    <2>4. QED
        BY <1>2, <2>2, <2>3 DEF TryAdmit, AdmitSweepsOnly, CommitSweep
<1>3. ASSUME NEW r \in Requests, BeginTransport(r)
      PROVE  /\ grantSeq' = grantSeq
             /\ \A s \in Requests : req'[s] = "granted" => req[s] = "granted"
    <2>1. SweptReq \in [Requests -> States]
        BY SweepType
    <2>2. \/ req' = SweptReq
          \/ req' = [SweptReq EXCEPT ![r] = "cancelled"]
          \/ req' = [SweptReq EXCEPT ![r] = "dispatched"]
        BY <1>3 DEF BeginTransport, CancelGranted, CommitSweep
    <2>3. QED
        BY <1>3, <2>1, <2>2, SweepMoves DEF BeginTransport
<1>4. ASSUME NEW r \in Requests, CancelBeforeTransport(r) \/ CancelWaiting(r)
                \/ ResolveReconciliation(r) \/ \E o \in Outcomes : Finish(r, o)
      PROVE  /\ grantSeq' = grantSeq
             /\ \A s \in Requests : req'[s] = "granted" => req[s] = "granted"
    BY <1>4 DEF CancelBeforeTransport, CancelGranted, CancelWaiting, ResolveReconciliation, Finish
<1>5. QED
    BY <1>1, <1>2, <1>3, <1>4
       DEF Next, TryAdmit, Lapse, LoseAuthority, VerifyAuthority, IssueControl, ActivateTarget,
           ActivateHalfOpen, SupersedePolicy, vars

\* A waiting request whose project has room is eligible while another is granted.
LEMMA WaitingIsEligible ==
    ASSUME TypeOK, NEW r \in Requests, Granting(r), NEW s \in Requests, req'[s] = "waiting"
    PROVE  /\ r \in LaneRows(InsertedReq(r))
           /\ Cardinality(ActiveOf(SweptReq, ProjectOf[s])) + 1 <= Cap[control.policy]
                => s \in Eligible(InsertedReq(r))
           /\ ProjectOf[s] = ProjectOf[r] => s \in Eligible(InsertedReq(r))
<1>1. r \in Selected(InsertedReq(r)) /\ r \in Eligible(InsertedReq(r))
    BY DEF Granting, AdmitGrants, HasTurn, Selected, LaneRows
<1>2. Active(InsertedReq(r)) = Active(SweptReq)
    <2>1. SweptReq \in [Requests -> States]
        BY SweepType
    <2>2. QED
        BY <2>1 DEF Granting, InsertedReq, Active, InState, Holding
<1>3. \A p : ActiveOf(InsertedReq(r), p) = ActiveOf(SweptReq, p)
    BY <1>2 DEF ActiveOf
<1>4. InsertedReq(r)[s] = "waiting"
    BY DEF Granting
<1>5. QED
    BY <1>1, <1>3, <1>4 DEF Eligible, Selected, InState

\* Requests of one project and lane are granted in their order, and the lanes alternate.
THEOREM GrantsKeepOrder == Spec => GrantsInOrder
<1> DEFINE InOrder ==
        \A r \in Requests : req[r] # "granted" /\ req'[r] = "granted" =>
            \A s \in Requests :
                req'[s] = "waiting" /\ ProjectOf[s] = ProjectOf[r] /\ LaneOf[s] = LaneOf[r]
                    => <<s, r>> \notin before
           Alternate ==
        grantSeq' # grantSeq /\ (lastLane = "interactive" <=> lastLane' = "interactive")
            => \A s \in Requests :
                req'[s] = "waiting" /\ (LaneOf[s] = "interactive" <=> lastLane # "interactive")
                    => Cardinality(ActiveOf(SweptReq, ProjectOf[s])) >= Cap[control.policy]
<1>1. OrderInv /\ [Next]_vars => InOrder
    <2> SUFFICES ASSUME OrderInv, [Next]_vars,
                        NEW r \in Requests, req[r] # "granted", req'[r] = "granted",
                        NEW s \in Requests, req'[s] = "waiting",
                        ProjectOf[s] = ProjectOf[r], LaneOf[s] = LaneOf[r]
                 PROVE  <<s, r>> \notin before
        OBVIOUS
    <2>1. TypeOK /\ Granting(r)
        BY GrantStep DEF OrderInv
    <2>2. s \in LaneRows(InsertedReq(r)) /\ s # r
        BY <2>1, WaitingIsEligible DEF LaneRows, Granting
    <2>3. Precedes(r, s)
        BY <2>1, <2>2 DEF Granting, AdmitGrants, HasTurn, Selected
    <2>4. lastGrant[ProjectOf[r]] \in Nat
        BY <2>1, ConstantsAssumption DEF TypeOK
    <2>5. <<r, s>> \in before
        BY <2>3, <2>4 DEF Precedes
    <2>6. QED
        BY <2>5 DEF OrderInv
<1>2. OrderInv /\ [Next]_vars => Alternate
    <2> SUFFICES ASSUME OrderInv, [Next]_vars, grantSeq' # grantSeq,
                        lastLane = "interactive" <=> lastLane' = "interactive",
                        NEW s \in Requests, req'[s] = "waiting",
                        LaneOf[s] = "interactive" <=> lastLane # "interactive",
                        ~(Cardinality(ActiveOf(SweptReq, ProjectOf[s])) >= Cap[control.policy])
                 PROVE  FALSE
        OBVIOUS
    <2>1. TypeOK
        BY DEF OrderInv
    <2>2. PICK r \in Requests : Granting(r)
        BY <2>1, GrantStep
    <2>3. LaneOf[r] = "interactive" <=> lastLane = "interactive"
        BY <2>2 DEF Granting, AdmitGrants
    <2>4. Cardinality(ActiveOf(SweptReq, ProjectOf[s])) \in Nat /\ Cap[control.policy] \in Nat
        BY <2>1, CountType, ConstantsAssumption
           DEF ActiveOf, Active, InState, TypeOK, ControlStates
    <2>5. s \in Eligible(InsertedReq(r)) /\ r \in LaneRows(InsertedReq(r))
        BY <2>1, <2>2, <2>4, WaitingIsEligible
    <2>6. QED
        BY <2>3, <2>5 DEF LaneRows
<1>3. QED
    BY <1>1, <1>2, OrderInvariant, PTL
       DEF Spec, GrantsInOrder, NoOvertaking, LanesAlternate

(***************************************************************************)
(* The kernel implements the ledger.                                       *)
(***************************************************************************)
\* Of the policies' maxima one is greatest: the one with fewest policies above it.
LEMMA GreatestMaximum ==
    \E n \in {HardMax[p] : p \in Policies} : \A p \in Policies : HardMax[p] <= n
<1> DEFINE Above(p) == {q \in Policies : HardMax[q] > HardMax[p]}
           All == {Above(p) : p \in Policies}
<1>1. IsFiniteSet(Policies) /\ 1 \in Policies /\ HardMax \in [Policies -> Nat]
    <2>1. LastPolicy \in Nat \ {0} /\ HardMax \in [Policies -> Nat]
        BY ConstantsAssumption
    <2>2. IsFiniteSet(1 .. LastPolicy)
        BY <2>1, FS_Interval
    <2>3. QED
        BY <2>1, <2>2 DEF Policies
<1>2. All \subseteq FiniteSubsetsOf(Policies) /\ All # {}
    <2>1. \A p \in Policies : IsFiniteSet(Above(p)) /\ Above(p) \in SUBSET Policies
        BY <1>1, FS_Subset
    <2>2. \A p \in Policies : Above(p) \in FiniteSubsetsOf(Policies)
        BY <2>1 DEF FiniteSubsetsOf
    <2>3. QED
        <3> HIDE DEF Above
        <3>1. QED
            BY <1>1, <2>2
<1>3. PICK x \in All : \A y \in All : <<y, x>> \notin StrictSubsetOrdering(Policies)
    <2> HIDE DEF All
    <2>1. QED
        BY <1>2, FS_StrictSubsetOrderingWellFounded, WFMin
<1>4. PICK p \in Policies : x = Above(p)
    OBVIOUS
<1>5. ASSUME NEW q \in Policies, HardMax[q] > HardMax[p] PROVE FALSE
    <2>1. q \in Above(p) /\ q \notin Above(q) /\ Above(q) \subseteq Above(p)
        BY <1>1, <1>5
    <2>2. <<Above(q), Above(p)>> \in StrictSubsetOrdering(Policies)
        BY <2>1 DEF StrictSubsetOrdering
    <2>3. QED
        BY <1>3, <1>4, <2>2
<1>6. QED
    BY <1>1, <1>5

UnitMap == [r \in Requests |-> UnitOf(req[r])]
GreatestBound == CHOOSE n \in {HardMax[p] : p \in Policies} :
                     \A p \in Policies : HardMax[p] <= n

\* Each row move is a move of its unit, or none at all.
LEMMA UnitMoves ==
    ASSUME TypeOK, [Next]_vars, req' \in [Requests -> States]
    PROVE  /\ UnitMap' \in [Requests -> Ledger!Phases]
           /\ \/ UnitMap' = UnitMap
              \/ \E r \in Requests :
                    /\ <<UnitMap[r], UnitMap'[r]>> \in Ledger!Moves
                    /\ \A s \in Requests \ {r} :
                          UnitMap'[s] \in {UnitMap[s], Ledger!Expired(UnitMap[s])}
<1>1. \A s \in Requests : UnitMap[s] = UnitOf(req[s]) /\ UnitMap'[s] = UnitOf(req'[s])
    BY DEF UnitMap
<1>2. UnitMap' \in [Requests -> Ledger!Phases]
    BY DEF UnitMap, UnitOf, Ledger!Phases, States
<1>3. ASSUME NEW a, NEW b, <<a, b>> \in RowMoves
      PROVE  UnitOf(a) = UnitOf(b) \/ <<UnitOf(a), UnitOf(b)>> \in Ledger!Moves
    BY <1>3 DEF RowMoves, UnitOf, Ledger!Moves
<1>4. ASSUME NEW s \in Requests, req'[s] \in {req[s], SweptState(s)}
      PROVE  UnitMap'[s] \in {UnitMap[s], Ledger!Expired(UnitMap[s])}
    BY <1>1, <1>4 DEF UnitOf, SweptState, Ledger!Expired, TypeOK, InState, Live
<1>5. CASE UNCHANGED req
    BY <1>2, <1>5 DEF UnitMap
<1>6. ASSUME NEW r \in Requests, MovesOnly(r), UnitMap[r] # UnitMap'[r]
      PROVE  \E t \in Requests :
                /\ <<UnitMap[t], UnitMap'[t]>> \in Ledger!Moves
                /\ \A s \in Requests \ {t} :
                      UnitMap'[s] \in {UnitMap[s], Ledger!Expired(UnitMap[s])}
    <2>1. <<UnitMap[r], UnitMap'[r]>> \in Ledger!Moves
        BY <1>1, <1>3, <1>6 DEF MovesOnly
    <2>2. QED
        BY <1>4, <1>6, <2>1 DEF MovesOnly
<1>7. ASSUME NEW r \in Requests, MovesOnly(r), UnitMap[r] = UnitMap'[r], UnitMap' # UnitMap
      PROVE  \E t \in Requests :
                /\ <<UnitMap[t], UnitMap'[t]>> \in Ledger!Moves
                /\ \A s \in Requests \ {t} :
                      UnitMap'[s] \in {UnitMap[s], Ledger!Expired(UnitMap[s])}
    <2>1. \A s \in Requests : UnitMap'[s] \in {UnitMap[s], Ledger!Expired(UnitMap[s])}
        BY <1>4, <1>7 DEF MovesOnly
    <2>2. PICK t \in Requests : UnitMap[t] # UnitMap'[t]
        BY <1>7 DEF UnitMap
    <2>3. t # r /\ req'[t] # req[t] /\ req'[t] = SweptState(t)
        BY <1>1, <1>7, <2>2 DEF MovesOnly
    <2>4. <<UnitMap[t], UnitMap'[t]>> \in Ledger!Moves
        BY <1>1, <1>3, <2>2, <2>3, SweepMoves
    <2>5. QED
        BY <2>1, <2>4
<1>8. QED
    BY <1>2, <1>5, <1>6, <1>7, RowSteps

\* The ledger counts as this module does.
LEMMA LedgerCounts == \A S : Ledger!Cardinality(S) = Cardinality(S)
BY DEF Ledger!Cardinality, Cardinality

\* Every step of the kernel is a step of the ledger or changes no unit.
LEMMA LedgerStep == CapacityInv /\ [Next]_vars => [Ledger!Next]_UnitMap
<1> SUFFICES ASSUME CapacityInv, [Next]_vars, UnitMap' # UnitMap PROVE Ledger!Next
    OBVIOUS
<1>1. TypeOK /\ TypeOK' /\ CapacityInv'
    BY NextCapacity, NextType DEF CapacityInv, ControlInv
<1>2. Ledger!Holding(UnitMap') = Active(req')
    BY <1>1 DEF Ledger!Holding, UnitMap, UnitOf, Active, InState, Holding, TypeOK, States
<1>3. Cardinality(Active(req')) <= GreatestBound
    <2>1. control'.policy \in Policies /\ control'.target \in 1 .. HardMax[control'.policy]
        BY <1>1 DEF TypeOK, ControlStates
    <2>2. Within(req', control')
        BY <1>1 DEF CapacityInv
    <2>3. Cardinality(Active(req')) \in Nat
        BY CountType DEF Active, InState
    <2>4. HardMax[control'.policy] <= GreatestBound /\ GreatestBound \in Nat
        BY <2>1, GreatestMaximum, ConstantsAssumption DEF GreatestBound, Policies
    <2>5. HardMax[control'.policy] \in Nat
        BY <2>1, ConstantsAssumption
    <2>6. QED
        BY <2>1, <2>2, <2>3, <2>4, <2>5 DEF Within, EffectiveCapacity
<1>4. /\ UnitMap' \in [Requests -> Ledger!Phases]
      /\ \E r \in Requests :
            /\ <<UnitMap[r], UnitMap'[r]>> \in Ledger!Moves
            /\ \A s \in Requests \ {r} :
                  UnitMap'[s] \in {UnitMap[s], Ledger!Expired(UnitMap[s])}
    BY <1>1, UnitMoves DEF TypeOK
<1>5. QED
    <2>1. Ledger!Cardinality(Ledger!Holding(UnitMap')) <= GreatestBound
        BY <1>2, <1>3, LedgerCounts
    <2>2. QED
        BY <1>4, <2>1, Zenon DEF Ledger!Next, UnitMap, GreatestBound

\* The kernel is an admission ledger.
THEOREM KernelImplementsLedger == Spec => ImplementsLedger
<1>1. Init => Ledger!Init
    BY DEF Init, Ledger!Init, UnitOf
<1>2. CapacityInv /\ [Next]_vars => [Ledger!Next]_UnitMap
    BY LedgerStep
<1>3. QED
    BY <1>1, <1>2, CapacityInvariant, PTL DEF Spec, ImplementsLedger, Ledger!Spec, UnitMap
=============================================================================
