---------------------------- MODULE GlmWorkerProofs ----------------------------
(***************************************************************************)
(* What a GLM worker sends was approved, and an approval is not lost: for  *)
(* any tasks, tiers, overrides, operators and processes, whatever earlier  *)
(* releases left in the two policy databases.                              *)
(***************************************************************************)
EXTENDS GlmWorker, TLAPS

(***************************************************************************)
(* The inductive invariant.                                                *)
(***************************************************************************)

\* What a process, or an operator's command, knows.
Calls(places) ==
    [place : places, task : Tasks \cup {None}, tokens : TokenPolicies \cup {None},
     tier : Tiers \cup {None}, key : Nat \cup {None}, replace : BOOLEAN,
     seen : Tiers \cup {None}]

Commands == Calls({"idle", "tier", "key", "look", "archive", "open", "write"})
Invocations ==
    Calls({"idle", "tier", "check", "validate", "prepare", "begun", "verify", "answer"})

PolicyTypes ==
    /\ tiers \subseteq Tiers /\ warrants \subseteq Tiers /\ verified \subseteq Tiers
    /\ tier \in [tier : Tiers, authority : BOOLEAN] \cup {None}
    /\ permits \in [Operators -> Tiers \cup {None}]
    /\ overrides \in [Revisions -> Overrides \cup {None}]
    /\ override \in Revisions \cup {None}

TypeOK ==
    /\ PolicyTypes
    /\ key \in Nat
    /\ files \in [Tasks -> Records \cup {None}]
    /\ approve \in [Operators -> Commands]
    /\ call \in [Workers -> Invocations]
    /\ reported \subseteq Tasks /\ archived \subseteq Tasks
    /\ changes \in Nat

\* A tier is in force, or about to be, only on an authority that was verified for it.
TierVerified ==
    /\ tier # None /\ tier.authority => tier.tier \in verified
    /\ \A o \in Operators : permits[o] # None => permits[o] \in verified

Lawful(t) == t = Default \/ t \in verified

\* Beyond its checks a command has a task and a key, and asks exactly what the task's
\* digest says.
CommandSound(o) ==
    LET c == approve[o] IN
    /\ c.place # "idle" => c.task \in Tasks
    /\ c.place \notin {"idle", "tier"} => c.tier \in Tiers /\ Exact(c)
    /\ c.place \notin {"idle", "tier", "key"} => c.key \in Nat

\* A record is for the tier of the digest it is named after, and complete only once it
\* was granted.
Grant(t) == [task |-> t, tier |-> Doc[t].tier, tokens |-> Doc[t].tokens, key |-> files[t].key]

RecordSound(t) ==
    files[t] # None => /\ files[t].tier = Doc[t].tier
                       /\ files[t].whole => Grant(t) \in granted

\* A process runs under a tier that was in force when it built its provider and, from
\* its check on, when it looked again; what it was let to begin is exact.
InvocationSound(w) ==
    LET c == call[w] IN
    /\ c.place # "idle" => c.task \in Tasks
    /\ c.place \notin {"idle", "tier"} => c.tier \in Tiers /\ Lawful(c.tier)
    /\ c.place \notin {"idle", "tier", "check"} => c.seen = c.tier
    /\ c.place \in {"begun", "verify"} => Exact(c)

GlmInv ==
    /\ TypeOK /\ TierVerified
    /\ \A o \in Operators : CommandSound(o)
    /\ \A t \in Tasks : RecordSound(t)
    /\ \A w \in Workers : InvocationSound(w)
    /\ SentAsApproved /\ ApprovalStands /\ TierIsOperators

(***************************************************************************)
(* The policies.                                                           *)
(***************************************************************************)

\* What is in force is a tier of the default or of a verified authority, and one of the
\* token policies.
LEMMA InForceIs ==
    ASSUME PolicyTypes, TierVerified
    PROVE  /\ EffectiveTier \in Tiers \cup {None}
           /\ EffectiveTier # None => Lawful(EffectiveTier)
           /\ EffectiveTokens \in TokenPolicies \cup {None}
    BY PoliciesAssumption DEF PolicyTypes, TierVerified, EffectiveTier, EffectiveTokens, Lawful,
                              TokenPolicies

\* The operators' commands on policies keep the policies typed and verified, and what
\* was verified stays so.
LEMMA PolicyStep ==
    ASSUME PolicyTypes, TierVerified,
           PoliciesNext \/ \E o \in Operators : ActivateTier(o)
    PROVE  PolicyTypes' /\ TierVerified' /\ verified \subseteq verified'
<1>1. ASSUME NEW t \in Tiers, SaveTier(t) \/ Warrant(t) \/ RevokeWarrant(t)
      PROVE  PolicyTypes' /\ TierVerified' /\ verified \subseteq verified'
    BY <1>1 DEF SaveTier, Warrant, RevokeWarrant, PolicyTypes, TierVerified
<1>2. ASSUME NEW o \in Operators, NEW t \in Tiers, VerifyActivation(o, t)
      PROVE  PolicyTypes' /\ TierVerified' /\ verified \subseteq verified'
    BY <1>2 DEF VerifyActivation, PolicyTypes, TierVerified
<1>3. ASSUME NEW o \in Overrides, NEW activate \in BOOLEAN, SaveOverride(o, activate)
      PROVE  PolicyTypes' /\ TierVerified' /\ verified \subseteq verified'
    <2>1. RevisionOf[o] \in Revisions
        BY DEF Revisions
    <2>2. QED
        BY <1>3, <2>1 DEF SaveOverride, PolicyTypes, TierVerified
<1>4. ASSUME NEW r \in Revisions, ActivateOverride(r)
      PROVE  PolicyTypes' /\ TierVerified' /\ verified \subseteq verified'
    BY <1>4 DEF ActivateOverride, PolicyTypes, TierVerified
<1>5. ASSUME NEW o \in Operators, ActivateTier(o)
      PROVE  PolicyTypes' /\ TierVerified' /\ verified \subseteq verified'
    <2>1. PICK t \in {permits[o]} \cap tiers : tier' = [tier |-> t, authority |-> TRUE]
        BY <1>5 DEF ActivateTier, Activated
    <2>2. /\ permits' = [permits EXCEPT ![o] = None] /\ permits[o] # None
          /\ UNCHANGED <<tiers, warrants, verified, overrides, override>>
        BY <1>5 DEF ActivateTier
    <2>3. QED
        BY <2>1, <2>2 DEF PolicyTypes, TierVerified
<1>6. QED
    BY <1>1, <1>2, <1>3, <1>4, <1>5 DEF PoliciesNext

(***************************************************************************)
(* The commands of glm-approve.                                            *)
(***************************************************************************)

\* The facts about a call that a step of one actor needs, out of the type invariant.
LEMMA CallsAre ==
    ASSUME TypeOK
    PROVE  /\ \A o \in Operators : approve[o] \in Commands
           /\ \A w \in Workers : call[w] \in Invocations
           /\ \A t \in Tasks : Doc[t].tier \in Tiers /\ Doc[t].tokens \in TokenPolicies
           /\ Idle \in Commands /\ Idle \in Invocations /\ Idle.place = "idle"
    BY GlmAssumption DEF TypeOK, Commands, Invocations, Calls, Idle

\* A step of one command that changes nothing a process relies on: its call stays sound,
\* the records and approvals stay sound.
LEMMA CommandStep ==
    ASSUME GlmInv, NEW o \in Operators, NEW c \in Commands,
           approve' = [approve EXCEPT ![o] = c],
           CommandSound(o)',
           UNCHANGED <<policyVars, key, call, sent>>,
           changes' \in Nat, granted \subseteq granted',
           files' \in [Tasks -> Records \cup {None}],
           reported' \subseteq Tasks, archived' \subseteq Tasks,
           ApprovalStands', \A t \in Tasks : RecordSound(t)'
    PROVE  GlmInv'
<1>1. TypeOK' /\ TierVerified'
    BY DEF GlmInv, TypeOK, PolicyTypes, TierVerified, policyVars
<1>2. \A p \in Operators \ {o} : CommandSound(p)'
    BY DEF GlmInv, TypeOK, CommandSound, Exact
<1>3. \A w \in Workers : InvocationSound(w)'
    BY DEF GlmInv, InvocationSound, Exact, Lawful, policyVars
<1>4. SentAsApproved' /\ TierIsOperators'
    BY DEF GlmInv, SentAsApproved, TierIsOperators, policyVars
<1>5. QED
    BY <1>1, <1>2, <1>3, <1>4 DEF GlmInv

\* The steps before a command opens a record: it learns the policies and the key, and
\* leaves when what it found is not what the task asks.
LEMMA EarlyCommand ==
    ASSUME GlmInv, NEW o \in Operators,
           \/ \E t \in Tasks, replace \in BOOLEAN : Approve(o, t, replace)
           \/ ApproveTier(o) \/ LoadSigningKey(o)
    PROVE  GlmInv'
<1>1. /\ TypeOK /\ approve[o] \in Commands /\ CommandSound(o) /\ Idle \in Commands /\ Idle.place = "idle"
      /\ EffectiveTier \in Tiers \cup {None} /\ EffectiveTokens \in TokenPolicies \cup {None}
      /\ ApprovalStands /\ \A t \in Tasks : RecordSound(t)
    BY CallsAre, InForceIs DEF GlmInv, TypeOK
<1>2. /\ UNCHANGED <<policyVars, key, call, sent, granted, files, reported, archived>>
      /\ changes' \in Nat
    <2>1. UNCHANGED <<policyVars, approvalVars, call, sent>>
        BY DEF Approve, ApproveTier, LoadSigningKey
    <2>2. changes' = changes \/ Change
        BY DEF Approve, ApproveTier, LoadSigningKey
    <2>3. QED
        BY <1>1, <2>1, <2>2 DEF approvalVars, Change, TypeOK
<1>3. ASSUME NEW c \in Commands, approve' = [approve EXCEPT ![o] = c], CommandSound(o)'
      PROVE  GlmInv'
    <2>1. ApprovalStands' /\ \A t \in Tasks : RecordSound(t)'
        BY <1>1, <1>2 DEF ApprovalStands, RecordSound, Grant
    <2>2. QED
        BY <1>1, <1>2, <1>3, <2>1, CommandStep DEF TypeOK
<1>4. CASE Leaves(o)
    <2>1. approve'[o] = Idle
        BY <1>1, <1>4 DEF Leaves, TypeOK
    <2>2. CommandSound(o)'
        BY <1>1, <2>1 DEF CommandSound
    <2>3. QED
        BY <1>1, <1>3, <1>4, <2>2 DEF Leaves
<1>5. ASSUME NEW t \in Tasks, NEW replace \in BOOLEAN, Approve(o, t, replace) PROVE GlmInv'
    <2> DEFINE c == [Idle EXCEPT !.place = "tier", !.task = t, !.tokens = EffectiveTokens,
                                 !.replace = replace]
    <2>1. c \in Commands /\ c.place = "tier" /\ c.task = t
        BY <1>1 DEF Idle, Commands, Calls
    <2> HIDE DEF c
    <2>2. approve' = [approve EXCEPT ![o] = c]
        BY <1>5 DEF Approve, c
    <2>3. approve'[o] = c
        BY <1>1, <2>2 DEF TypeOK
    <2>4. QED
        BY <1>3, <2>1, <2>2, <2>3 DEF CommandSound
<1>6. CASE ApproveTier(o) /\ ~Leaves(o)
    <2> DEFINE b == [approve[o] EXCEPT !.tier = EffectiveTier]
               c == [b EXCEPT !.place = "key"]
    <2>1. /\ approve[o].place = "tier" /\ EffectiveTier # None /\ Exact(b)
          /\ approve' = [approve EXCEPT ![o] = c]
        BY <1>6 DEF ApproveTier, At
    <2>2. b.tier = EffectiveTier /\ b.task = approve[o].task /\ b.tokens = approve[o].tokens
        BY <1>1 DEF Commands, Calls
    <2>3. /\ c \in Commands /\ c.place = "key" /\ c.tier = EffectiveTier
          /\ c.task = approve[o].task /\ c.tokens = approve[o].tokens
        BY <1>1 DEF Commands, Calls
    <2> HIDE DEF b, c
    <2>4. approve'[o] = c
        BY <1>1, <2>1 DEF TypeOK
    <2>5. Exact(c)
        BY <2>1, <2>2, <2>3 DEF Exact
    <2>6. CommandSound(o)'
        BY <1>1, <2>1, <2>3, <2>4, <2>5 DEF CommandSound, Exact
    <2>7. QED
        BY <1>3, <2>1, <2>3, <2>6
<1>7. CASE LoadSigningKey(o)
    <2> DEFINE c == [approve[o] EXCEPT !.place = "look", !.key = key]
    <2>1. approve[o].place = "key" /\ approve' = [approve EXCEPT ![o] = c]
        BY <1>1, <1>7 DEF LoadSigningKey, At, TypeOK
    <2>2. /\ c \in Commands /\ c.place = "look" /\ c.tier = approve[o].tier /\ c.key = key
          /\ c.task = approve[o].task /\ c.tokens = approve[o].tokens /\ key \in Nat
        BY <1>1 DEF Commands, Calls, TypeOK
    <2> HIDE DEF c
    <2>3. approve'[o] = c
        BY <1>1, <2>1 DEF TypeOK
    <2>4. CommandSound(o)'
        BY <1>1, <2>1, <2>2, <2>3 DEF CommandSound, Exact
    <2>5. QED
        BY <1>3, <2>1, <2>2, <2>4
<1>8. QED
    BY <1>4, <1>5, <1>6, <1>7

\* A move of a command to its next place keeps what it knows.
LEMMA CommandGoes ==
    ASSUME TypeOK, NEW o \in Operators, CommandSound(o), Goes(o, "open") \/ Goes(o, "archive") \/ Goes(o, "write"),
           approve[o].place \in {"look", "archive", "open"}
    PROVE  CommandSound(o)' /\ \E c \in Commands : approve' = [approve EXCEPT ![o] = c]
<1>1. ASSUME NEW place \in {"open", "archive", "write"}, Goes(o, place)
      PROVE  CommandSound(o)' /\ \E c \in Commands : approve' = [approve EXCEPT ![o] = c]
    <2> DEFINE c == [approve[o] EXCEPT !.place = place]
    <2>1. /\ c \in Commands /\ c.place = place /\ c.tier = approve[o].tier /\ c.key = approve[o].key
          /\ c.task = approve[o].task /\ c.tokens = approve[o].tokens
        BY CallsAre DEF Commands, Calls
    <2>2. approve' = [approve EXCEPT ![o] = c]
        BY <1>1 DEF Goes, TypeOK
    <2> HIDE DEF c
    <2>3. approve'[o] = c
        BY <2>2 DEF TypeOK
    <2>4. QED
        BY <2>1, <2>2, <2>3 DEF CommandSound, Exact
<1>2. QED
    BY <1>1

\* The steps that read, archive, open and write a record.
LEMMA RecordCommand ==
    ASSUME GlmInv, NEW o \in Operators, Look(o) \/ Archive(o) \/ OpenRecord(o) \/ WriteRecord(o)
    PROVE  GlmInv'
<1> DEFINE c == approve[o]
           t == c.task
<1>1. /\ TypeOK /\ c \in Commands /\ CommandSound(o) /\ Idle \in Commands /\ Idle.place = "idle"
      /\ c.place \in {"look", "archive", "open", "write"}
      /\ t \in Tasks /\ c.tier \in Tiers /\ c.tier = Doc[t].tier /\ c.tokens = Doc[t].tokens
      /\ c.key \in Nat
      /\ ApprovalStands /\ \A u \in Tasks : RecordSound(u)
    BY CallsAre DEF GlmInv, Look, Archive, OpenRecord, WriteRecord, At, CommandSound, Exact
<1>2. /\ UNCHANGED <<policyVars, key, call, sent, changes>> /\ changes \in Nat
      /\ files \in [Tasks -> Records \cup {None}]
    BY <1>1 DEF Look, Archive, OpenRecord, WriteRecord, TypeOK
<1>3. CommandSound(o)' /\ \E d \in Commands : approve' = [approve EXCEPT ![o] = d]
    <2>1. CASE Leaves(o)
        <3>1. approve' = [approve EXCEPT ![o] = Idle] /\ approve'[o] = Idle
            BY <1>1, <2>1 DEF Leaves, TypeOK
        <3>2. QED
            BY <1>1, <3>1 DEF CommandSound
    <2>2. CASE ~Leaves(o)
        BY <1>1, <2>2, CommandGoes DEF Look, Archive, OpenRecord, WriteRecord, At
    <2>3. QED
        BY <2>1, <2>2
<1>4. ASSUME granted \subseteq granted', files' \in [Tasks -> Records \cup {None}],
             reported' \subseteq Tasks, archived' \subseteq Tasks,
             ApprovalStands', \A u \in Tasks : RecordSound(u)'
      PROVE  GlmInv'
    BY <1>2, <1>3, <1>4, CommandStep
<1> HIDE DEF c
<1>5. ASSUME UNCHANGED <<files, archived, granted>>,
             reported' = reported \/ (Signed(t, c.key) /\ reported' = reported \cup {t})
      PROVE  GlmInv'
    <2>1. ApprovalStands'
        BY <1>1, <1>5 DEF ApprovalStands, Signed, Readable
    <2>2. \A u \in Tasks : RecordSound(u)'
        BY <1>1, <1>5 DEF RecordSound, Grant
    <2>3. QED
        BY <1>1, <1>2, <1>4, <1>5, <2>1, <2>2 DEF TypeOK
<1>6. CASE Look(o)
    BY <1>5, <1>6 DEF Look, Verifies, c
<1>7. CASE Archive(o)
    <2>1. CASE /\ files' = [files EXCEPT ![t] = None] /\ archived' = archived \cup {t}
               /\ UNCHANGED <<reported, granted>>
        <3>1. ApprovalStands'
            BY <1>1, <1>2, <2>1 DEF ApprovalStands
        <3>2. \A u \in Tasks : RecordSound(u)'
            BY <1>1, <1>2, <2>1 DEF RecordSound, Grant
        <3>3. QED
            BY <1>1, <1>2, <1>4, <2>1, <3>1, <3>2 DEF TypeOK
    <2>2. CASE UNCHANGED <<files, archived, reported, granted>>
        BY <1>5, <2>2
    <2>3. QED
        BY <1>7, <2>1, <2>2 DEF Archive, c
<1>8. CASE OpenRecord(o)
    <2> DEFINE f == [whole |-> FALSE, lapsed |-> FALSE, key |-> c.key, tier |-> c.tier]
    <2>1. CASE /\ files[t] = None /\ files' = [files EXCEPT ![t] = f]
               /\ UNCHANGED <<archived, reported, granted>>
        <3>1. f \in Records /\ ~f.whole /\ f.tier = Doc[t].tier
            BY <1>1 DEF Records
        <3> HIDE DEF f
        <3>2. files'[t] = f /\ \A u \in Tasks \ {t} : files'[u] = files[u]
            BY <1>1, <1>2, <2>1
        <3>3. ApprovalStands'
            BY <1>1, <2>1, <3>2 DEF ApprovalStands, TypeOK
        <3>4. \A u \in Tasks : RecordSound(u)'
            BY <1>1, <2>1, <3>1, <3>2 DEF RecordSound, Grant
        <3>5. QED
            BY <1>1, <1>2, <1>4, <2>1, <3>1, <3>3, <3>4 DEF TypeOK
    <2>2. CASE Verifies(o) /\ UNCHANGED <<files, archived, granted>>
        BY <1>5, <2>2 DEF Verifies, c
    <2>3. QED
        BY <1>8, <2>1, <2>2 DEF OpenRecord, Free, c
<1>9. CASE WriteRecord(o)
    <2> DEFINE f == [whole |-> TRUE, lapsed |-> FALSE, key |-> c.key, tier |-> c.tier]
               g == [task |-> t, tier |-> c.tier, tokens |-> c.tokens, key |-> c.key]
    <2>1. /\ files' = [files EXCEPT ![t] = f] /\ granted' = granted \cup {g}
          /\ reported' = reported \cup {t} /\ archived' = archived \ {t}
        BY <1>9 DEF WriteRecord, c
    <2>2. /\ f \in Records /\ f.whole /\ f.tier = Doc[t].tier
          /\ g = [task |-> t, tier |-> Doc[t].tier, tokens |-> Doc[t].tokens, key |-> f.key]
        BY <1>1 DEF Records
    <2>3. f # None
        BY <2>2, GlmAssumption
    <2> HIDE DEF f, g
    <2>4. files'[t] = f /\ \A u \in Tasks \ {t} : files'[u] = files[u]
        BY <1>1, <1>2, <2>1
    <2>5. ApprovalStands'
        BY <1>1, <2>1, <2>2, <2>3, <2>4 DEF ApprovalStands, TypeOK
    <2>6. \A u \in Tasks : RecordSound(u)'
        BY <1>1, <2>1, <2>2, <2>4 DEF RecordSound, Grant
    <2>7. QED
        BY <1>1, <1>2, <1>4, <2>1, <2>2, <2>5, <2>6 DEF TypeOK
<1>10. QED
    BY <1>6, <1>7, <1>8, <1>9

\* What the operators do besides: change a policy or the key, let an approval run out,
\* or die in the middle of a command.
LEMMA OperateStep ==
    ASSUME GlmInv, Operate PROVE GlmInv'
<1>1. /\ TypeOK /\ PolicyTypes /\ TierVerified
      /\ \A t \in Tasks : RecordSound(t)
      /\ \A o \in Operators : CommandSound(o)
      /\ \A w \in Workers : InvocationSound(w)
      /\ SentAsApproved /\ ApprovalStands /\ TierIsOperators
    BY DEF GlmInv, TypeOK
<1>2. changes' \in Nat /\ UNCHANGED <<call, sent, reported, granted, archived>>
    BY <1>1 DEF Operate, Change, TypeOK, approvalVars
<1>3. ASSUME PolicyTypes', TierVerified', verified \subseteq verified',
             key' \in Nat, files' \in [Tasks -> Records \cup {None}],
             approve' \in [Operators -> Commands],
             ApprovalStands', \A t \in Tasks : RecordSound(t)', \A o \in Operators : CommandSound(o)'
      PROVE  GlmInv'
    <2>1. TypeOK'
        BY <1>1, <1>2, <1>3 DEF TypeOK
    <2>2. \A w \in Workers : InvocationSound(w)'
        BY <1>1, <1>2, <1>3 DEF InvocationSound, Exact, Lawful
    <2>3. SentAsApproved' /\ TierIsOperators'
        BY <1>1, <1>2, <1>3 DEF SentAsApproved, TierIsOperators
    <2>4. QED
        BY <1>3, <2>1, <2>2, <2>3 DEF GlmInv
<1>4. ASSUME UNCHANGED <<files, approve>>
      PROVE  /\ files' \in [Tasks -> Records \cup {None}] /\ approve' \in [Operators -> Commands]
             /\ ApprovalStands' /\ \A t \in Tasks : RecordSound(t)'
             /\ \A o \in Operators : CommandSound(o)'
    BY <1>1, <1>2, <1>4 DEF TypeOK, ApprovalStands, RecordSound, Grant, CommandSound, Exact
<1>5. ASSUME UNCHANGED policyVars
      PROVE  PolicyTypes' /\ TierVerified' /\ verified \subseteq verified'
    BY <1>1, <1>5 DEF policyVars, PolicyTypes, TierVerified
<1>6. CASE PoliciesNext /\ UNCHANGED <<approvalVars, approve>>
    <2>1. key' = key /\ UNCHANGED <<files, approve>>
        BY <1>6 DEF approvalVars
    <2>2. PolicyTypes' /\ TierVerified' /\ verified \subseteq verified'
        BY <1>1, <1>6, PolicyStep
    <2>3. QED
        BY <1>1, <1>3, <1>4, <2>1, <2>2 DEF TypeOK
<1>7. CASE key' = key + 1 /\ UNCHANGED <<policyVars, files, approve>>
    BY <1>1, <1>3, <1>4, <1>5, <1>7 DEF TypeOK
<1>8. ASSUME NEW t \in Tasks, Readable(t), files' = [files EXCEPT ![t].lapsed = TRUE],
             UNCHANGED <<policyVars, key, approve>>
      PROVE  GlmInv'
    <2> DEFINE f == [files[t] EXCEPT !.lapsed = TRUE]
    <2>1. files[t] \in Records /\ files' = [files EXCEPT ![t] = f]
        BY <1>1, <1>8 DEF TypeOK, Readable
    <2>2. f \in Records /\ f.whole = files[t].whole /\ f.tier = files[t].tier /\ f.key = files[t].key
          /\ files[t] # None
        BY <1>8, <2>1 DEF Records, Readable
    <2>3. f # None
        BY <2>2, GlmAssumption
    <2> HIDE DEF f
    <2>4. files'[t] = f /\ \A u \in Tasks \ {t} : files'[u] = files[u]
        BY <1>1, <2>1 DEF TypeOK
    <2>5. ApprovalStands'
        BY <1>1, <1>2, <2>2, <2>3, <2>4 DEF ApprovalStands, TypeOK
    <2>6. \A u \in Tasks : RecordSound(u)'
        BY <1>1, <1>2, <2>2, <2>4 DEF RecordSound, Grant
    <2>7. \A o \in Operators : CommandSound(o)'
        BY <1>1, <1>8 DEF CommandSound, Exact
    <2>8. QED
        BY <1>1, <1>3, <1>5, <1>8, <2>1, <2>2, <2>5, <2>6, <2>7 DEF TypeOK
<1>9. ASSUME NEW o \in Operators, Leaves(o), UNCHANGED <<policyVars, approvalVars>>
      PROVE  GlmInv'
    <2>1. approve' = [approve EXCEPT ![o] = Idle] /\ Idle \in Commands /\ key' = key /\ files' = files
        BY <1>1, <1>9, CallsAre DEF Leaves, approvalVars
    <2>2. ApprovalStands' /\ \A t \in Tasks : RecordSound(t)'
        BY <1>1, <1>2, <2>1 DEF ApprovalStands, RecordSound, Grant
    <2>3. \A p \in Operators : CommandSound(p)'
        BY <1>1, <2>1 DEF CommandSound, Exact, TypeOK, Idle
    <2>4. QED
        BY <1>1, <1>3, <1>5, <1>9, <2>1, <2>2, <2>3 DEF TypeOK
<1>10. QED
    BY <1>6, <1>7, <1>8, <1>9 DEF Operate

\* An operator activates the tier it verified the authority for.
LEMMA ActivateStep ==
    ASSUME GlmInv, NEW o \in Operators, ActivateTier(o),
           UNCHANGED <<approvalVars, approve, call, sent, changes>>
    PROVE  GlmInv'
<1>1. PolicyTypes' /\ TierVerified' /\ verified \subseteq verified'
    BY PolicyStep DEF GlmInv, TypeOK
<1>2. UNCHANGED <<key, files, reported, granted, archived, approve, call, sent, changes>>
    BY DEF approvalVars
<1>3. TypeOK'
    BY <1>1, <1>2 DEF GlmInv, TypeOK
<1>4. /\ \A p \in Operators : CommandSound(p)'
      /\ \A t \in Tasks : RecordSound(t)'
      /\ \A w \in Workers : InvocationSound(w)'
    BY <1>1, <1>2 DEF GlmInv, CommandSound, RecordSound, Grant, InvocationSound, Exact, Lawful
<1>5. SentAsApproved' /\ ApprovalStands' /\ TierIsOperators'
    BY <1>1, <1>2 DEF GlmInv, SentAsApproved, ApprovalStands, TierIsOperators
<1>6. QED
    BY <1>1, <1>3, <1>4, <1>5 DEF GlmInv

(***************************************************************************)
(* The invocations.                                                        *)
(***************************************************************************)

\* A step of one process: its call stays sound, and what it sent was approved.
LEMMA InvocationStep ==
    ASSUME GlmInv, NEW w \in Workers, NEW c \in Invocations,
           call' = [call EXCEPT ![w] = c],
           InvocationSound(w)', SentAsApproved', TierIsOperators',
           UNCHANGED <<policyVars, approvalVars, approve>>, changes' \in Nat
    PROVE  GlmInv'
<1>1. UNCHANGED <<tiers, tier, warrants, permits, verified, overrides, override>>
      /\ UNCHANGED <<key, files, reported, granted, archived, approve>>
    BY DEF approvalVars, policyVars
<1>2. TypeOK' /\ TierVerified'
    BY <1>1 DEF GlmInv, TypeOK, PolicyTypes, TierVerified
<1>3. \A v \in Workers \ {w} : InvocationSound(v)'
    BY <1>1 DEF GlmInv, TypeOK, InvocationSound, Exact, Lawful
<1>4. /\ \A p \in Operators : CommandSound(p)'
      /\ \A t \in Tasks : RecordSound(t)'
      /\ ApprovalStands'
    BY <1>1 DEF GlmInv, CommandSound, RecordSound, Grant, Exact, ApprovalStands
<1>5. QED
    BY <1>2, <1>3, <1>4 DEF GlmInv

\* Every step of a process is such a step: it takes what it finds, or leaves.
LEMMA WorkerStep ==
    ASSUME GlmInv, NEW w \in Workers,
           \/ \E t \in Tasks : Begin(w, t)
           \/ BeginTier(w) \/ Check(w) \/ Validate(w) \/ LoadKey(w) \/ Send(w) \/ Answer(w) \/ Die(w)
    PROVE  GlmInv'
<1> DEFINE c == call[w]
<1>1. /\ TypeOK /\ c \in Invocations /\ InvocationSound(w) /\ Idle \in Invocations /\ Idle.place = "idle"
      /\ EffectiveTier \in Tiers \cup {None} /\ EffectiveTokens \in TokenPolicies \cup {None}
      /\ (EffectiveTier # None => Lawful(EffectiveTier))
      /\ SentAsApproved /\ TierIsOperators /\ \A t \in Tasks : RecordSound(t)
      /\ key \in Nat
    BY CallsAre, InForceIs DEF GlmInv, TypeOK
<1>2. UNCHANGED <<policyVars, approvalVars, approve>> /\ changes' \in Nat
    <2>1. UNCHANGED <<policyVars, approvalVars, approve>>
        BY DEF Begin, BeginTier, Check, Validate, LoadKey, Send, Answer, Die
    <2>2. changes' = changes \/ Change
        BY DEF Begin, BeginTier, Check, Validate, LoadKey, Send, Answer, Die
    <2>3. QED
        BY <1>1, <2>1, <2>2 DEF Change, TypeOK
<1>3. UNCHANGED <<verified, granted, key>>
    BY <1>2 DEF policyVars, approvalVars
<1>4. ASSUME NEW d \in Invocations, call' = [call EXCEPT ![w] = d], sent' = sent,
             d.place # "idle" => d.task \in Tasks,
             d.place \notin {"idle", "tier"} => d.tier \in Tiers /\ Lawful(d.tier),
             d.place \notin {"idle", "tier", "check"} => d.seen = d.tier,
             d.place \in {"begun", "verify"} => Exact(d)
      PROVE  GlmInv'
    <2>1. call'[w] = d
        BY <1>1, <1>4 DEF TypeOK
    <2>2. InvocationSound(w)'
        BY <1>3, <1>4, <2>1 DEF InvocationSound, Exact, Lawful
    <2>3. SentAsApproved' /\ TierIsOperators'
        BY <1>1, <1>3, <1>4 DEF SentAsApproved, TierIsOperators
    <2>4. QED
        BY <1>2, <1>4, <2>2, <2>3, InvocationStep
<1>5. CASE Ends(w) /\ sent' = sent
    BY <1>1, <1>4, <1>5 DEF Ends
<1>6. ASSUME NEW t \in Tasks, Begin(w, t) PROVE GlmInv'
    <2> DEFINE d == [Idle EXCEPT !.place = "tier", !.task = t, !.tokens = EffectiveTokens]
    <2>1. d \in Invocations /\ d.place = "tier" /\ d.task = t
        BY <1>1 DEF Idle, Invocations, Calls
    <2> HIDE DEF d
    <2>2. call' = [call EXCEPT ![w] = d] /\ sent' = sent
        BY <1>6 DEF Begin, d
    <2>3. QED
        BY <1>4, <2>1, <2>2
<1>7. CASE BeginTier(w)
    <2> DEFINE b == [c EXCEPT !.tier = EffectiveTier]
               d == [b EXCEPT !.place = "check"]
    <2>1. CASE EffectiveTier # None /\ call' = [call EXCEPT ![w] = d] /\ sent' = sent /\ c.place = "tier"
        <3>1. /\ d \in Invocations /\ d.place = "check" /\ d.tier = EffectiveTier
              /\ d.task = c.task
            BY <1>1 DEF Invocations, Calls
        <3>2. c.task \in Tasks
            BY <1>1, <2>1 DEF InvocationSound
        <3> HIDE DEF d
        <3>3. QED
            BY <1>1, <1>4, <2>1, <3>1, <3>2
    <2>2. QED
        BY <1>5, <1>7, <2>1 DEF BeginTier, In
<1>8. CASE Check(w)
    <2> DEFINE d == [c EXCEPT !.place = "validate", !.seen = EffectiveTier]
    <2>1. CASE EffectiveTier = c.tier /\ call' = [call EXCEPT ![w] = d] /\ sent' = sent /\ c.place = "check"
        <3>1. /\ d \in Invocations /\ d.place = "validate" /\ d.tier = c.tier /\ d.seen = EffectiveTier
              /\ d.task = c.task
            BY <1>1 DEF Invocations, Calls
        <3>2. c.task \in Tasks /\ c.tier \in Tiers /\ Lawful(c.tier)
            BY <1>1, <2>1 DEF InvocationSound
        <3> HIDE DEF d
        <3>3. QED
            BY <1>4, <2>1, <3>1, <3>2
    <2>2. /\ c.place = "check" /\ sent' = sent
          /\ \/ EffectiveTier = c.tier /\ call' = [call EXCEPT ![w] = d]
             \/ Ends(w)
        <3>1. CASE EffectiveTier = c.tier
            BY <1>1, <1>8, <3>1 DEF Check, In, InForce, TypeOK
        <3>2. CASE EffectiveTier # c.tier
            BY <1>8, <3>2 DEF Check, In, InForce
        <3>3. QED
            BY <3>1, <3>2
    <2>3. QED
        BY <1>5, <2>1, <2>2
<1>9. CASE Validate(w)
    <2>1. /\ c.place \in {"validate", "prepare"} /\ sent' = sent
          /\ c.task \in Tasks /\ c.tier \in Tiers /\ Lawful(c.tier) /\ c.seen = c.tier
        BY <1>1, <1>9 DEF Validate, InvocationSound
    <2>2. ASSUME NEW place \in {"prepare", "begun"}, Exact(c), call' = [call EXCEPT ![w].place = place]
          PROVE  GlmInv'
        <3> DEFINE d == [c EXCEPT !.place = place]
        <3>1. /\ d \in Invocations /\ d.place = place /\ d.tier = c.tier /\ d.seen = c.seen
              /\ d.task = c.task /\ d.tokens = c.tokens
            BY <1>1 DEF Invocations, Calls
        <3>2. call' = [call EXCEPT ![w] = d]
            BY <1>1, <2>2 DEF TypeOK
        <3> HIDE DEF d
        <3>3. Exact(d)
            BY <2>2, <3>1 DEF Exact
        <3>4. QED
            BY <1>4, <2>1, <3>1, <3>2, <3>3
    <2>3. CASE Bound(c)
        <3>1. CASE c.place = "validate"
            <4>1. call' = [call EXCEPT ![w].place = "prepare"]
                BY <1>1, <1>9, <2>3, <3>1 DEF Validate, TypeOK
            <4>2. QED
                BY <2>2, <2>3, <4>1 DEF Bound
        <3>2. CASE c.place = "prepare"
            <4>1. call' = [call EXCEPT ![w].place = "begun"]
                BY <1>1, <1>9, <2>3, <3>2 DEF Validate, TypeOK
            <4>2. QED
                BY <2>2, <2>3, <4>1 DEF Bound
        <3>3. QED
            BY <2>1, <3>1, <3>2
    <2>4. CASE ~Bound(c)
        BY <1>5, <1>9, <2>1, <2>4 DEF Validate
    <2>5. QED
        BY <2>3, <2>4
<1>10. CASE LoadKey(w)
    <2> DEFINE d == [c EXCEPT !.place = "verify", !.key = key]
    <2>1. c.place = "begun" /\ sent' = sent /\ call' = [call EXCEPT ![w] = d]
        BY <1>1, <1>10 DEF LoadKey, In, TypeOK
    <2>2. /\ d \in Invocations /\ d.place = "verify" /\ d.tier = c.tier /\ d.seen = c.seen
          /\ d.task = c.task /\ d.tokens = c.tokens
        BY <1>1 DEF Invocations, Calls
    <2>3. c.task \in Tasks /\ c.tier \in Tiers /\ Lawful(c.tier) /\ c.seen = c.tier /\ Exact(c)
        BY <1>1, <2>1 DEF InvocationSound
    <2> HIDE DEF d
    <2>4. QED
        BY <1>4, <2>1, <2>2, <2>3 DEF Exact
<1>11. CASE Send(w)
    <2>1. /\ c.place = "verify" /\ c.task \in Tasks /\ c.tier \in Tiers /\ Lawful(c.tier)
          /\ c.seen = c.tier /\ c.tier = Doc[c.task].tier /\ c.tokens = Doc[c.task].tokens
        BY <1>1, <1>11 DEF Send, In, InvocationSound, Exact
    <2>2. CASE Signed(c.task, c.key)
        <3> DEFINE d == [c EXCEPT !.place = "answer"]
                   s == [task |-> c.task, tier |-> c.tier, tokens |-> c.tokens, key |-> c.key,
                         seen |-> c.seen]
                   a == [task |-> c.task, tier |-> c.tier, tokens |-> c.tokens, key |-> c.key]
        <3>1. sent' = sent \cup {s} /\ call' = [call EXCEPT ![w] = d]
            BY <1>1, <1>11, <2>2 DEF Send, TypeOK
        <3>2. /\ d \in Invocations /\ d.place = "answer" /\ d.tier = c.tier /\ d.seen = c.seen
              /\ d.task = c.task
            BY <1>1 DEF Invocations, Calls
        <3>3. a \in granted
            BY <1>1, <2>1, <2>2 DEF Signed, Readable, RecordSound, Grant
        <3>4. a = [task |-> s.task, tier |-> s.tier, tokens |-> s.tokens, key |-> s.key]
              /\ s.tier = c.tier /\ s.seen = c.tier
            BY <2>1
        <3> HIDE DEF d, s, a
        <3>5. SentAsApproved'
            BY <1>1, <1>3, <3>1, <3>3, <3>4 DEF SentAsApproved
        <3>6. TierIsOperators'
            BY <1>1, <1>3, <2>1, <3>1, <3>4 DEF TierIsOperators, Lawful
        <3>7. InvocationSound(w)'
            <4>1. call'[w] = d
                BY <1>1, <3>1 DEF TypeOK
            <4>2. QED
                BY <1>3, <2>1, <3>2, <4>1 DEF InvocationSound, Lawful
        <3>8. QED
            BY <1>2, <3>1, <3>2, <3>5, <3>6, <3>7, InvocationStep
    <2>3. CASE ~Signed(c.task, c.key)
        BY <1>5, <1>11, <2>3 DEF Send
    <2>4. QED
        BY <2>2, <2>3
<1>12. CASE Answer(w) \/ Die(w)
    BY <1>5, <1>12 DEF Answer, Die
<1>13. QED
    BY <1>6, <1>7, <1>8, <1>9, <1>10, <1>11, <1>12

(***************************************************************************)
(* The theorems.                                                           *)
(***************************************************************************)

\* The invariant holds initially, whatever was left in the databases.
LEMMA GlmInitially == Init => GlmInv
<1> SUFFICES ASSUME Init PROVE GlmInv
    OBVIOUS
<1>1. /\ key = 1 /\ files = [t \in Tasks |-> None]
      /\ approve = [o \in Operators |-> Idle] /\ call = [w \in Workers |-> Idle]
      /\ reported = {} /\ granted = {} /\ archived = {} /\ sent = {} /\ changes = MaxChanges
      /\ warrants = {} /\ verified = {} /\ permits = [o \in Operators |-> None]
    BY DEF Init, PoliciesInit
<1>2. PICK l \in Left : /\ tiers = l.tiers /\ tier = l.tier
                        /\ overrides = l.overrides /\ override = l.override
    BY DEF Init, PoliciesInit
<1>3. /\ tiers \subseteq Tiers /\ tier \in [tier : Tiers, authority : {FALSE}] \cup {None}
      /\ overrides \in [Revisions -> Overrides \cup {None}] /\ override \in Revisions \cup {None}
    BY <1>2, PoliciesAssumption
<1>4. PolicyTypes /\ TierVerified
    BY <1>1, <1>3 DEF PolicyTypes, TierVerified
<1>5. Idle \in Commands /\ Idle \in Invocations /\ Idle.place = "idle"
    BY DEF Idle, Commands, Invocations, Calls
<1>6. TypeOK
    BY <1>1, <1>4, <1>5, GlmAssumption DEF TypeOK
<1>7. \A o \in Operators : CommandSound(o)
    BY <1>1, <1>5 DEF CommandSound
<1>8. \A w \in Workers : InvocationSound(w)
    BY <1>1, <1>5 DEF InvocationSound
<1>9. \A t \in Tasks : RecordSound(t)
    BY <1>1 DEF RecordSound
<1>10. SentAsApproved /\ ApprovalStands /\ TierIsOperators
    BY <1>1 DEF SentAsApproved, ApprovalStands, TierIsOperators
<1>11. QED
    BY <1>4, <1>6, <1>7, <1>8, <1>9, <1>10 DEF GlmInv

\* Every step of the operators and the processes keeps it.
LEMMA GlmStep == GlmInv /\ [Next]_vars => GlmInv'
<1> SUFFICES ASSUME GlmInv, [Next]_vars PROVE GlmInv'
    OBVIOUS
<1>1. ASSUME NEW o \in Operators,
             \/ \E t \in Tasks, replace \in BOOLEAN : Approve(o, t, replace)
             \/ ApproveTier(o) \/ LoadSigningKey(o)
      PROVE  GlmInv'
    BY <1>1, EarlyCommand
<1>2. ASSUME NEW o \in Operators, Look(o) \/ Archive(o) \/ OpenRecord(o) \/ WriteRecord(o)
      PROVE  GlmInv'
    BY <1>2, RecordCommand
<1>3. ASSUME NEW o \in Operators, ActivateTier(o),
             UNCHANGED <<approvalVars, approve, call, sent, changes>>
      PROVE  GlmInv'
    BY <1>3, ActivateStep
<1>4. CASE Operate
    BY <1>4, OperateStep
<1>5. ASSUME NEW w \in Workers,
             \/ \E t \in Tasks : Begin(w, t)
             \/ BeginTier(w) \/ Check(w) \/ Validate(w) \/ LoadKey(w) \/ Send(w) \/ Answer(w) \/ Die(w)
      PROVE  GlmInv'
    BY <1>5, WorkerStep
<1>6. CASE UNCHANGED vars
    <2>1. UNCHANGED <<policyVars, key, files, reported, granted, archived, approve, call, sent, changes>>
        BY <1>6 DEF vars, approvalVars
    <2>2. TypeOK' /\ TierVerified'
        BY <2>1 DEF GlmInv, TypeOK, PolicyTypes, TierVerified, policyVars
    <2>3. /\ \A o \in Operators : CommandSound(o)'
          /\ \A t \in Tasks : RecordSound(t)'
          /\ \A w \in Workers : InvocationSound(w)'
        BY <2>1 DEF GlmInv, CommandSound, RecordSound, Grant, InvocationSound, Exact, Lawful, policyVars
    <2>4. SentAsApproved' /\ ApprovalStands' /\ TierIsOperators'
        BY <2>1 DEF GlmInv, SentAsApproved, ApprovalStands, TierIsOperators, policyVars
    <2>5. QED
        BY <2>2, <2>3, <2>4 DEF GlmInv
<1>7. QED
    BY <1>1, <1>2, <1>3, <1>4, <1>5, <1>6 DEF Next

\* The invariant holds in every state of the worker and its operators.
THEOREM GlmInvariant == Spec => []GlmInv
<1>1. QED
    BY GlmInitially, GlmStep, PTL DEF Spec

\* The policies, records, commands and calls keep their types.
THEOREM GlmTypes == Spec => []TypeOK
<1>1. GlmInv => TypeOK
    BY DEF GlmInv
<1>2. QED
    BY <1>1, GlmInvariant, PTL

\* What a process sends is what an operator approved in full, under the very key, tier
\* and token policy, however the policies, the key and the records change meanwhile
\* (invoke, _post_validated_task_once).
THEOREM AllSentAsApproved == Spec => []SentAsApproved
<1>1. GlmInv => SentAsApproved
    BY DEF GlmInv
<1>2. QED
    BY <1>1, GlmInvariant, PTL

\* A reported approval is on file, complete, until one of the operators archives it
\* (GlmApprovalStore.create).
THEOREM ApprovalsStand == Spec => []ApprovalStands
<1>1. GlmInv => ApprovalStands
    BY DEF GlmInv
<1>2. QED
    BY <1>1, GlmInvariant, PTL

\* What is sent is sent under the default tier or one whose activation was authorised
\* (activate, effective_binding).
THEOREM TiersAreOperators == Spec => []TierIsOperators
<1>1. GlmInv => TierIsOperators
    BY DEF GlmInv
<1>2. QED
    BY <1>1, GlmInvariant, PTL
================================================================================
