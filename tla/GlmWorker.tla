------------------------------- MODULE GlmWorker -------------------------------
(***************************************************************************)
(* The GLM worker (providers/glm.py) and the operator's approval of each   *)
(* task it may be given (glm_approval.py, glm-approve in cli.py), under    *)
(* the policies of ProviderPolicies.                                       *)
(*                                                                         *)
(* A task document carries the digest of one exact request, which names    *)
(* the tier and the token policy it was written for; the approval of that  *)
(* digest is a file, signed with the provider key.  A process reads the    *)
(* policies once, when it builds the provider, and keeps them: what it     *)
(* meets later may have been approved, activated or rotated since.         *)
(***************************************************************************)
EXTENDS ProviderPolicies

CONSTANTS
    Tasks,      \* task documents
    Doc,        \* the tier and token policy of their digest, and what they ask of them
    Workers,    \* processes that run one task after another
    MaxKey,     \* bound: keys in the provider's key file
    MaxChanges  \* bound: operator commands, crashes and lapses, in all

TokenPolicies == Overrides \cup {BuiltIn}

\* approval records: complete, past their time, signed with a key, for a tier
Records == [whole : BOOLEAN, lapsed : BOOLEAN, key : Nat, tier : Tiers]

ASSUME GlmAssumption ==
    /\ None \notin Records
    /\ \A t \in Tasks : Doc[t] \in
        [tier : Tiers, tokens : TokenPolicies, tiers : SUBSET Tiers, policies : SUBSET TokenPolicies]
    /\ MaxKey \in Nat /\ MaxChanges \in Nat

VARIABLES
    key,      \* the provider key file
    files,    \* approval records, by the task whose digest they are named after
    approve,  \* each operator: its place in glm-approve and what it knows
    call,     \* each worker: its place in an invocation and what it knows
    reported, \* tasks whose approval was reported
    granted,  \* history: approvals completely written
    archived, \* history: tasks whose record was moved away and not written since
    sent,     \* history: requests given to the transport
    changes   \* of the bound, still to come

approvalVars == <<key, files, reported, granted, archived>>
vars == <<policyVars, approvalVars, approve, call, sent, changes>>

Idle == [place |-> "idle", task |-> None, tokens |-> None, tier |-> None,
         key |-> None, replace |-> FALSE, seen |-> None]

Init ==
    /\ PoliciesInit
    /\ key = 1
    /\ files = [t \in Tasks |-> None]
    /\ approve = [o \in Operators |-> Idle]
    /\ call = [w \in Workers |-> Idle]
    /\ reported = {} /\ granted = {} /\ archived = {} /\ sent = {}
    /\ changes = MaxChanges

Change == changes > 0 /\ changes' = changes - 1

----------------------------------------------------------------------------
(* The provider a process has built, and the records it reads.             *)

\* The adapter is built only from a tier it supports and limits within its own.
Buildable(c) == c.tier \in Supported /\ c.tokens \in Sound \cup {BuiltIn}

\* _check_task_policy: the task's type, privacy, latency and rights, and its output.
TierAllows(c) == c.tier \in Doc[c.task].tiers
TokensAllow(c) == c.tokens \in Doc[c.task].policies
Fits(c) == TierAllows(c) /\ TokensAllow(c)

\* The digest of what _prepare would send is the task's.
Exact(c) == c.tier = Doc[c.task].tier /\ c.tokens = Doc[c.task].tokens

\* inspect: the record can be read, and its time is not over.
Readable(t) == files[t] # None /\ files[t].whole /\ ~files[t].lapsed

Signed_Any(t, k) == Readable(t)
\* verify: it is also signed with the key.
Signed(t, k) == Readable(t) /\ files[t].key = k

\* _validate_approval_prepared
Bound(c) == Fits(c) /\ Exact(c) /\ Readable(c.task) /\ files[c.task].tier = c.tier

----------------------------------------------------------------------------
(* glm-approve.                                                            *)

At(o, place) == approve[o].place = place
Leaves(o) == approve' = [approve EXCEPT ![o] = Idle]
Goes(o, place) == approve' = [approve EXCEPT ![o].place = place]

Approve(o, t, replace) ==
    /\ At(o, "idle") /\ EffectiveTokens # None /\ Change
    /\ approve' = [approve EXCEPT ![o] =
         [Idle EXCEPT !.place = "tier", !.task = t, !.tokens = EffectiveTokens, !.replace = replace]]
    /\ UNCHANGED <<policyVars, approvalVars, call, sent>>

ApproveTier(o) ==
    LET c == [approve[o] EXCEPT !.tier = EffectiveTier] IN
    /\ At(o, "tier")
    /\ IF EffectiveTier # None /\ Buildable(c) /\ Fits(c) /\ Exact(c)
       THEN approve' = [approve EXCEPT ![o] = [c EXCEPT !.place = "key"]]
       ELSE Leaves(o)
    /\ UNCHANGED <<policyVars, approvalVars, call, sent, changes>>

LoadSigningKey(o) ==
    /\ At(o, "key")
    /\ approve' = [approve EXCEPT ![o].place = "look", ![o].key = key]
    /\ UNCHANGED <<policyVars, approvalVars, call, sent, changes>>

\* A record that is there is verified and reported, or archived first.
Verifies(o) ==
    reported' = IF Signed(approve[o].task, approve[o].key)
                THEN reported \cup {approve[o].task} ELSE reported

Look(o) ==
    LET t == approve[o].task IN
    /\ At(o, "look")
    /\ IF files[t] = None THEN Goes(o, "open") /\ UNCHANGED reported
       ELSE IF approve[o].replace THEN Goes(o, "archive") /\ UNCHANGED reported
       ELSE Leaves(o) /\ Verifies(o)
    /\ UNCHANGED <<policyVars, key, files, granted, archived, call, sent, changes>>

\* A file that another process moved away, or has open, cannot be moved.
Archive(o) ==
    LET t == approve[o].task IN
    /\ At(o, "archive")
    /\ IF files[t] # None /\ ~\E p \in Operators : At(p, "write") /\ approve[p].task = t
       THEN /\ files' = [files EXCEPT ![t] = None]
            /\ archived' = archived \cup {t}
            /\ Goes(o, "open")
       ELSE Leaves(o) /\ UNCHANGED <<files, archived>>
    /\ UNCHANGED <<policyVars, key, reported, granted, call, sent, changes>>

Free_Always(t) == TRUE
\* The file is opened only if it does not exist.
Free(t) == files[t] = None

OpenRecord(o) ==
    LET t == approve[o].task IN
    /\ At(o, "open")
    /\ IF Free(t)
       THEN /\ files' = [files EXCEPT ![t] = [whole |-> FALSE, lapsed |-> FALSE, key |-> approve[o].key,
                                              tier |-> approve[o].tier]]
            /\ Goes(o, "write") /\ UNCHANGED reported
       ELSE Leaves(o) /\ Verifies(o) /\ UNCHANGED files
    /\ UNCHANGED <<policyVars, key, granted, archived, call, sent, changes>>

WriteRecord(o) ==
    LET c == approve[o] IN
    /\ At(o, "write")
    /\ files' = [files EXCEPT ![c.task] = [whole |-> TRUE, lapsed |-> FALSE, key |-> c.key, tier |-> c.tier]]
    /\ reported' = reported \cup {c.task}
    /\ granted' = granted \cup {[task |-> c.task, tier |-> c.tier, tokens |-> c.tokens, key |-> c.key]}
    /\ archived' = archived \ {c.task}
    /\ Leaves(o)
    /\ UNCHANGED <<policyVars, key, call, sent, changes>>

Operate ==
    /\ Change
    /\ \/ PoliciesNext /\ UNCHANGED <<approvalVars, approve>>
       \/ /\ key < MaxKey /\ key' = key + 1
          /\ UNCHANGED <<policyVars, files, reported, granted, archived, approve>>
       \/ \E t \in Tasks : /\ Readable(t)
                           /\ files' = [files EXCEPT ![t].lapsed = TRUE]
                           /\ UNCHANGED <<policyVars, key, reported, granted, archived, approve>>
       \/ \E o \in Operators : /\ ~At(o, "idle")
                               /\ Leaves(o)
                               /\ UNCHANGED <<policyVars, approvalVars>>
    /\ UNCHANGED <<call, sent>>

----------------------------------------------------------------------------
(* An invocation.                                                          *)

In(w, place) == call[w].place = place
Ends(w) == call' = [call EXCEPT ![w] = Idle]

\* from_configs: the provider is built from what is in force.
Begin(w, t) ==
    /\ In(w, "idle") /\ EffectiveTokens # None
    /\ call' = [call EXCEPT ![w] = [Idle EXCEPT !.place = "tier", !.task = t, !.tokens = EffectiveTokens]]
    /\ UNCHANGED <<policyVars, approvalVars, approve, sent, changes>>

BeginTier(w) ==
    LET c == [call[w] EXCEPT !.tier = EffectiveTier] IN
    /\ In(w, "tier")
    /\ IF EffectiveTier # None /\ Buildable(c)
       THEN call' = [call EXCEPT ![w] = [c EXCEPT !.place = "check"]]
       ELSE Ends(w)
    /\ UNCHANGED <<policyVars, approvalVars, approve, sent, changes>>

InForce_AtStart(c) == EffectiveTier # None
\* invoke: the provider's tier is still the one in force.
InForce(c) == EffectiveTier = c.tier

Check(w) ==
    /\ In(w, "check")
    /\ IF InForce(call[w]) THEN call' = [call EXCEPT ![w].place = "validate", ![w].seen = EffectiveTier]
                           ELSE Ends(w)
    /\ UNCHANGED <<policyVars, approvalVars, approve, sent, changes>>

\* The approval is validated before anything is written, and again by
\* _post_validated_task_once before it begins the transport.
Validate(w) ==
    /\ call[w].place \in {"validate", "prepare"}
    /\ IF Bound(call[w])
       THEN call' = [call EXCEPT ![w].place = IF @ = "validate" THEN "prepare" ELSE "begun"]
       ELSE Ends(w)
    /\ UNCHANGED <<policyVars, approvalVars, approve, sent, changes>>

LoadKey(w) ==
    /\ In(w, "begun")
    /\ call' = [call EXCEPT ![w].place = "verify", ![w].key = key]
    /\ UNCHANGED <<policyVars, approvalVars, approve, sent, changes>>

\* What was validated is verified with the key just read and then sent, or refused
\* before the network.
Send(w) ==
    LET c == call[w] IN
    /\ In(w, "verify")
    /\ IF Signed(c.task, c.key)
       THEN /\ sent' = sent \cup {[task |-> c.task, tier |-> c.tier, tokens |-> c.tokens,
                                   key |-> c.key, seen |-> c.seen]}
            /\ call' = [call EXCEPT ![w].place = "answer"]
       ELSE Ends(w) /\ UNCHANGED sent
    /\ UNCHANGED <<policyVars, approvalVars, approve, changes>>

\* _observe_response, _validate_observation: whatever the response turns out to be, its
\* caller is told, and neither policies nor approvals are written.
Answer(w) ==
    /\ In(w, "answer")
    /\ Ends(w)
    /\ UNCHANGED <<policyVars, approvalVars, approve, sent, changes>>

Die(w) ==
    /\ ~In(w, "idle") /\ Change
    /\ Ends(w)
    /\ UNCHANGED <<policyVars, approvalVars, approve, sent>>

Next ==
    \/ \E o \in Operators :
        \/ \E t \in Tasks, replace \in BOOLEAN : Approve(o, t, replace)
        \/ ApproveTier(o) \/ LoadSigningKey(o) \/ Look(o) \/ Archive(o)
        \/ OpenRecord(o) \/ WriteRecord(o)
        \/ ActivateTier(o) /\ UNCHANGED <<approvalVars, approve, call, sent, changes>>
    \/ Operate
    \/ \E w \in Workers :
        \/ \E t \in Tasks : Begin(w, t)
        \/ BeginTier(w) \/ Check(w) \/ Validate(w) \/ LoadKey(w) \/ Send(w) \/ Answer(w) \/ Die(w)

Spec == Init /\ [][Next]_vars

----------------------------------------------------------------------------
(* Properties.                                                             *)

\* Nothing leaves but what an operator approved, in full: this task, for the tier and
\* the token policy its process runs under, with the very key it is sent with.
\* Policies, records and the key may each change between any two of the looks a process
\* takes at them (glm-approve, invoke, _post_validated_task_once).
SentAsApproved ==
    \A s \in sent : \E a \in granted :
        a = [task |-> s.task, tier |-> s.tier, tokens |-> s.tokens, key |-> s.key]

\* An approval that was reported is on file, complete, for as long as nobody has it
\* replaced: operators who approve one task at once, or die over it, never lose nor
\* truncate the record of another (GlmApprovalStore.create).
ApprovalStands ==
    \A t \in reported : (files[t] # None /\ files[t].whole) \/ t \in archived

\* The tier a request was sent under was in force when its process asked last: the
\* built-in one or one an operator's authority was verified for, never what an
\* earlier release left active (activate, effective_binding, invoke).
TierIsOperators ==
    \A s \in sent : s.tier = s.seen /\ (s.tier = Default \/ s.tier \in verified)
=============================================================================
