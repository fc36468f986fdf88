--------------------------- MODULE ProviderPolicies ---------------------------
(***************************************************************************)
(* The operator's policies for one exact provider model: capability tiers  *)
(* (provider_capability_store.py) and token overrides                      *)
(* (model_token_store.py), two databases in which documents are saved      *)
(* under a revision for good and one of them may be active.                *)
(*                                                                         *)
(* Either may hold an active row of an earlier release, which the present  *)
(* one refuses to use and will not replace by a built-in policy.           *)
(***************************************************************************)
EXTENDS Integers, FiniteSets

CONSTANTS
    None,
    Tiers,      \* capability policies
    Supported,  \* those the adapter supports
    Default,    \* the one in force when none was activated
    Overrides,  \* token override documents
    RevisionOf, \* their revisions
    Current,    \* those written for the built-in policy of this release
    Sound,      \* those whose limits fit the built-in policy's
    Left,       \* what earlier commands and releases may have left in the databases
    BuiltIn,    \* the token policy of the release
    Operators

Revisions == {RevisionOf[o] : o \in Overrides}

ASSUME PoliciesAssumption ==
    /\ Default \in Supported /\ Supported \subseteq Tiers
    /\ Current \subseteq Overrides /\ Sound \subseteq Overrides
    /\ None \notin Tiers \cup Overrides \cup Revisions \cup {BuiltIn}
    /\ BuiltIn \notin Overrides
    /\ Left \subseteq [tiers : SUBSET Tiers, tier : [tier : Tiers, authority : {FALSE}] \cup {None},
                      overrides : [Revisions -> Overrides \cup {None}], override : Revisions \cup {None}]
    /\ \A l \in Left :
        /\ l.tier # None => l.tier.tier \in l.tiers
        /\ \A r \in Revisions : \A o \in {l.overrides[r]} \ {None} : RevisionOf[o] = r
        /\ l.override # None => l.overrides[l.override] # None

VARIABLES
    tiers,      \* provider_capability_policies
    tier,       \* provider_capability_active: its tier, and whether it names an authority
    warrants,   \* tiers with a live operator authority for their activation
    permits,    \* each operator: the tier it verified an authority for
    verified,   \* history: tiers an authority was verified for
    overrides,  \* model_token_overrides, by revision
    override    \* model_token_active: a revision

policyVars == <<tiers, tier, warrants, permits, verified, overrides, override>>

PoliciesInit ==
    /\ \E l \in Left :
        /\ tiers = l.tiers /\ tier = l.tier
        /\ overrides = l.overrides /\ override = l.override
    /\ warrants = {} /\ verified = {}
    /\ permits = [o \in Operators |-> None]

----------------------------------------------------------------------------
(* Capability tiers.                                                       *)

SaveTier(t) ==
    /\ t \in Supported \ tiers
    /\ tiers' = tiers \cup {t}
    /\ UNCHANGED <<tier, warrants, permits, verified, overrides, override>>

\* An authority of the plane policy_activation is for one exact tier.
Warrant(t) ==
    /\ t \in Supported \ warrants
    /\ warrants' = warrants \cup {t}
    /\ UNCHANGED <<tiers, tier, permits, verified, overrides, override>>

RevokeWarrant(t) ==
    /\ t \in warrants
    /\ warrants' = warrants \ {t}
    /\ UNCHANGED <<tiers, tier, permits, verified, overrides, override>>

\* ProviderCapabilityGovernance.activate: the authority is in a database of its
\* own, so the activation it permits is a transaction after its verification.
VerifyActivation(o, t) ==
    /\ permits[o] = None
    /\ t \in tiers /\ t \in warrants
    /\ permits' = [permits EXCEPT ![o] = t]
    /\ verified' = verified \cup {t}
    /\ UNCHANGED <<tiers, tier, warrants, overrides, override>>

Activated_AnySaved(o) == tiers
Activated(o) == {permits[o]} \cap tiers

ActivateTier(o) ==
    /\ permits[o] # None
    /\ \E t \in Activated(o) : tier' = [tier |-> t, authority |-> TRUE]
    /\ permits' = [permits EXCEPT ![o] = None]
    /\ UNCHANGED <<tiers, warrants, verified, overrides, override>>

\* effective_binding and effective_policy; None: they raise.
EffectiveTier ==
    IF tier = None THEN Default
    ELSE IF tier.authority /\ tier.tier \in tiers \cap Supported THEN tier.tier ELSE None

----------------------------------------------------------------------------
(* Token overrides.                                                        *)

\* A revision is never written twice.
SaveOverride(o, activate) ==
    LET revision == RevisionOf[o] IN
    /\ o \in Current \cap Sound
    /\ overrides[revision] \in {None, o}
    /\ overrides' = [overrides EXCEPT ![revision] = o]
    /\ override' = IF activate THEN revision ELSE override
    /\ overrides' # overrides \/ override' # override
    /\ UNCHANGED <<tiers, tier, warrants, permits, verified>>

ActivateOverride(revision) ==
    /\ overrides[revision] \in Current
    /\ override' = revision /\ override # revision
    /\ UNCHANGED <<tiers, tier, warrants, permits, verified, overrides>>

\* effective_policy, whose digest names the revision applied; None: it raises.
EffectiveTokens ==
    IF override = None THEN BuiltIn
    ELSE IF overrides[override] \in Current \cap Sound THEN overrides[override] ELSE None

\* What an operator begins.
PoliciesNext ==
    \/ \E t \in Tiers : SaveTier(t) \/ Warrant(t) \/ RevokeWarrant(t)
    \/ \E o \in Operators, t \in Tiers : VerifyActivation(o, t)
    \/ \E o \in Overrides, activate \in BOOLEAN : SaveOverride(o, activate)
    \/ \E r \in Revisions : ActivateOverride(r)
=============================================================================
