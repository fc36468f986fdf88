------------------------------- MODULE T1Queue -------------------------------
(***************************************************************************)
(* The queue of one plan (src/macr_runtime/scheduler.py) and the batch     *)
(* authority it is read under (batch_authority.py).                        *)
(*                                                                         *)
(* Each action is one committed transaction; a call that raises before its *)
(* commit changes nothing.  resolve_reconciliation is two transactions,    *)
(* the revocation of the batch authority first.  A claim is named by the   *)
(* run that made it: fencing tokens are unique.  `lapsed' holds the claims *)
(* whose lease has run out (nothing in the source calls renew).  This      *)
(* module has no specification of its own: T1Dispatch composes it with the *)
(* dispatchers that call it.                                               *)
(***************************************************************************)
EXTENDS Integers, FiniteSetsExt

CONSTANTS
    Members,      \* member ids of the plan
    Ordinal,      \* position of a member in the plan
    Ceiling,      \* cost_ceiling_usd of a member
    Aggregate,    \* aggregate_cost_ceiling_usd of the batch
    Costs,        \* costs a transport may turn out to have
    Claims,       \* claims that may be made: <dispatcher id, fencing token> pairs
    None

ASSUME QueueAssumption ==
    /\ IsFiniteSet(Members)
    /\ Ordinal \in [Members -> Nat]
    /\ \A m, n \in Members : Ordinal[m] = Ordinal[n] => m = n
    /\ Ceiling \in [Members -> Nat]
    /\ Aggregate \in Nat
    /\ 0 \in Costs /\ Costs \subseteq Nat
    /\ None \notin Nat \cup Claims

VARIABLES
    row,        \* plan_queue_members: state, lease holder, observed cost
    lapsed,     \* claimed members with lease_expires_at <= now
    authority,  \* the batch authority: "valid", or "ended" by revocation or expiry
    resolving   \* members whose resolution has revoked the authority so far

queueVars == <<row, lapsed, authority, resolving>>

QueueStates == {"queued", "claimed", "completed", "failed", "reconciliation_required"}
Terminal == {"completed", "failed"}

Rows == [state : QueueStates, claim : Claims \cup {None}, cost : Costs \cup {None}]

MembersIn(S) == {m \in Members : row[m].state \in S}
Queued == [state |-> "queued", claim |-> None, cost |-> None]

\* enqueue: all members of the plan, under an authority that verifies.
QueueInit ==
    /\ row = [m \in Members |-> Queued]
    /\ lapsed = {}
    /\ authority = "valid"
    /\ resolving = {}

\* Nothing reads the observed cost of an unresolved member, so it is left out.
Uncertain(m) == [row[m] EXCEPT !.state = "reconciliation_required"]

\* (Definitions with a suffix are mutants: bugs the runs show the properties to catch.)
Swept_Requeues == [m \in Members |-> IF m \in lapsed THEN Queued ELSE row[m]]
Swept == [m \in Members |-> IF m \in lapsed THEN Uncertain(m) ELSE row[m]]

\* _mark_expired_claims, which peek_claimable, claim, state_counts and
\* list_by_state commit before anything else.
MarkExpiredClaims ==
    /\ row' = Swept
    /\ lapsed' = {}
    /\ UNCHANGED <<authority, resolving>>

LeaseLapses(m) ==
    /\ row[m].state = "claimed" /\ m \notin lapsed
    /\ lapsed' = lapsed \cup {m}
    /\ UNCHANGED <<row, authority, resolving>>

AuthorityEnds ==
    /\ authority = "valid"
    /\ authority' = "ended"
    /\ UNCHANGED <<row, lapsed, resolving>>

(***************************************************************************)
(* peek_claimable and claim.  What a claim decides does not depend on the  *)
(* sweep it commits first: a lapsed claim reserves its ceiling either way. *)
(***************************************************************************)
FirstQueued ==
    {m \in MembersIn({"queued"}) :
        \A n \in MembersIn({"queued"}) : Ordinal[m] <= Ordinal[n]}

\* What the plan has spent, or may still spend, on a member.
Reserved(m) ==
    CASE row[m].state \in {"claimed", "reconciliation_required"} -> Ceiling[m]
      [] row[m].state \in Terminal -> row[m].cost
      [] OTHER -> 0

WithinAggregate(m) == MapThenSumSet(Reserved, Members) + Ceiling[m] <= Aggregate

\* The member is claimed; or it is not the next one any more (None); or the
\* authority or the aggregate ceiling refuses, after the sweep was committed.
Claimable(m) == m \in FirstQueued /\ authority = "valid" /\ WithinAggregate(m)
ClaimMisses(m) ==
    m \notin FirstQueued /\ (authority = "valid" \/ MembersIn({"queued"}) = {})
ClaimRaises(m) == ~Claimable(m) /\ ~ClaimMisses(m)

Claim(m, c) ==
    /\ Claimable(m)
    /\ row' = [Swept EXCEPT ![m] = [state |-> "claimed", claim |-> c, cost |-> None]]
    /\ lapsed' = {}
    /\ UNCHANGED <<authority, resolving>>

(***************************************************************************)
(* Calls of a claim's holder; without the claim they raise.                *)
(***************************************************************************)
Holds(m, c) == row[m].state = "claimed" /\ row[m].claim = c

ReleaseBeforeDispatch(m, c) ==
    /\ Holds(m, c)
    /\ row' = [row EXCEPT ![m] = IF m \in lapsed THEN Uncertain(m) ELSE Queued]
    /\ lapsed' = lapsed \ {m}
    /\ UNCHANGED <<authority, resolving>>

\* _terminal: a lapsed lease or an excessive cost settles nothing.
Settles(m, cost) == m \notin lapsed /\ cost <= Ceiling[m]

CompleteOrFail(m, c, to, cost) ==
    /\ Holds(m, c)
    /\ row' = [row EXCEPT ![m] = IF Settles(m, cost)
                                 THEN [@ EXCEPT !.state = to, !.cost = cost]
                                 ELSE Uncertain(m)]
    /\ lapsed' = lapsed \ {m}
    /\ UNCHANGED <<authority, resolving>>

RequireReconciliation(m, c) ==
    /\ Holds(m, c)
    /\ row' = [row EXCEPT ![m] = Uncertain(m)]
    /\ lapsed' = lapsed \ {m}
    /\ UNCHANGED <<authority, resolving>>

(***************************************************************************)
(* resolve_reconciliation: the operator's answer for one member ends the   *)
(* authority of its whole batch.  One operator at a time works on a member *)
(* (the second of two would raise and change nothing).                     *)
(***************************************************************************)
ResolutionRevokes(m) ==
    /\ row[m].state = "reconciliation_required" /\ m \notin resolving
    /\ authority' = "ended"
    /\ resolving' = resolving \cup {m}
    /\ UNCHANGED <<row, lapsed>>

ResolutionSettles(m) ==
    /\ m \in resolving
    /\ \E to \in Terminal, cost \in Costs :
        /\ to = "completed" => cost <= Ceiling[m]
        /\ row' = [row EXCEPT ![m].state = to, ![m].cost = cost]
    /\ resolving' = resolving \ {m}
    /\ UNCHANGED <<lapsed, authority>>

QueueTypeOK ==
    /\ row \in [Members -> Rows]
    /\ \A m \in Members :
        /\ row[m].state = "claimed" => row[m].claim # None
        /\ row[m].state \in Terminal <=> row[m].cost # None
    /\ lapsed \subseteq MembersIn({"claimed"})
    /\ authority \in {"valid", "ended"}
    /\ resolving \subseteq MembersIn({"reconciliation_required"})
=============================================================================
