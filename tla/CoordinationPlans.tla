--------------------------- MODULE CoordinationPlans ---------------------------
(***************************************************************************)
(* Coordination plans: which route a task is bound to (planner.py), what a *)
(* well-formed plan is (coordination.py), and the revision that follows a  *)
(* failure.                                                                *)
(*                                                                         *)
(* Planning is pure: it reads a snapshot of the candidates and returns a   *)
(* plan.  The variable plans holds what the host was given; a plan is its  *)
(* canonical content, as its digest is (plan_id excluded).                 *)
(***************************************************************************)
EXTENDS Integers, FiniteSets, Sequences

CONSTANTS
    Null,
    PlanRoutes,       \* one candidate of each at most in a planning state
    RouteNo,      \* the order of the route digests, the last tie-break
    StateNames,    \* names of planning states
    States,       \* what each says of the candidates
    Inputs,       \* revision, budget mode and ceiling of the planning inputs
    Failures,     \* reasons for which a host asks for a fallback
    MaxTasks,     \* bound: tasks planned
    MaxPlans      \* bound: plans compiled for them

ExclusionReason == {"identity_unresolved", "role_mismatch", "context_class_mismatch",
                    "qualification_not_current", "qualification_snapshot_mismatch",
                    "privacy_denied", "capability_missing", "verifier_unavailable",
                    "context_capsule_expired", "context_capsule_denied", "route_not_allowlisted",
                    "provider_unavailable", "budget_unassessable", "budget_denied"}

\* A candidate: fails is what _eligibility notes against it, in the order in which it looks
\* (the candidate, each context capsule, its route and provider), before the budget.
Candidates == [fails : Seq(ExclusionReason), cost : Nat \cup {Null},
               utility : Nat, latency : Nat, freshness : Nat]

\* Compiled plans: what a task was planned from, its route, and the revisions so far.
Fallbacks == [reason : Failures, from : PlanRoutes, to : PlanRoutes]
Plans == [revision : Nat, mode : {"shadow_only", "execution_eligible"}, input : Inputs,
          state : StateNames, bound : PlanRoutes, eligible : SUBSET PlanRoutes,
          excluded : SUBSET [route : PlanRoutes, reason : ExclusionReason],
          cost : Nat, warned : BOOLEAN, fallbacks : Seq(Fallbacks)]

ASSUME PlansAssumption ==
    /\ IsFiniteSet(PlanRoutes) /\ Null \notin Nat
    /\ RouteNo \in [PlanRoutes -> Nat]
    /\ \A r, q \in PlanRoutes : RouteNo[r] = RouteNo[q] => r = q
    /\ \A s \in StateNames, r \in PlanRoutes : States[s][r] \in Candidates \cup {Null}
    /\ Inputs \subseteq [revision : Nat \ {0}, mode : {"observe", "warn", "enforce"}, max : Nat]
    /\ MaxTasks \in Nat /\ MaxPlans \in Nat

VARIABLE plans  \* compiled plans, shadow and executable

PlansInit == plans = {}

----------------------------------------------------------------------------
(* Hard gates, then a lexicographic rank.                                  *)

Listed(s) == {r \in PlanRoutes : States[s][r] # Null}

\* Every reason for which _eligibility excludes a candidate, the budget last.
Failing(input, c) ==
    c.fails \o (IF c.cost = Null THEN <<"budget_unassessable">>
                ELSE IF input.mode = "enforce" /\ c.cost > input.max THEN <<"budget_denied">> ELSE <<>>)

Allowed(input, s) == {r \in Listed(s) : Failing(input, States[s][r]) = <<>>}

\* An excluded candidate is recorded with its first reason.
Excluded(input, s) ==
    {[route |-> r, reason |-> Head(Failing(input, States[s][r]))] : r \in Listed(s) \ Allowed(input, s)}

RankKey(s, r) ==
    LET c == States[s][r] IN <<-c.utility, c.cost, c.latency, -c.freshness, RouteNo[r]>>

Before(k, l) == \E i \in 1..5 : k[i] < l[i] /\ \A j \in 1..(i - 1) : k[j] = l[j]

\* The best-ranked of some routes.
Best(s, routes) ==
    CHOOSE r \in routes : \A q \in routes \ {r} : Before(RankKey(s, r), RankKey(s, q))

Warned(input, cost) == input.mode = "warn" /\ cost > input.max

\* CoordinationPlan.__post_init__
WellFormed(p) ==
    /\ p.bound \in p.eligible
    /\ p.eligible \cap {x.route : x \in p.excluded} = {}

Compile(p) ==
    /\ WellFormed(p)
    /\ Cardinality(plans) < MaxPlans
    /\ plans' = plans \cup {p}

Plan(input, s) ==
    /\ Allowed(input, s) # {}
    /\ Cardinality({p \in plans : p.fallbacks = <<>> /\ p.mode = "shadow_only"}) < MaxTasks
    /\ LET chosen == Best(s, Allowed(input, s))
       IN Compile([revision |-> input.revision, mode |-> "shadow_only", input |-> input, state |-> s,
                   bound |-> chosen, eligible |-> Allowed(input, s), excluded |-> Excluded(input, s),
                   cost |-> States[s][chosen].cost,
                   warned |-> Warned(input, States[s][chosen].cost), fallbacks |-> <<>>])

Dropped_None(p) == {}
\* What a revision takes out of the eligible routes: the one that failed.
Dropped(p) == {p.bound}

\* revise_for_failure: the gates are not looked at again, only the ranks.
Revise(p, why, s) ==
    LET left == p.eligible \ Dropped(p)
        remaining == left \cap Listed(s)
        chosen == Best(s, remaining)
    IN  /\ remaining # {}
        /\ \A r \in remaining : States[s][r].cost # Null  \* _rank_key raises
        /\ Compile([p EXCEPT !.revision = @ + 1, !.mode = "shadow_only",
                             !.bound = chosen, !.eligible = left,
                             !.excluded = @ \cup {[route |-> r, reason |-> "provider_unavailable"] : r \in Dropped(p)},
                             !.cost = States[s][chosen].cost,
                             !.warned = Warned(p.input, States[s][chosen].cost),
                             !.fallbacks = Append(@, [reason |-> why, from |-> p.bound, to |-> chosen])])

\* The host's decision to let a plan execute: the planner makes shadow plans only.
Promote(p) ==
    /\ p.mode = "shadow_only"
    /\ Compile([p EXCEPT !.mode = "execution_eligible"])

PlansNext ==
    \/ \E input \in Inputs, s \in StateNames : Plan(input, s)
    \/ \E p \in plans, s \in StateNames, why \in Failures : Revise(p, why, s)
    \/ \E p \in plans : Promote(p)

----------------------------------------------------------------------------

\* However the candidates change between revisions, a fallback moves on: no plan
\* binds a route that failed before it, each binds one that passed every hard gate
\* when the task was planned, and the revisions of a task, counted from the one its
\* planning input gave, come to an end (revise_for_failure looks at no gate again).
FallbackAdvances ==
    \A p \in plans :
        /\ p.bound \in Allowed(p.input, p.state) \ {p.fallbacks[i].from : i \in DOMAIN p.fallbacks}
        /\ p.revision = p.input.revision + Len(p.fallbacks)
        /\ Len(p.fallbacks) < Cardinality(Allowed(p.input, p.state))
=============================================================================
