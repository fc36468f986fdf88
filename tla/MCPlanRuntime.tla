---------------------------- MODULE MCPlanRuntime ----------------------------
(* A small instance of PlanRuntime for TLC. *)
EXTENDS PlanRuntime, TLC

CONSTANTS r1, r2, r3, x, y

Candidate(fails, cost, utility) ==
    [fails |-> fails, cost |-> cost, utility |-> utility, latency |-> 1, freshness |-> 1]

MCRouteNo == r1 :> 1 @@ r2 :> 2 @@ r3 :> 3

\* At first; then with the best route gone and another one unpriced and unqualified.
MCStates ==
    "first" :> (r1 :> Candidate(<<>>, 2, 3) @@ r2 :> Candidate(<<>>, 1, 2) @@ r3 :> Candidate(<<>>, 3, 2))
 @@ "later" :> (r1 :> Null @@ r2 :> Candidate(<<>>, 2, 2)
                @@ r3 :> Candidate(<<"qualification_not_current", "privacy_denied">>, Null, 2))

MCInputs == {[revision |-> 2, mode |-> "enforce", max |-> 2]}

MCObserved == {[called |-> TRUE, answer |-> "good", cost |-> 2], [called |-> FALSE, answer |-> Null, cost |-> Null]}

MCEvidence == {[table |-> "bill", run |-> x, no |-> 1]}
=============================================================================
