----------------------------- MODULE MCT1Staging -----------------------------
(* A small instance of T1Staging for TLC. *)
EXTENDS T1Staging, TLC

CONSTANTS a, b, c, d, p, q

\* a and b are named alternatives of one plan for one path and c is another plan's;
\* d, automatic like a, may not be in a plan with it.
MCPlanOf == [m \in Members |-> IF m = c THEN q ELSE p]

For(group, automatic) == {[target |-> "path", group |-> group, automatic |-> automatic]}
MCClaimsOf == [m \in Members |-> IF m = c THEN For(None, TRUE) ELSE For("g", m # b)]
MCBytesOf == [m \in Members |-> CASE m = b -> "other" [] m = d -> "third" [] OTHER -> "same"]

Part(m, task) == [id |-> m, task |-> task, tier |-> "now", cost |-> 1, sound |-> TRUE]
Of(schema, plan, members, campaign) ==
    [schema |-> schema, plan |-> plan, members |-> members, workers |-> 1,
     dispatchers |-> {"w"}, aggregate |-> Len(members), campaign |-> campaign]

\* Of p in two ways, the second with a collision; of q in two, alike but for their
\* campaign ceilings; one beyond its ceiling and one of an earlier schema.
MCDoc == [x \in Documents |->
    CASE x = "both" -> Of(4, p, <<Part(a, "x"), Part(b, "y")>>, 2)
      [] x = "collide" -> Of(4, p, <<Part(a, "x"), Part(d, "y")>>, 2)
      [] x = "other" -> Of(4, q, <<Part(c, "x")>>, 2)
      [] x = "alike" -> Of(4, q, <<Part(c, "x")>>, 3)
      [] x = "costly" -> Of(4, q, <<Part(c, "x")>>, 0)
      [] x = "legacy" -> Of(3, q, <<Part(c, "x")>>, 2)]

Symmetry == Permutations(Stagers) \cup Permutations(Bindings)
=============================================================================
