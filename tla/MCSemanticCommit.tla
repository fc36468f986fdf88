--------------------------- MODULE MCSemanticCommit ---------------------------
(* Two agents, with a worker each, share one graph.  `back' undoes `ahead', so *)
(* that the content of the graph recurs; `link' relates a new node to another. *)
EXTENDS SemanticCommit, TLC

CONSTANTS a1, a2, w1, w2, n1, n2, v1, v2, ahead, back, link

MCServes == w1 :> a1 @@ w2 :> a2
MCOwnerOf == w1 :> w1 @@ w2 :> w2
Nothing == [n \in NodeIds |-> None]
MCGenesis == [Nothing EXCEPT ![n1] = v1]
MCPatchOf ==
    ahead :> [add |-> Nothing, update |-> [Nothing EXCEPT ![n1] = v2],
              supersede |-> {<<n1, v1>>}, relate |-> {}]
    @@ back :> [add |-> [Nothing EXCEPT ![n1] = v1], update |-> Nothing,
                supersede |-> {<<n1, v2>>}, relate |-> {}]
    @@ link :> [add |-> [Nothing EXCEPT ![n2] = v1], update |-> Nothing,
                supersede |-> {}, relate |-> {<<n1, n2>>}]
=============================================================================
