--------------------------- MODULE MCRuntimeInvoke ---------------------------
(* Runs that write one workspace: the dispatcher's, a guarded and a plain one. *)
EXTENDS RuntimeInvoke, TLC

CONSTANTS batch, guarded, plain, workspace

MCResource == [r \in Runs |-> workspace]
MCOutcomes == {[net |-> TRUE, answer |-> "good", priced |-> TRUE],
               [net |-> TRUE, answer |-> "bad", priced |-> FALSE]}
Alike == Permutations(Callers)
=============================================================================
