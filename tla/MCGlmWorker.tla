------------------------------ MODULE MCGlmWorker ------------------------------
(* A small instance of GlmWorker for TLC: one document for the default tier, one *)
(* for the extended tier under an override.                                      *)
EXTENDS GlmWorker, TLC

CONSTANTS standard, extended, retired, old, new, builtIn, plain, wide

MCDoc ==
    plain :> [tier |-> standard, tokens |-> builtIn, tiers |-> {standard, extended},
              policies |-> {builtIn, new}]
 @@ wide :> [tier |-> extended, tokens |-> new, tiers |-> {extended}, policies |-> {builtIn, new}]

MCRevisionOf == old :> 1 @@ new :> 2

Empty == [tiers |-> {}, tier |-> None, overrides |-> [r \in Revisions |-> None], override |-> None]
\* Nothing; an activation without an authority; an override of an earlier release;
\* and a tier and an override saved but not active.
MCLeft ==
    {Empty,
     [Empty EXCEPT !.tiers = {standard}, !.tier = [tier |-> standard, authority |-> FALSE]],
     [Empty EXCEPT !.overrides[1] = old, !.override = 1],
     [Empty EXCEPT !.tiers = {extended}, !.overrides[2] = new]}
Alike == Permutations(Operators) \cup Permutations(Workers)
=============================================================================
