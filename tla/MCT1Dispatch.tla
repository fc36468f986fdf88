---------------------------- MODULE MCT1Dispatch ----------------------------
(* A plan of two members, each with a ceiling of one, worked by calls of      *)
(* run_one that are alike; a transport may cost twice its member's ceiling.   *)
EXTENDS T1Dispatch, TLC

CONSTANTS first, second

MCOrdinal == [m \in Members |-> IF m = first THEN 0 ELSE 1]
MCCeiling == [m \in Members |-> 1]
Alike == Permutations(Runs)
=============================================================================
