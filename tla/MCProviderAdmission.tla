------------------------- MODULE MCProviderAdmission -------------------------
(***************************************************************************)
(* A small instance of ProviderAdmission for TLC: two bulk requests of one *)
(* project and an interactive one of another, which may be a probe, under  *)
(* a global policy and its migration to an isolating one.                  *)
(***************************************************************************)
EXTENDS ProviderAdmission, TLC

CONSTANTS r1, r2, r3, p1, p2

MCProjectOf == [r \in Requests |-> IF r = r3 THEN p2 ELSE p1]
MCLaneOf == [r \in Requests |-> IF r = r3 THEN "interactive" ELSE "bulk"]

Migrating == [p \in Policies |-> IF p = 1 THEN "global" ELSE "capacity_reservation"]

\* The cap is below the hard maximum, and both grow with the successor, as in
\* the built-in history.
MCHardMax == [p \in Policies |-> p + 1]
MCCap == [p \in Policies |-> p]

\* The two bulk requests are alike.
Alike == Permutations({r1, r2})
=============================================================================
