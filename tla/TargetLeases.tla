------------------------------ MODULE TargetLeases ------------------------------
(***************************************************************************)
(* Who may write a path of the repository: TargetLeaseStore                *)
(* (target_leases.py), and CandidateVault.materialize_verbatim, which      *)
(* writes a captured candidate there.  Nothing in the repository's runtime *)
(* joins the two: a host takes the lease, materializes and gives it back.  *)
(*                                                                         *)
(* A lease row is named by its plan, member and path and is never inserted *)
(* twice, so the row stands for its fencing token.                         *)
(***************************************************************************)
EXTENDS Integers, FiniteSets

CONSTANTS
    None,
    Members,   \* member digests
    PlanOf,    \* the plan of each
    Targets,   \* normalized paths of the repository
    ClaimsOf,  \* what each member claims: path, alternative group, automatic or not
    BytesOf    \* the candidate captured for each

Claim == [target : Targets, group : STRING \cup {None}, automatic : BOOLEAN]

\* what a row may say
LeaseStates == {"active", "lapsed", "reconciliation_required", "released"}

ASSUME ClaimsAssumption ==
    /\ \A m \in Members :
        /\ ClaimsOf[m] \subseteq Claim /\ BytesOf[m] # None
        /\ \A c, d \in ClaimsOf[m] : c.target = d.target => c = d
    /\ None \notin LeaseStates

VARIABLES
    leases,     \* target_path_leases
    files,      \* bytes at each path, if any
    materials   \* rows of materializations

targetVars == <<leases, files, materials>>

Keys == {k \in Members \X Targets : \E c \in ClaimsOf[k[1]] : c.target = k[2]}

TargetsInit ==
    /\ leases = [k \in Keys |-> None]
    /\ files = [t \in Targets |-> None]
    /\ materials = {}

ClaimOn(m, t) == CHOOSE c \in ClaimsOf[m] : c.target = t

Held(m, t) == <<m, t>> \in Keys /\ leases[<<m, t>>] # None

----------------------------------------------------------------------------
(* Leases.  A row is "active", "lapsed" (active, past its expiry),         *)
(* "reconciliation_required" or "released".                                *)

\* Rows that stand in the way of another member's acquire.
Owners(t) == {m \in Members : Held(m, t) /\ leases[<<m, t>>] # "released"}
Lapsed(t) == {m \in Owners(t) : leases[<<m, t>>] = "lapsed"}

Rival_ButAwaiting(m, n, t) ==
    /\ leases[<<n, t>>] = "active"
    /\ PlanOf[m] # PlanOf[n] \/ ClaimOn(m, t).group \notin {ClaimOn(n, t).group} \ {None}
\* A row that refuses the path to a member: awaiting reconciliation, of another
\* plan, or not of one named alternative group.
Rival(m, n, t) ==
    \/ leases[<<n, t>>] = "reconciliation_required"
    \/ PlanOf[m] # PlanOf[n]
    \/ ClaimOn(m, t).group \notin {ClaimOn(n, t).group} \ {None}

Automatic(t, members) == {m \in members : ClaimOn(m, t).automatic}

\* An expired row found on the way goes to reconciliation, and the call is refused.
Acquire(m, t) ==
    /\ <<m, t>> \in Keys /\ leases[<<m, t>>] = None
    /\ IF Lapsed(t) # {}
       THEN leases' = [k \in Keys |-> IF k \in Lapsed(t) \X {t} THEN "reconciliation_required" ELSE leases[k]]
       ELSE /\ ~\E n \in Owners(t) : Rival(m, n, t)
            /\ Cardinality(Automatic(t, Owners(t) \cup {m})) <= 1
            /\ leases' = [leases EXCEPT ![<<m, t>>] = "active"]
    /\ UNCHANGED <<files, materials>>

LeaseLapses(m, t) ==
    /\ Held(m, t) /\ leases[<<m, t>>] = "active"
    /\ leases' = [leases EXCEPT ![<<m, t>>] = "lapsed"]
    /\ UNCHANGED <<files, materials>>

\* renew, or acquire by the holder itself; in time they change the expiry alone.
Renew(m, t) ==
    /\ Held(m, t) /\ leases[<<m, t>>] = "lapsed"
    /\ leases' = [leases EXCEPT ![<<m, t>>] = "reconciliation_required"]
    /\ UNCHANGED <<files, materials>>

ReleaseTarget(m, t) ==
    /\ Held(m, t) /\ leases[<<m, t>>] \in {"active", "lapsed"}
    /\ leases' = [leases EXCEPT ![<<m, t>>] = IF @ = "lapsed" THEN "reconciliation_required" ELSE "released"]
    /\ UNCHANGED <<files, materials>>

\* An operator, with evidence of what became of the path.
ReconcileRelease(m, t) ==
    /\ Held(m, t) /\ leases[<<m, t>>] = "reconciliation_required"
    /\ leases' = [leases EXCEPT ![<<m, t>>] = "released"]
    /\ UNCHANGED <<files, materials>>

----------------------------------------------------------------------------
(* Materialization: the file, then the record of it.                       *)

\* _write_once: a path that exists must already hold these bytes.
WriteOnce(m, t) == files[t] \in {None, BytesOf[m]}

\* The vault does not look at the lease: its holder may come late.  A host that dies
\* in between leaves the file without its record, until somebody tries again.
Materialize(m, t, recorded) ==
    /\ Held(m, t) /\ WriteOnce(m, t)
    /\ files' = [files EXCEPT ![t] = BytesOf[m]]
    /\ materials' = IF recorded THEN materials \cup {<<m, t>>} ELSE materials
    /\ UNCHANGED leases

----------------------------------------------------------------------------

\* A path never has two owners who do not know of each other: whatever lapses, is
\* reconciled or returns late, the rows in force for it are of one plan and one named
\* group, no plan ever gives it to two automatic members, one after the other
\* included, and all who recorded writing it wrote the bytes that are there
\* (acquire refuses, enqueue's collision check, _write_once).
OneOwner ==
    \A t \in Targets :
        /\ \A m, n \in Owners(t) : m # n =>
            /\ PlanOf[m] = PlanOf[n]
            /\ ClaimOn(m, t).group = ClaimOn(n, t).group /\ ClaimOn(m, t).group # None
        /\ \A m, n \in Members : Held(m, t) /\ Held(n, t) /\ PlanOf[m] = PlanOf[n] /\ m # n =>
              ~(ClaimOn(m, t).automatic /\ ClaimOn(n, t).automatic)
        /\ \A m \in Members : <<m, t>> \in materials => files[t] = BytesOf[m]
=============================================================================
