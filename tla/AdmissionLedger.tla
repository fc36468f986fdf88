--------------------------- MODULE AdmissionLedger ---------------------------
(***************************************************************************)
(* What the Provider Admission Kernel promises its callers, without how.   *)
(*                                                                         *)
(* Each request owns at most one unit of provider capacity, once.  A unit  *)
(* is granted, used for one transport, and given back by an answer or by   *)
(* an operator; a unit whose outcome is unknown stays held.  Expiry only   *)
(* ever takes back a unit that no transport has used.                      *)
(***************************************************************************)
EXTENDS Naturals, FiniteSets

CONSTANTS Requests, Bound

VARIABLE unit

Phases == {"none", "granted", "dispatched", "unresolved", "closed"}

\* What one call may do to the unit of its own request.
Moves ==
    { <<"none", "granted">>,          \* try_admit
      <<"none", "closed">>,           \* cancel_waiting, or the row expires
      <<"granted", "dispatched">>,    \* begin_transport
      <<"granted", "closed">>,        \* cancelled before transport, or expired
      <<"dispatched", "closed">>,     \* finish with a known outcome
      <<"dispatched", "unresolved">>, \* finish with an unknown one, or expired
      <<"unresolved", "closed">> }    \* resolve_reconciliation

\* What the expiry sweep of the same call may do to any other unit.
Expired(phase) ==
    IF phase \in {"dispatched", "unresolved"} THEN "unresolved" ELSE "closed"

Holding(u) == {r \in Requests : u[r] \in {"granted", "dispatched", "unresolved"}}

Init == unit = [r \in Requests |-> "none"]

Next ==
    /\ unit' \in [Requests -> Phases]
    /\ \E r \in Requests :
        /\ <<unit[r], unit'[r]>> \in Moves
        /\ \A s \in Requests \ {r} : unit'[s] \in {unit[s], Expired(unit[s])}
    /\ Cardinality(Holding(unit')) <= Bound

Spec == Init /\ [][Next]_unit
=============================================================================
