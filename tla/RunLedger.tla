------------------------------- MODULE RunLedger -------------------------------
(***************************************************************************)
(* What the stores of the runtime hold of one provider call, whoever makes *)
(* it: an event, an account and a candidate, each written by a call of its *)
(* own, in one order.                                                      *)
(*                                                                         *)
(* A run gets as far in this order as it gets and stays there: nothing of  *)
(* it is written a second time, skipped, or taken back, but the bytes of a *)
(* candidate.  Callers, threads, leases, permits, failures and crashes do  *)
(* not appear: a caller that stops leaves its runs as they are.            *)
(***************************************************************************)
CONSTANTS
    Runs,
    None,
    Observed   \* observations of a provider, with their answer or None

VARIABLE ledger

Nothing == [event |-> None, account |-> None, post |-> None, file |-> None, candidate |-> None]
Opened == [seen |-> None, status |-> None]

\* The candidate alone decides what the run is worth.
Worth(seen) == IF seen.answer = "good" THEN "success" ELSE "failure"

Enter(r, entry) == ledger' = [ledger EXCEPT ![r] = entry]

\* The run's first event, for a run of which nothing is known (start_run).
Dispatch(r) ==
    /\ ledger[r] = Nothing
    /\ Enter(r, [ledger[r] EXCEPT !.event = "dispatched"])

\* record_dispatch
Open(r) ==
    /\ ledger[r].event = "dispatched" /\ ledger[r].account = None
    /\ Enter(r, [ledger[r] EXCEPT !.account = Opened])

\* The bytes of an answer, while nothing of it is on the account.
Write(r) ==
    /\ ledger[r].account = Opened /\ ledger[r].file = None /\ ledger[r].candidate = None
    /\ \E answer \in {seen.answer : seen \in Observed} \ {None} :
        Enter(r, [ledger[r] EXCEPT !.file = answer])

\* The row of the vault, for the bytes that are there.
Keep(r) ==
    /\ ledger[r].account = Opened /\ ledger[r].file # None /\ ledger[r].candidate = None
    /\ Enter(r, [ledger[r] EXCEPT !.candidate = ledger[r].file])

\* record_observation: only of an answer that was captured.
Observe(r) ==
    /\ ledger[r].event = "dispatched" /\ ledger[r].account = Opened
    /\ ledger[r].file = ledger[r].candidate
    /\ \E seen \in Observed :
        /\ seen.answer = ledger[r].candidate
        /\ Enter(r, [ledger[r] EXCEPT !.account = [seen |-> seen, status |-> None]])

\* record_terminal, with the row of the outbox.
Settle(r) ==
    LET seen == ledger[r].account.seen IN
    /\ ledger[r].event = "dispatched"
    /\ ledger[r].account # None /\ seen # None /\ ledger[r].account.status = None
    /\ Enter(r, [ledger[r] EXCEPT !.account = [seen |-> seen, status |-> Worth(seen)],
                                  !.post = [status |-> Worth(seen), seen |-> seen]])

\* The terminal event, with the status that the account was closed with.
Finish(r) ==
    /\ ledger[r].event = "dispatched"
    /\ ledger[r].account # None /\ ledger[r].account.status # None
    /\ Enter(r, [ledger[r] EXCEPT !.event = ledger[r].account.status])

\* purge_direct_run: the row stays.
Remove(r) ==
    /\ ledger[r].candidate # None /\ ledger[r].file # None
    /\ Enter(r, [ledger[r] EXCEPT !.file = None])

Init == ledger = [r \in Runs |-> Nothing]

Next ==
    \E r \in Runs :
        /\ ledger'[r] # ledger[r]
        /\ Dispatch(r) \/ Open(r) \/ Write(r) \/ Keep(r) \/ Observe(r) \/ Settle(r) \/ Finish(r) \/ Remove(r)

Spec == Init /\ [][Next]_ledger
=============================================================================
