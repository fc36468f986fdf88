------------------------------ MODULE PlanRuntime ------------------------------
(***************************************************************************)
(* PlanRuntime.execute (plan_runtime.py): a T0 plan is dispatched under an *)
(* authority for its digest, its candidate verified, its costs booked, its *)
(* outcome written as an event and returned.                               *)
(*                                                                         *)
(* Each store is written by a call of its own, which may fail, and the     *)
(* process may die between two of them.  MacrRuntime.invoke is one step    *)
(* here: what it may leave in the stores is what the module RuntimeInvoke  *)
(* leaves there.  The accounting tables beside it (accounting.py,          *)
(* billing_port.py) take evidence of a run from outside.                   *)
(***************************************************************************)
EXTENDS CoordinationPlans

CONSTANTS
    Hosts,       \* callers of execute
    Runs,        \* run ids, fresh with each call
    Refs,        \* authorities that may be issued
    Executable,  \* routes that resolve to an enabled provider of the exact model
    Observed,    \* what invoke may observe of a provider
    Evidence,    \* evidence digests: the table and the run they are for
    Amounts,     \* what one of them may be said to be worth
    MaxFaults    \* bound: store errors, crashes and revocations, in all

\* What the stores know of a run, and what execute returns of it.
Told == {"good", "bad", Null}
Reports == {"not_run", "passed", "failed"}
RunRecords == [plan : Plans, requested : BOOLEAN, accounted : BOOLEAN, called : BOOLEAN,
               captured : Told, cost : Nat \cup {Null}, completed : BOOLEAN,
               closing : {"verification_completed", "persistence_failed", Null}]
Outcomes == [provider : {"reported", "unknown_after_dispatch", "not_dispatched"}, captured : Told,
             report : Reports, persisted : {"complete", "failed"}, read : BOOLEAN]

ASSUME RuntimeAssumption ==
    /\ Executable \subseteq PlanRoutes
    /\ Observed \subseteq [called : BOOLEAN, answer : {"good", "bad", Null}, cost : Nat \cup {Null}]
    /\ Evidence \subseteq [table : {"bill", "entry", "reconciliation"}, run : Runs \cup {Null}, no : Nat]
    /\ MaxFaults \in Nat
    /\ Null \notin Runs \cup RunRecords \cup Outcomes

VARIABLES
    refs,      \* dispatch authorities: the plan they name, if any, and whether in force
    runs,      \* what the stores know of each run
    costs,     \* rows of plan_costs
    account,   \* has the provider's account been opened?
    books,     \* amount booked for each evidence digest
    at,        \* each host: its place in execute and what it knows
    results,   \* PlanExecutionResult of each run, once returned
    faults     \* of the bound, still to come

planVars == <<plans, refs, runs, costs, account, books, at, results, faults>>

Free == [place |-> "idle", run |-> Null, ref |-> Null, report |-> "not_run",
         persisted |-> "complete", dispatched |-> FALSE, captured |-> Null, read |-> TRUE]

PlanRuntimeInit ==
    /\ PlansInit
    /\ refs = [i \in Refs |-> Null]
    /\ runs = [r \in Runs |-> Null]
    /\ costs = {} /\ account = FALSE /\ books = [e \in Evidence |-> Null]
    /\ at = [h \in Hosts |-> Free]
    /\ results = [r \in Runs |-> Null]
    /\ faults = MaxFaults

In(h, place) == at[h].place = place
Go(h, place) == at' = [at EXCEPT ![h].place = place]
Run(h) == at[h].run
Known(h) == runs[Run(h)]

Fault == faults > 0 /\ faults' = faults - 1

----------------------------------------------------------------------------
(* Authority.                                                              *)

Names(i, p) == refs[i] # Null /\ refs[i].live /\ refs[i].plan \in {p, Null}

\* With no member digest in its scope an authority names every plan.
Authorize(i, named) ==
    /\ refs[i] = Null
    /\ refs' = [refs EXCEPT ![i] = [plan |-> named, live |-> TRUE]]
    /\ UNCHANGED <<plans, runs, costs, account, books, at, results, faults>>

Revoke(i) ==
    /\ refs[i] # Null /\ refs[i].live
    /\ refs' = [refs EXCEPT ![i].live = FALSE]
    /\ Fault
    /\ UNCHANGED <<plans, runs, costs, account, books, at, results>>

----------------------------------------------------------------------------
(* execute, up to what invoke leaves behind.                               *)

Unrun(p) == [plan |-> p, requested |-> FALSE, accounted |-> FALSE, called |-> FALSE,
             captured |-> Null, cost |-> Null, completed |-> FALSE, closing |-> Null]

\* The records of a run whose invoke came as far as a level.
Recorded(p, level, seen) ==
    [plan |-> p, requested |-> level >= 1, accounted |-> level >= 2,
     called |-> level >= 3 /\ seen.called,
     captured |-> IF level >= 4 THEN seen.answer ELSE Null,
     cost |-> IF level >= 5 THEN seen.cost ELSE Null,
     completed |-> level >= 6, closing |-> Null]

\* ExecutionProviderResolver: an enabled provider of exactly this route.
Resolves(p) == p.bound \in Executable

\* _validate_plan_task_proposal, then authorities.verify
Begin(h, r, p, i) ==
    /\ In(h, "idle") /\ runs[r] = Null
    /\ p.mode = "execution_eligible" /\ Resolves(p)
    /\ Names(i, p)
    /\ runs' = [runs EXCEPT ![r] = Unrun(p)]
    /\ at' = [at EXCEPT ![h] = [Free EXCEPT !.place = "invoke", !.run = r, !.ref = i]]
    /\ UNCHANGED <<plans, refs, costs, account, books, results, faults>>

\* An early refusal of invoke leaves no terminal event: execute raises.
InvokeRefused(h) ==
    /\ In(h, "invoke")
    /\ at' = [at EXCEPT ![h] = Free]
    /\ UNCHANGED <<plans, refs, runs, costs, account, books, results, faults>>

InvokeReturns(h, seen) ==
    /\ In(h, "invoke") /\ Names(at[h].ref, Known(h).plan)
    /\ runs' = [runs EXCEPT ![Run(h)] = Recorded(@.plan, 6, seen)]
    /\ Go(h, "terminal")
    /\ UNCHANGED <<plans, refs, costs, account, books, results, faults>>

InvokeRaises(h) ==
    /\ In(h, "invoke")
    /\ \E level \in 0..6, seen \in Observed :
        /\ level >= 1 => Names(at[h].ref, Known(h).plan)
        /\ runs' = [runs EXCEPT ![Run(h)] = Recorded(@.plan, level, seen)]
    /\ at' = [at EXCEPT ![h].place = "lookup", ![h].persisted = "failed"]
    /\ UNCHANGED <<plans, refs, costs, account, books, results, faults>>

----------------------------------------------------------------------------
(* After invoke returned: verify, book, tell.                              *)

\* The terminal event and the capture are read; only a valid candidate is verified.
ReadTerminal(h) ==
    /\ In(h, "terminal")
    /\ at' = [at EXCEPT ![h].captured = Known(h).captured,
                        ![h].place = IF Known(h).captured = "good" THEN "verify" ELSE "production"]
    /\ UNCHANGED <<plans, refs, runs, costs, account, books, results, faults>>

\* A read that fails here is not caught, and nothing more is recorded.
ReadTerminalRaises(h) ==
    /\ In(h, "terminal")
    /\ at' = [at EXCEPT ![h] = Free]
    /\ Fault
    /\ UNCHANGED <<plans, refs, runs, costs, account, books, results>>

\* An error of the verifier is a failed report.
Verify(h, report) ==
    /\ In(h, "verify")
    /\ at' = [at EXCEPT ![h].report = report, ![h].place = "production"]
    /\ UNCHANGED <<plans, refs, runs, costs, account, books, results, faults>>

Persisted_LastWins(was, ok) == IF ok THEN "complete" ELSE "failed"
\* A failure to persist stays one, whatever is written after it.
Persisted(was, ok) == IF ok THEN was ELSE "failed"

Amount_Planned(r) == runs[r].plan.cost
\* Production cost is what the invocation was observed to cost, if anything.
Amount(r) == runs[r].cost

\* record_plan_cost: one row for each idempotency key of the plan.
Book(r, class, amount) ==
    costs' = IF amount = Null \/ \E c \in costs : c.run = r /\ c.class = class THEN costs
             ELSE costs \cup {[plan |-> runs[r].plan, run |-> r, class |-> class, amount |-> amount]}

ChargeProduction(h) ==
    /\ In(h, "production")
    /\ Book(Run(h), "production", Amount(Run(h)))
    /\ Go(h, IF at[h].report = "not_run" THEN "event" ELSE "verification")
    /\ UNCHANGED <<plans, refs, runs, account, books, results, faults>>

ChargeVerification(h) ==
    /\ In(h, "verification")
    /\ Book(Run(h), "verification", 0)
    /\ Go(h, "event")
    /\ UNCHANGED <<plans, refs, runs, account, books, results, faults>>

ChargeRaises(h) ==
    /\ at[h].place \in {"production", "verification"}
    /\ at' = [at EXCEPT ![h].place = "event", ![h].persisted = Persisted(@, FALSE)]
    /\ Fault
    /\ UNCHANGED <<plans, refs, runs, costs, account, books, results>>

Return(h, provider, captured, persisted) ==
    /\ results' = [results EXCEPT ![Run(h)] =
                     [provider |-> provider, captured |-> captured, report |-> at[h].report,
                      persisted |-> persisted, read |-> at[h].read]]
    /\ at' = [at EXCEPT ![h] = Free]

\* plan.verification_completed; the result tells what became of it.
WriteEvent(h, ok) ==
    /\ In(h, "event")
    /\ runs' = IF ok THEN [runs EXCEPT ![Run(h)].closing = "verification_completed"] ELSE runs
    /\ Return(h, "reported", at[h].captured, Persisted(at[h].persisted, ok))
    /\ IF ok THEN UNCHANGED faults ELSE Fault
    /\ UNCHANGED <<plans, refs, costs, account, books>>

----------------------------------------------------------------------------
(* _persistence_failure_result, after invoke raised.                       *)

\* Events, or a capture, that cannot be read count as none.
LookUp(h, read, saw) ==
    /\ In(h, "lookup")
    /\ at' = [at EXCEPT ![h].place = "salvage", ![h].read = read,
                        ![h].dispatched = read /\ Known(h).requested,
                        ![h].captured = IF saw THEN Known(h).captured ELSE Null]
    /\ IF read /\ saw THEN UNCHANGED faults ELSE Fault
    /\ UNCHANGED <<plans, refs, runs, costs, account, books, results>>

\* Costs are booked if they can be, and the failure swallowed if not.
Salvage(h, booked) ==
    /\ In(h, "salvage")
    /\ IF booked /\ Known(h).accounted THEN Book(Run(h), "production", Amount(Run(h))) ELSE UNCHANGED costs
    /\ IF booked THEN UNCHANGED faults ELSE Fault
    /\ Go(h, "failed")
    /\ UNCHANGED <<plans, refs, runs, account, books, results>>

\* plan.persistence_failed, for a dispatched run; its own failure is swallowed.
ReportFailure(h, ok) ==
    /\ In(h, "failed")
    /\ runs' = IF ok /\ at[h].dispatched THEN [runs EXCEPT ![Run(h)].closing = "persistence_failed"] ELSE runs
    /\ Return(h, IF at[h].dispatched THEN "unknown_after_dispatch" ELSE "not_dispatched",
              at[h].captured, at[h].persisted)
    /\ IF ok THEN UNCHANGED faults ELSE Fault /\ at[h].dispatched
    /\ UNCHANGED <<plans, refs, costs, account, books>>

Crash(h) ==
    /\ ~In(h, "idle")
    /\ at' = [at EXCEPT ![h] = Free]
    /\ Fault
    /\ UNCHANGED <<plans, refs, runs, costs, account, books, results>>

----------------------------------------------------------------------------
(* Evidence from outside: accounts, bills, entries and reconciliations.    *)

OpenAccount ==
    /\ ~account /\ account' = TRUE
    /\ UNCHANGED <<plans, refs, runs, costs, books, at, results, faults>>

\* append_reconciliation alone has no account to refer to.
NeedsAccount(e) == e.table # "reconciliation"

\* Foreign keys: to the account, and to the invocation that is named.
Bookable(e) ==
    /\ NeedsAccount(e) => account
    /\ e.run # Null => runs[e.run] # Null /\ runs[e.run].accounted

\* The first amount of an evidence digest stays; another one is a conflict.
Post(e, amount) ==
    /\ Bookable(e) /\ books[e] = Null
    /\ books' = [books EXCEPT ![e] = amount]
    /\ UNCHANGED <<plans, refs, runs, costs, account, at, results, faults>>

PlanRuntimeNext ==
    \/ PlansNext /\ UNCHANGED <<refs, runs, costs, account, books, at, results, faults>>
    \/ \E i \in Refs : (\E p \in plans \cup {Null} : Authorize(i, p)) \/ Revoke(i)
    \/ \E h \in Hosts :
        \/ \E r \in Runs, p \in plans, i \in Refs : Begin(h, r, p, i)
        \/ InvokeRefused(h) \/ InvokeRaises(h)
        \/ \E seen \in Observed : InvokeReturns(h, seen)
        \/ ReadTerminal(h) \/ ReadTerminalRaises(h)
        \/ \E report \in {"passed", "failed"} : Verify(h, report)
        \/ ChargeProduction(h) \/ ChargeVerification(h) \/ ChargeRaises(h)
        \/ \E ok \in BOOLEAN : WriteEvent(h, ok) \/ Salvage(h, ok) \/ ReportFailure(h, ok)
        \/ \E read, saw \in BOOLEAN : LookUp(h, read, saw)
        \/ Crash(h)
    \/ OpenAccount
    \/ \E e \in Evidence, amount \in Amounts : Post(e, amount)

PlanRuntimeSpec == PlanRuntimeInit /\ [][PlanRuntimeNext]_planVars

----------------------------------------------------------------------------
(* Properties.                                                             *)

Row(r, class, amount) == [plan |-> runs[r].plan, run |-> r, class |-> class, amount |-> amount]

\* A result claims no more than the stores hold, whichever call failed before it:
\* "complete" means the event and every cost are there, a verified or failed report
\* has its captured candidate, and "not_dispatched" that no provider was called,
\* unless the events could not be read at all (execute, _persistence_failure_result).
ResultIsBacked ==
    \A r \in Runs : results[r] # Null =>
        LET result == results[r] IN
        /\ result.persisted = "complete" =>
            /\ runs[r].completed /\ runs[r].closing = "verification_completed"
            /\ runs[r].cost # Null => Row(r, "production", runs[r].cost) \in costs
            /\ result.report # "not_run" => Row(r, "verification", 0) \in costs
        /\ result.report # "not_run" => runs[r].captured = "good" /\ runs[r].completed
        /\ result.captured \in {runs[r].captured, Null}
        /\ result.provider = "not_dispatched" /\ result.read => ~runs[r].called
        /\ result.provider = "unknown_after_dispatch" => result.persisted = "failed"

\* What a plan is charged is what its own runs were observed to cost, once each,
\* over crashes, failed calls and revisions: the costs of a revision never carry an
\* estimate, a run of another one, or a class twice (_record_plan_costs).
ChargesMatchRuns ==
    /\ \A c \in costs :
        /\ runs[c.run].accounted /\ c.plan = runs[c.run].plan
        /\ c.amount = IF c.class = "production" THEN runs[c.run].cost ELSE 0
    /\ \A c, d \in costs : c.run = d.run /\ c.class = d.class => c = d
    /\ \A e \in Evidence : books[e] # Null /\ e.run # Null => runs[e.run].accounted
=============================================================================
