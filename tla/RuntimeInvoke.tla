----------------------------- MODULE RuntimeInvoke -----------------------------
(***************************************************************************)
(* MacrRuntime.invoke (runtime.py): one provider call, from authority and  *)
(* lease to its events, its account and its candidate.                     *)
(*                                                                         *)
(* Every call of a store is an action, so that callers interleave between  *)
(* any two of them, and may crash or meet a database error there.  The     *)
(* admission kernel of a guarded provider appears as the state of the      *)
(* caller's own request: the kernel itself is the module ProviderAdmission.*)
(***************************************************************************)
EXTENDS RuntimeStores

CONSTANTS
    Callers,     \* threads and processes in invoke
    Resource,    \* of each run
    Guarded,     \* runs whose provider requires admission
    Pregranted,  \* those whose caller (the dispatcher) brings its permit
    Outcomes,    \* what a provider may be observed to do once it was reached
    MaxCalls,    \* bound: invocations
    MaxExpiries, \* bound: leases that run out
    MaxFaults    \* bound: crashes, errors of a store, swept permits and revocations, in all

ASSUME InvokeAssumption ==
    /\ Runs # {}
    /\ Resource \in [Runs -> Resources]
    /\ Pregranted \subseteq Guarded /\ Guarded \subseteq Runs
    /\ Outcomes \subseteq [net : {TRUE}, answer : Answers \cup {None}, priced : BOOLEAN]
    /\ MaxCalls \in Nat /\ MaxFaults \in Nat /\ MaxExpiries \in Nat

VARIABLES
    at,     \* each caller: its place in invoke and what it knows
    sent,   \* transports of each run, the provider's side
    lost,   \* runs whose lease expired, or was released by another caller, in use
    left    \* of the bounds: calls, expiries and faults to come

vars == <<storeVars, at, sent, lost, left>>

Before == {"verify", "acquire", "reverify", "giveback"}  \* outside the try block
Inside == {"admit", "start", "account", "transport", "sending", "file", "capture",
           "observe", "terminal", "finish", "close"}
After == {"settle", "release", "cleanup"}
Places == {"idle"} \cup Before \cup Inside \cup After
Ends == Results \cup {"refused", "raised"}
Permits == {"none", "granted", "dispatched", "finished", "cancelled", "unresolved"}
Callings == [place : Places, run : Runs, ref : Refs, token : Nat, permit : Permits,
             seen : Observations \cup {None}, out : Ends \cup {None}]

Init ==
    /\ StoresInit
    /\ at = [c \in Callers |-> [place |-> "idle", run |-> CHOOSE r \in Runs : TRUE, ref |-> 1,
                                token |-> 0, permit |-> "none", seen |-> None, out |-> None]]
    /\ sent = [r \in Runs |-> 0]
    /\ lost = {}
    /\ left = [calls |-> MaxCalls, expiries |-> MaxExpiries, faults |-> MaxFaults]

In(c, place) == at[c].place = place
Go(c, place) == at' = [at EXCEPT ![c].place = place]
\* The result (or the exception, which wins) that invoke ends with.
End(c, place, out) == at' = [at EXCEPT ![c].place = place, ![c].out = out]
Run(c) == at[c].run
Key(c) == Resource[at[c].run]

\* One of the faults the bound allows.
Fault == left.faults > 0 /\ left' = [left EXCEPT !.faults = @ - 1]

\* What the candidate is worth: an answer must meet its return contract.
Status(seen) == IF seen.answer = "good" THEN "success" ELSE "failure"

----------------------------------------------------------------------------
(* Before the try block: the early refusals, AdmissionGate.admit.          *)

Begin(c, r, i) ==
    /\ In(c, "idle") /\ refs[i] # None
    /\ left.calls > 0 /\ left' = [left EXCEPT !.calls = @ - 1]
    /\ at' = [at EXCEPT ![c] = [place |-> "verify", run |-> r, ref |-> i, token |-> 0, seen |-> None,
                  permit |-> IF r \in Pregranted THEN "granted" ELSE "none", out |-> None]]
    /\ UNCHANGED <<storeVars, sent, lost>>

\* Token policy, capability, approval or admission identity refuse, or verify does.
Refuse(c) ==
    /\ In(c, "verify")
    /\ End(c, "cleanup", "refused")
    /\ UNCHANGED <<storeVars, sent, lost, left>>

Verify(c) ==
    /\ In(c, "verify") /\ InForce(at[c].ref)
    /\ Go(c, "acquire")
    /\ UNCHANGED <<storeVars, sent, lost, left>>

AcquireLease(c) ==
    /\ In(c, "acquire") /\ Available(Key(c), Run(c))
    /\ Acquire(Key(c), Run(c))
    /\ at' = [at EXCEPT ![c].place = "reverify", ![c].token = leases'[Key(c)].token]
    /\ UNCHANGED <<authVars, runs, accountVars, vaultVars, sent, lost, left>>

AcquireRefused(c) ==
    /\ In(c, "acquire") /\ ~Available(Key(c), Run(c))
    /\ End(c, "cleanup", "refused")
    /\ UNCHANGED <<storeVars, sent, lost, left>>

Reverify(c) ==
    /\ In(c, "reverify")
    /\ Go(c, IF InForce(at[c].ref) THEN "admit" ELSE "giveback")
    /\ UNCHANGED <<storeVars, sent, lost, left>>

\* The runs whose use of the lease ends with this release, though they go on.
Twins(c) == {r \in {Run(c)} : \E d \in Callers \ {c} : Run(d) = r /\ at[d].place \in Inside \cup {"reverify"}}

\* admit gives the lease back; a release that raises is a refusal all the same.
GiveBack(c) ==
    /\ In(c, "giveback")
    /\ IF Held(Key(c), Run(c), at[c].token)
       THEN ReleaseLease(Key(c)) /\ lost' = lost \cup Twins(c)
       ELSE UNCHANGED <<leases, lost>>
    /\ End(c, "cleanup", "refused")
    /\ UNCHANGED <<authVars, fencing, runs, accountVars, vaultVars, sent, left>>

\* Anything but a refusal that goes wrong before the try block; a lease stays.
RaiseEarly(c) ==
    /\ at[c].place \in Before
    /\ End(c, "cleanup", "raised")
    /\ Fault
    /\ UNCHANGED <<storeVars, sent, lost>>

----------------------------------------------------------------------------
(* The try block.                                                          *)

\* A request of its own (try_admit), or the permit it was given.
AdmitProvider(c) ==
    /\ In(c, "admit")
    /\ at' = [at EXCEPT ![c].place = "start",
                        ![c].permit = IF Run(c) \in Guarded \ Pregranted THEN "granted" ELSE @]
    /\ UNCHANGED <<storeVars, sent, lost, left>>

\* start_run inserts the run, or raises: see Raise.
Start(c) ==
    /\ In(c, "start") /\ Startable(Run(c))
    /\ StartRun(Run(c))
    /\ Go(c, "account")
    /\ UNCHANGED <<authVars, leaseVars, accountVars, vaultVars, sent, lost, left>>

Account(c) ==
    /\ In(c, "account")
    /\ RecordDispatch(Run(c))
    /\ Go(c, "transport")
    /\ UNCHANGED <<authVars, leaseVars, runs, outbox, vaultVars, sent, lost, left>>

\* The provider begins its transport, with begin_transport if it is guarded.
Send(c) ==
    /\ In(c, "transport")
    /\ Run(c) \in Guarded => at[c].permit = "granted"
    /\ sent' = [sent EXCEPT ![Run(c)] = @ + 1]
    /\ at' = [at EXCEPT ![c].place = "sending",
                        ![c].permit = IF Run(c) \in Guarded THEN "dispatched" ELSE @]
    /\ UNCHANGED <<storeVars, lost, left>>

\* A bug: only what meets its contract is captured.
Returned_GoodOnly(c, seen) ==
    at' = [at EXCEPT ![c].seen = seen, ![c].place = IF seen.answer = "good" THEN "file" ELSE "observe"]
\* Where invoke goes on with an observation: the candidate is captured first.
Returned(c, seen) ==
    at' = [at EXCEPT ![c].seen = seen, ![c].place = IF seen.answer = None THEN "observe" ELSE "file"]

\* It raised before the network: no permit, no credential, a refused transport.
Unsent(c) ==
    /\ In(c, "transport")
    /\ Returned(c, PreNetwork)
    /\ UNCHANGED <<storeVars, sent, lost, left>>

Answer(c, seen) ==
    /\ In(c, "sending")
    /\ Returned(c, seen)
    /\ UNCHANGED <<storeVars, sent, lost, left>>

WriteAnswer(c) ==
    /\ In(c, "file") /\ Writable(Run(c), at[c].seen.answer)
    /\ WriteOnce(Run(c), at[c].seen.answer)
    /\ Go(c, "capture")
    /\ UNCHANGED <<authVars, leaseVars, runs, accountVars, captures, sent, lost, left>>

CaptureCandidate(c) ==
    /\ In(c, "capture") /\ Capturable(Run(c), at[c].seen.answer)
    /\ Capture(Run(c), at[c].seen.answer)
    /\ Go(c, "observe")
    /\ UNCHANGED <<authVars, leaseVars, runs, accountVars, files, sent, lost, left>>

AfterObservation_Event == "finish"
\* The account is closed before the terminal event is written.
AfterObservation == "terminal"

Observe(c) ==
    /\ In(c, "observe") /\ Observable(Run(c), at[c].seen)
    /\ RecordObservation(Run(c), at[c].seen)
    /\ Go(c, AfterObservation)
    /\ UNCHANGED <<authVars, leaseVars, runs, outbox, vaultVars, sent, lost, left>>

Terminal(c) ==
    /\ In(c, "terminal") /\ Closable(Run(c), Status(at[c].seen), at[c].seen.priced)
    /\ RecordTerminal(Run(c), Status(at[c].seen))
    /\ Go(c, "finish")
    /\ UNCHANGED <<authVars, leaseVars, runs, vaultVars, sent, lost, left>>

Finish(c) ==
    /\ In(c, "finish") /\ Finishable(Run(c))
    /\ FinishRun(Run(c), Status(at[c].seen))
    /\ Go(c, "close")
    /\ UNCHANGED <<authVars, leaseVars, accountVars, vaultVars, sent, lost, left>>

\* The state of the permit must fit what was observed.
Consistent(c) == at[c].permit \in {"granted", "cancelled", "unresolved"} => ~at[c].seen.net
Close(c) ==
    /\ In(c, "close") /\ Consistent(c)
    /\ at' = [at EXCEPT ![c].place = "release", ![c].out = Status(at[c].seen),
                        ![c].permit = CASE @ = "dispatched" -> "finished"
                                        [] @ = "granted"    -> "cancelled"
                                        [] OTHER            -> @]
    /\ UNCHANGED <<storeVars, sent, lost, left>>

\* The next call of the try block raises by itself: BUSY, or its condition is false.
Blocked(c) ==
    \/ In(c, "admit") /\ Run(c) \in Guarded \ Pregranted
    \/ In(c, "start") /\ ~Startable(Run(c))
    \/ In(c, "file") /\ ~Writable(Run(c), at[c].seen.answer)
    \/ In(c, "capture") /\ ~Capturable(Run(c), at[c].seen.answer)
    \/ In(c, "observe") /\ ~Observable(Run(c), at[c].seen)
    \/ In(c, "terminal") /\ ~Closable(Run(c), Status(at[c].seen), at[c].seen.priced)
    \/ In(c, "finish") /\ ~Finishable(Run(c))
    \/ In(c, "close") /\ ~Consistent(c)

Raise(c) ==
    /\ Blocked(c)
    /\ End(c, "settle", "raised")
    /\ UNCHANGED <<storeVars, sent, lost, left>>

\* A database or the disk fails.
Break(c) ==
    /\ at[c].place \in Inside \ {"transport", "sending"}
    /\ Fault
    /\ End(c, "settle", "raised")
    /\ UNCHANGED <<storeVars, sent, lost>>

----------------------------------------------------------------------------
(* The finally block and the outer guard.                                  *)

\* Errors of the kernel are swallowed here, and leave the permit to its TTL.
Settle(c, swallowed) ==
    /\ In(c, "settle")
    /\ at' = [at EXCEPT ![c].place = "release",
                        ![c].permit = IF swallowed THEN @
                                      ELSE CASE @ = "granted"    -> "cancelled"
                                             [] @ = "dispatched" -> "unresolved"
                                             [] OTHER            -> @]
    /\ IF swallowed THEN Fault ELSE UNCHANGED left
    /\ UNCHANGED <<storeVars, sent, lost>>

Release(c) ==
    /\ In(c, "release") /\ Held(Key(c), Run(c), at[c].token)
    /\ ReleaseLease(Key(c))
    /\ lost' = lost \cup Twins(c)
    /\ Go(c, "cleanup")
    /\ UNCHANGED <<authVars, fencing, runs, accountVars, vaultVars, sent, left>>

\* release raises in place of the result.
ReleaseRefused(c) ==
    /\ In(c, "release")
    /\ IF Held(Key(c), Run(c), at[c].token) THEN Fault ELSE UNCHANGED left
    /\ End(c, "cleanup", "raised")
    /\ UNCHANGED <<storeVars, sent, lost>>

CleansUp_OnError(c) == Run(c) \in Pregranted /\ at[c].permit = "granted" /\ at[c].out = "raised"
\* _cleanup_unused_pregrant, after a result and after an exception
CleansUp(c) == Run(c) \in Pregranted /\ at[c].permit = "granted"
Cleanup(c) ==
    /\ In(c, "cleanup")
    /\ at' = [at EXCEPT ![c].place = "idle", ![c].seen = None,
                        ![c].permit = IF CleansUp(c) THEN "cancelled" ELSE @]
    /\ UNCHANGED <<storeVars, sent, lost, left>>

\* Its own cleanup fails: the exception reaches the caller.
CleanupRaises(c) ==
    /\ In(c, "cleanup") /\ CleansUp(c)
    /\ End(c, "idle", "raised")
    /\ Fault
    /\ UNCHANGED <<storeVars, sent, lost>>

Crash(c) ==
    /\ ~In(c, "idle")
    /\ at' = [at EXCEPT ![c].place = "idle", ![c].permit = "none", ![c].out = None,
                        ![c].token = 0, ![c].seen = None]
    /\ Fault
    /\ UNCHANGED <<storeVars, sent, lost>>

----------------------------------------------------------------------------

\* Others sweep the kernel: an expired grant is cancelled, a transport unresolved.
Sweep(c) ==
    /\ at[c].permit \in {"granted", "dispatched"} /\ ~In(c, "idle")
    /\ Fault
    /\ at' = [at EXCEPT ![c].permit = IF @ = "granted" THEN "cancelled" ELSE "unresolved"]
    /\ UNCHANGED <<storeVars, sent, lost>>

Expire(k) ==
    /\ ExpireLease(k)
    /\ left.expiries > 0 /\ left' = [left EXCEPT !.expiries = @ - 1]
    /\ lost' = lost \cup {leases[k].run}
    /\ UNCHANGED <<at, sent>>

Others ==
    \/ (\E i \in Refs : Revoke(i)) /\ Fault /\ UNCHANGED <<at, sent, lost>>
    \/ (\E open \in BOOLEAN : AdvanceEpoch(open)) /\ Fault /\ UNCHANGED <<at, sent, lost>>
    \/ (\E r \in Runs : Reap(r)) /\ UNCHANGED <<at, sent, lost, left>>
    \/ \E k \in Resources : Expire(k)

Next ==
    \/ \E c \in Callers :
        \/ \E r \in Runs, i \in Refs : Begin(c, r, i)
        \/ Refuse(c) \/ Verify(c) \/ AcquireLease(c) \/ AcquireRefused(c) \/ Reverify(c) \/ GiveBack(c)
        \/ RaiseEarly(c)
        \/ AdmitProvider(c) \/ Start(c) \/ Account(c) \/ Send(c) \/ Unsent(c)
        \/ \E seen \in Outcomes : Answer(c, seen)
        \/ WriteAnswer(c) \/ CaptureCandidate(c) \/ Observe(c) \/ Terminal(c) \/ Finish(c) \/ Close(c)
        \/ Raise(c) \/ Break(c) \/ (\E swallowed \in BOOLEAN : Settle(c, swallowed))
        \/ Release(c) \/ ReleaseRefused(c) \/ Cleanup(c) \/ CleanupRaises(c) \/ Crash(c) \/ Sweep(c)
    \/ Others

Spec == Init /\ [][Next]_vars

----------------------------------------------------------------------------
(* Properties.                                                             *)

TypeOK ==
    /\ StoresTypeOK
    /\ at \in [Callers -> Callings]
    /\ sent \in [Runs -> Nat] /\ lost \subseteq Runs

\* A run is transported once: whoever retries it, and after whatever crash,
\* finds its dispatch on record and stops before the network (start_run).
OneTransport == \A r \in Runs : sent[r] <= 1

\* Two transports share a resource only if the lease of one of them ran out, or
\* was released by a second invocation of its own run (dispatch.py, runtime.py).
ExclusiveTransport ==
    \A c, d \in Callers :
        (c # d /\ In(c, "sending") /\ In(d, "sending") /\ Key(c) = Key(d))
            => Run(c) # Run(d) /\ {Run(c), Run(d)} \cap lost # {}

\* No run is silently complete: a transport has its dispatch event and account
\* row, and a terminal event its closed account, outbox row and captured answer,
\* all with one status, whichever step of invoke failed.
RecordsAgree ==
    \A r \in Runs :
        /\ sent[r] > 0 => runs[r] # None /\ invocations[r] # None
        /\ runs[r] \in Results =>
            /\ invocations[r].status = runs[r]
            /\ outbox[r] = [status |-> runs[r], seen |-> invocations[r].seen]
            /\ files[r] = invocations[r].seen.answer /\ captures[r] = invocations[r].seen.answer

\* A caller that is given a result, rather than an exception, finds it on record
\* and nothing left reserved: the permit is spent and its lease gone, or (if it was
\* refused) the permit it brought is given back (invoke, its finally block).
ReturnedMeansReleased ==
    \A c \in Callers : (In(c, "idle") /\ at[c].out \in Results \cup {"refused"}) =>
        /\ at[c].permit \notin {"granted", "dispatched"}
        /\ at[c].out \in Results => /\ runs[Run(c)] = at[c].out
                                    /\ leases[Key(c)] # None => leases[Key(c)].token # at[c].token

\* One transport at a time and one in all: whoever retries, expires or takes over.
TransportsSound == OneTransport /\ ExclusiveTransport
=============================================================================
