----------------------------- MODULE RuntimeStores -----------------------------
(***************************************************************************)
(* The stores a provider call goes through: dispatch authority and leases  *)
(* (authority.py, dispatch.py), the event store (event_store.py), the      *)
(* accounting database (accounting.py) and the candidate vault.            *)
(*                                                                         *)
(* Each operator is one transaction (or one step on the file system): a    *)
(* condition under which the call succeeds, or what it changes.  A call    *)
(* whose condition is false raises and changes nothing.                    *)
(***************************************************************************)
EXTENDS Integers, FiniteSets

CONSTANTS
    Runs,       \* run ids (UUIDs of the callers)
    Resources,  \* dispatch_resource_key
    MaxEpoch,   \* bound: the authority epoch
    MaxToken,   \* bound: the fencing counter
    MaxRefs,    \* bound: authorities issued
    None

ASSUME StoresAssumption ==
    /\ MaxEpoch \in Nat \ {0} /\ MaxToken \in Nat \ {0} /\ MaxRefs \in Nat \ {0}
    /\ None \notin Runs

VARIABLES
    authority,   \* authority_epoch
    refs,        \* dispatch_authorities: a reference is its index
    leases,      \* dispatch_leases
    fencing,     \* fencing_counter
    runs,        \* runs, with their dispatch and terminal events
    invocations, \* invocations
    outbox,      \* accounting_outbox
    files,       \* answer.bin of each run
    captures     \* candidate_captures

authVars == <<authority, refs>>
leaseVars == <<leases, fencing>>
accountVars == <<invocations, outbox>>
vaultVars == <<files, captures>>
storeVars == <<authVars, leaseVars, runs, accountVars, vaultVars>>

Refs == 1..MaxRefs
Answers == {"good", "bad"}  \* as the return contract will have it
Results == {"success", "failure"}
\* RawProviderObservation: whether the network was reached, the answer, and the cost.
Observations == [net : BOOLEAN, answer : Answers \cup {None}, priced : BOOLEAN]
PreNetwork == [net |-> FALSE, answer |-> None, priced |-> TRUE]
Invocations == [seen : Observations \cup {None}, status : Results \cup {None}]
Posts == [status : Results, seen : Observations]
References == [epoch : 1..MaxEpoch, live : BOOLEAN]
Leases == [run : Runs, token : 1..MaxToken, live : BOOLEAN]

ASSUME NothingAssumption ==
    /\ None \notin Answers /\ None \notin Results \cup {"dispatched", "refused", "raised"}
    /\ None \notin Observations /\ None \notin Invocations /\ None \notin Posts
    /\ None \notin References /\ None \notin Leases

\* What the tables may hold.
StoresTypeOK ==
    /\ authority \in [epoch : 1..MaxEpoch, open : BOOLEAN]
    /\ refs \in [Refs -> References \cup {None}]
    /\ leases \in [Resources -> Leases \cup {None}]
    /\ fencing \in 0..MaxToken
    /\ runs \in [Runs -> {"dispatched"} \cup Results \cup {None}]
    /\ invocations \in [Runs -> Invocations \cup {None}]
    /\ outbox \in [Runs -> Posts \cup {None}]
    /\ files \in [Runs -> Answers \cup {None}] /\ captures \in [Runs -> Answers \cup {None}]

StoresInit ==
    /\ authority = [epoch |-> 1, open |-> TRUE]
    /\ refs = [i \in Refs |-> IF i = 1 THEN [epoch |-> 1, live |-> TRUE] ELSE None]
    /\ leases = [k \in Resources |-> None]
    /\ fencing = 0
    /\ runs = [r \in Runs |-> None]
    /\ invocations = [r \in Runs |-> None]
    /\ outbox = [r \in Runs |-> None]
    /\ files = [r \in Runs |-> None]
    /\ captures = [r \in Runs |-> None]

----------------------------------------------------------------------------
(* authority.py                                                            *)

Issue(i) ==
    /\ authority.open
    /\ refs[i] = None
    /\ refs' = [refs EXCEPT ![i] = [epoch |-> authority.epoch, live |-> TRUE]]
    /\ UNCHANGED <<authority, leaseVars, runs, accountVars, vaultVars>>

AdvanceEpoch(open) ==
    /\ authority.epoch < MaxEpoch
    /\ authority' = [epoch |-> authority.epoch + 1, open |-> open]
    /\ UNCHANGED <<refs, leaseVars, runs, accountVars, vaultVars>>

\* revoke, and the end of an authority's time
Revoke(i) ==
    /\ refs[i] # None /\ refs[i].live
    /\ refs' = [refs EXCEPT ![i].live = FALSE]
    /\ UNCHANGED <<authority, leaseVars, runs, accountVars, vaultVars>>

\* verify, of a reference whose scope permits the request
InForce(i) ==
    /\ refs[i] # None /\ refs[i].live
    /\ authority.open /\ refs[i].epoch = authority.epoch

----------------------------------------------------------------------------
(* dispatch.py                                                             *)

\* Free, expired, or the run's own.
Available(k, r) == leases[k] # None => leases[k].run = r \/ ~leases[k].live
Acquire(k, r) ==
    IF leases[k] # None /\ leases[k].live
    THEN UNCHANGED leaseVars
    ELSE /\ fencing < MaxToken
         /\ fencing' = fencing + 1
         /\ leases' = [leases EXCEPT ![k] = [run |-> r, token |-> fencing + 1, live |-> TRUE]]

\* release compares run and token, and asks nothing of the expiry.
Held(k, r, token) == leases[k] # None /\ leases[k].run = r /\ leases[k].token = token
ReleaseLease(k) == leases' = [leases EXCEPT ![k] = None]

ExpireLease(k) ==
    /\ leases[k] # None /\ leases[k].live
    /\ leases' = [leases EXCEPT ![k].live = FALSE]
    /\ UNCHANGED <<authVars, fencing, runs, accountVars, vaultVars>>

\* reap_expired_for_run: an operator removes the leases of a run, all of them expired.
Reap(r) ==
    LET held == {k \in Resources : leases[k] # None /\ leases[k].run = r} IN
    /\ held # {} /\ \A k \in held : ~leases[k].live
    /\ leases' = [k \in Resources |-> IF k \in held THEN None ELSE leases[k]]
    /\ UNCHANGED <<authVars, fencing, runs, accountVars, vaultVars>>

----------------------------------------------------------------------------
(* event_store.py                                                          *)

\* (Definitions with a suffix are mutants: bugs the runs show the properties to catch.)
Startable_AfterFailure(r) == runs[r] \in {None, "failure"}
Startable(r) == runs[r] = None
StartRun(r) == runs' = [runs EXCEPT ![r] = "dispatched"]
Finishable(r) == runs[r] = "dispatched"
FinishRun(r, status) == runs' = [runs EXCEPT ![r] = status]

----------------------------------------------------------------------------
(* accounting.py                                                           *)

\* record_dispatch: the same dispatch again is returned unchanged.
RecordDispatch(r) ==
    invocations' = [invocations EXCEPT ![r] = IF @ = None THEN [seen |-> None, status |-> None] ELSE @]

\* record_observation: once, the same again, and never after the terminal state.
Observable(r, seen) ==
    /\ invocations[r] # None
    /\ invocations[r].status = None
    /\ invocations[r].seen \in {None, seen}
RecordObservation(r, seen) == invocations' = [invocations EXCEPT ![r].seen = seen]

\* record_terminal, with its row of the outbox; a known billing state needs a cost.
Closable(r, status, priced) ==
    /\ invocations[r] # None
    /\ invocations[r].status \in {None, status}
    /\ invocations[r].status = None /\ priced =>
          invocations[r].seen # None /\ invocations[r].seen.priced
RecordTerminal(r, status) ==
    /\ invocations' = [invocations EXCEPT ![r].status = status]
    /\ outbox' = [outbox EXCEPT ![r] = IF @ = None THEN [status |-> status, seen |-> invocations[r].seen] ELSE @]

----------------------------------------------------------------------------
(* candidate_vault.py                                                      *)

\* _write_once: a temporary file, linked to the name unless that has other bytes.
Writable(r, answer) == files[r] \in {None, answer}
WriteOnce(r, answer) == files' = [files EXCEPT ![r] = answer]
Capturable(r, answer) == captures[r] \in {None, answer}
Capture(r, answer) == captures' = [captures EXCEPT ![r] = answer]

\* purge_direct_run keeps the row and removes the bytes.
Purge(r) == files' = [files EXCEPT ![r] = IF captures[r] = None THEN @ ELSE None]

----------------------------------------------------------------------------

\* All of it that is about one run: see RunLedger.
Entry(r) == [event |-> runs[r], account |-> invocations[r], post |-> outbox[r],
             file |-> files[r], candidate |-> captures[r]]

\* Whoever writes here, for one run or another, fails or dies between two calls, the
\* records of a run are written in one order, each once, and never taken back but for the
\* bytes of a candidate (runtime.py, invoke; direct_runtime.py, send_message and
\* delete_conversation).
Ledger == INSTANCE RunLedger WITH Observed <- Observations, ledger <- [r \in Runs |-> Entry(r)]
RecordsInOrder == Ledger!Spec
=============================================================================
