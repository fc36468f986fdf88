------------------------------ MODULE RuntimeProofs ------------------------------
(***************************************************************************)
(* Machine-checked proofs about what writes the stores of the runtime:     *)
(* MacrRuntime.invoke, for any number of callers, runs and resources, and   *)
(* the Direct Chat server, for any number of threads and conversations.    *)
(***************************************************************************)
EXTENDS RuntimeInvoke, DirectChat, SequenceTheorems, FiniteSetTheorems, TLAPS

(***************************************************************************)
(* The inductive invariant.                                                *)
(***************************************************************************)

\* The places at which a caller drives its run: it wrote the dispatch event, and the
\* terminal event is to come.
Mid == Inside \ {"admit", "start", "close"}

\* The account of a dispatch that nothing was observed of yet.
Open == [seen |-> None, status |-> None]

\* What is on record of the run of a driving caller, place by place.
Driving(c) ==
    LET r == Run(c)  place == at[c].place  seen == at[c].seen IN
    /\ place \in Mid => runs[r] = "dispatched"
    /\ place \in {"account", "transport"} => sent[r] = 0
    /\ place = "account" => invocations[r] = None
    /\ place \in {"transport", "sending", "file", "capture", "observe"} => invocations[r] = Open
    /\ place \in {"account", "transport", "sending", "file"} => files[r] = None
    /\ place \in {"account", "transport", "sending", "file", "capture"} => captures[r] = None
    /\ place \in Mid \ {"finish"} => outbox[r] = None
    /\ place \in {"file", "capture", "observe", "terminal", "finish", "close"} => seen \in Observations
    /\ place \in {"capture", "observe", "terminal", "finish"} => files[r] = seen.answer
    /\ place \in {"observe", "terminal", "finish"} => captures[r] = seen.answer
    /\ place = "terminal" => invocations[r] = [seen |-> seen, status |-> None]
    /\ place = "finish" => /\ invocations[r] = [seen |-> seen, status |-> Status(seen)]
                           /\ outbox[r] = [status |-> Status(seen), seen |-> seen]
    /\ place = "close" => runs[r] = Status(seen)

\* A run has one driver.
OneDriver ==
    \A c, d \in Callers : (at[c].place \in Mid /\ at[d].place \in Mid /\ Run(c) = Run(d)) => c = d

\* Before its dispatch event there is nothing of a run; after its terminal event there
\* is all; it is not transported without an account, nor twice.
Recorded(r) ==
    /\ runs[r] = None =>
        /\ invocations[r] = None /\ outbox[r] = None /\ files[r] = None /\ captures[r] = None
        /\ sent[r] = 0
    /\ sent[r] <= 1
    /\ sent[r] > 0 => invocations[r] # None
    /\ runs[r] \in Results =>
        /\ invocations[r].status = runs[r]
        /\ outbox[r] = [status |-> runs[r], seen |-> invocations[r].seen]
        /\ files[r] = invocations[r].seen.answer /\ captures[r] = invocations[r].seen.answer

\* A caller has its lease, from when it got it until it gives it back.
Leased(c) ==
    at[c].place \in Inside \cup {"reverify"} =>
        \/ Run(c) \in lost
        \/ leases[Key(c)] # None /\ leases[Key(c)].run = Run(c) /\ leases[Key(c)].live

\* Tokens were handed out by the fencing counter.
TokensPast ==
    /\ \A k \in Resources : leases[k] # None => leases[k].token <= fencing
    /\ \A c \in Callers : at[c].token <= fencing

GivenBack(c) == leases[Key(c)] # None => leases[Key(c)].token # at[c].token

\* What a caller may have as it comes to its result, and with it.
Owed(c) ==
    LET place == at[c].place  permit == at[c].permit  out == at[c].out IN
    /\ place = "settle" => out = "raised"
    /\ out = "refused" => place \in {"cleanup", "idle"}
    /\ (place \in Before \/ (place = "cleanup" /\ out = "refused")) =>
        permit # "dispatched" /\ (permit = "granted" => Run(c) \in Pregranted)
    /\ (place = "idle" /\ out = "refused") => permit \notin {"granted", "dispatched"}
    /\ out \in Results =>
        /\ place \in {"release", "cleanup", "idle"}
        /\ permit \notin {"granted", "dispatched"}
        /\ runs[Run(c)] = out
        /\ place # "release" => GivenBack(c)

InvokeInv ==
    /\ TypeOK
    /\ OneDriver
    /\ TokensPast
    /\ \A c \in Callers : Driving(c) /\ Leased(c) /\ Owed(c)
    /\ \A r \in Runs : Recorded(r)

(***************************************************************************)
(* What each kind of step keeps of it.                                     *)
(***************************************************************************)

\* A caller that moves on its own: the stores and the provider are left alone.
LEMMA CallerStep ==
    ASSUME InvokeInv, NEW c \in Callers, NEW p \in Callings, at' = [at EXCEPT ![c] = p],
           UNCHANGED <<storeVars, sent, lost>>,
           p.token <= fencing,
           p.place \in Mid => at[c].place \in Mid /\ p.run = at[c].run,
           Driving(c)', Leased(c)', Owed(c)'
    PROVE  InvokeInv'
<1>1. /\ TypeOK /\ OneDriver /\ TokensPast
      /\ \A d \in Callers : Driving(d) /\ Leased(d) /\ Owed(d)
      /\ \A r \in Runs : Recorded(r)
    BY DEF InvokeInv
<1>2. /\ UNCHANGED <<authority, refs, leases, fencing, runs, invocations, outbox, files, captures,
                     sent, lost>>
      /\ at' \in [Callers -> Callings] /\ at'[c] = p
      /\ \A d \in Callers \ {c} : at'[d] = at[d]
    BY <1>1 DEF storeVars, authVars, leaseVars, accountVars, vaultVars, TypeOK, StoresTypeOK
<1>3. TypeOK'
    BY <1>1, <1>2 DEF TypeOK, StoresTypeOK
<1>4. OneDriver'
    BY <1>1, <1>2 DEF OneDriver, Run
<1>5. TokensPast'
    BY <1>1, <1>2 DEF TokensPast
<1>6. ASSUME NEW d \in Callers \ {c} PROVE Driving(d)' /\ Leased(d)' /\ Owed(d)'
    <2>1. Driving(d)'
        BY <1>1, <1>2 DEF Driving, Run, Status
    <2>2. Leased(d)' /\ Owed(d)'
        BY <1>1, <1>2 DEF Leased, Owed, GivenBack, Run, Key
    <2>3. QED
        BY <2>1, <2>2
<1>7. \A r \in Runs : Recorded(r)'
    BY <1>1, <1>2 DEF Recorded
<1>8. QED
    BY <1>3, <1>4, <1>5, <1>6, <1>7 DEF InvokeInv

\* One that is outside the try block then, or never had a lease.
LEMMA OutsideStep ==
    ASSUME InvokeInv, NEW c \in Callers, NEW p \in Callings, at' = [at EXCEPT ![c] = p],
           UNCHANGED <<storeVars, sent, lost>>,
           p.token <= fencing, p.place \notin Inside \cup {"reverify"}, Owed(c)'
    PROVE  InvokeInv'
<1>1. at'[c] = p
    BY DEF InvokeInv, TypeOK, StoresTypeOK
<1>2. p.place \notin Mid
    BY DEF Mid
<1>3. Driving(c)' /\ Leased(c)'
    BY <1>1, <1>2 DEF Driving, Leased, Inside, Mid
<1>4. QED
    BY <1>2, <1>3, CallerStep

\* What the records of the other runs are.
OthersKept(c) ==
    \A r \in Runs \ {Run(c)} :
        /\ runs'[r] = runs[r] /\ sent'[r] = sent[r]
        /\ invocations'[r] = invocations[r] /\ outbox'[r] = outbox[r]
        /\ files'[r] = files[r] /\ captures'[r] = captures[r]

\* A driver, or one that becomes it, writes the records of its own run.
LEMMA RecordStep ==
    ASSUME InvokeInv, TypeOK', NEW c \in Callers, NEW p \in Callings, at' = [at EXCEPT ![c] = p],
           UNCHANGED <<leaseVars, lost>>,
           at[c].place \in Mid \/ (at[c].place = "start" /\ runs[Run(c)] = None),
           p.place \in Mid \cup {"close"},
           p.run = at[c].run, p.token = at[c].token, p.out = at[c].out,
           OthersKept(c), Driving(c)', Recorded(Run(c))'
    PROVE  InvokeInv'
<1>1. /\ TypeOK /\ OneDriver /\ TokensPast
      /\ \A d \in Callers : Driving(d) /\ Leased(d) /\ Owed(d)
      /\ \A r \in Runs : Recorded(r)
    BY DEF InvokeInv
<1>2. /\ leases' = leases /\ fencing' = fencing /\ lost' = lost
      /\ at'[c] = p /\ \A d \in Callers \ {c} : at'[d] = at[d]
    BY <1>1 DEF leaseVars, TypeOK, StoresTypeOK
<1>3. /\ \A d \in Callers : Run(d)' = Run(d) /\ Run(d) \in Runs
      /\ runs[Run(c)] \notin Results
    BY <1>1, <1>2, NothingAssumption DEF Run, TypeOK, StoresTypeOK, Callings, Driving, Results
<1>4. ASSUME NEW d \in Callers \ {c}, at[d].place \in Mid PROVE Run(d) # Run(c)
    <2>1. CASE at[c].place \in Mid
        BY <1>1, <1>4, <2>1 DEF OneDriver
    <2>2. CASE runs[Run(c)] = None
        BY <1>1, <1>4, <2>2, NothingAssumption DEF Driving
    <2>3. QED
        BY <2>1, <2>2
<1>5. OneDriver'
    BY <1>2, <1>3, <1>4, <1>1 DEF OneDriver
<1>6. TokensPast'
    BY <1>1, <1>2 DEF TokensPast
<1>7. ASSUME NEW d \in Callers \ {c} PROVE Driving(d)'
    <2>1. CASE at[d].place \in Mid
        <3>1. /\ Run(d) \in Runs \ {Run(c)} /\ at'[d] = at[d] /\ Run(d)' = Run(d)
            BY <1>2, <1>3, <1>4, <2>1
        <3>2. QED
            BY <1>1, <3>1 DEF Driving, OthersKept, Status
    <2>2. CASE at[d].place = "close"
        <3>1. runs[Run(d)] \in Results
            BY <1>1, <2>2 DEF Driving, Status, Results
        <3>2. QED
            BY <1>1, <1>2, <1>3, <2>2, <3>1 DEF Driving, OthersKept, Status, Mid
    <2>3. CASE at[d].place \notin Mid \cup {"close"}
        BY <1>2, <2>3 DEF Driving, Mid, Inside
    <2>4. QED
        BY <2>1, <2>2, <2>3
<1>8. ASSUME NEW d \in Callers PROVE Leased(d)'
    <2>1. CASE d = c
        <3>1. at[c].place \in Inside
            BY DEF Mid, Inside
        <3>2. QED
            BY <1>1, <1>2, <1>3, <2>1, <3>1 DEF Leased, Key, Run
    <2>2. CASE d # c
        BY <1>1, <1>2, <2>2 DEF Leased, Key, Run
    <2>3. QED
        BY <2>1, <2>2
<1>9. ASSUME NEW d \in Callers PROVE Owed(d)'
    <2>1. CASE d = c
        <3>1. p.out \notin Results /\ p.out # "refused"
            BY <1>1 DEF Owed, Mid, Inside
        <3>2. p.place \notin Before \cup {"settle", "cleanup", "idle"}
            BY DEF Mid, Inside, Before
        <3>3. QED
            BY <1>2, <2>1, <3>1, <3>2 DEF Owed
    <2>2. CASE d # c
        <3>1. at'[d] = at[d] /\ Run(d)' = Run(d) /\ GivenBack(d)' = GivenBack(d)
            BY <1>2, <1>3, <2>2 DEF GivenBack, Key, Run
        <3>2. at[d].out \in Results => runs'[Run(d)] = runs[Run(d)]
            BY <1>1, <1>3 DEF Owed, OthersKept
        <3>3. QED
            BY <1>1, <3>1, <3>2 DEF Owed
    <2>3. QED
        BY <2>1, <2>2
<1>10. ASSUME NEW r \in Runs PROVE Recorded(r)'
    <2>1. CASE r = Run(c)
        BY <1>3, <2>1
    <2>2. CASE r # Run(c)
        BY <1>1, <2>2 DEF Recorded, OthersKept
    <2>3. QED
        BY <2>1, <2>2
<1>11. QED
    BY <1>5, <1>6, <1>7, <1>8, <1>9, <1>10 DEF InvokeInv

\* Leases change, and the caller they change for is at no place where it drives a run.
LEMMA LeaseStep ==
    ASSUME InvokeInv, TypeOK', TokensPast',
           UNCHANGED <<runs, accountVars, vaultVars, sent>>,
           \A d \in Callers : at'[d] = at[d] \/ at'[d].place \in {"reverify", "cleanup"},
           \A d \in Callers : Leased(d)' /\ Owed(d)'
    PROVE  InvokeInv'
<1>1. /\ OneDriver /\ (\A d \in Callers : Driving(d)) /\ \A r \in Runs : Recorded(r)
    BY DEF InvokeInv
<1>2. UNCHANGED <<runs, invocations, outbox, files, captures, sent>>
    BY DEF accountVars, vaultVars
<1>3. OneDriver'
    BY <1>1 DEF OneDriver, Run, Mid, Inside
<1>4. ASSUME NEW d \in Callers PROVE Driving(d)'
    <2>1. CASE at'[d] = at[d]
        BY <1>1, <1>2, <2>1 DEF Driving, Run, Status
    <2>2. CASE at'[d].place \in {"reverify", "cleanup"}
        BY <2>2 DEF Driving, Mid, Inside
    <2>3. QED
        BY <2>1, <2>2
<1>5. \A r \in Runs : Recorded(r)'
    BY <1>1, <1>2 DEF Recorded
<1>6. QED
    BY <1>3, <1>4, <1>5 DEF InvokeInv

\* Leases that are left keep their token; new ones have a token nobody has.
TokensMove ==
    \A k \in Resources : leases'[k] # None =>
        (leases[k] # None /\ leases'[k].token = leases[k].token) \/ leases'[k].token > fencing

\* So what a caller gave back stays gone.
LEMMA OwedLater ==
    ASSUME InvokeInv, TokensMove, runs' = runs, NEW d \in Callers, at'[d] = at[d]
    PROVE  Owed(d)'
<1>1. Owed(d) /\ at[d].token <= fencing /\ Key(d) \in Resources /\ at[d].token \in Nat
      /\ fencing \in Nat
    BY StoresAssumption, InvokeAssumption DEF InvokeInv, TokensPast, TypeOK, StoresTypeOK, Callings, Key
<1>2. GivenBack(d) => GivenBack(d)'
    <2>1. Key(d)' = Key(d)
        BY DEF Key
    <2>2. ASSUME leases'[Key(d)] # None, leases'[Key(d)].token = at[d].token
          PROVE  leases[Key(d)] # None /\ leases[Key(d)].token = at[d].token
        BY <1>1, <2>2 DEF TokensMove
    <2>3. QED
        BY <2>1, <2>2 DEF GivenBack
<1>3. QED
    BY <1>1, <1>2 DEF Owed, Run

(***************************************************************************)
(* The steps of a caller, outside the records and the leases.              *)
(***************************************************************************)

\* What a caller is, and that a move of it is a new record for it.
LEMMA CallerIs ==
    ASSUME TypeOK, NEW c \in Callers
    PROVE  /\ at[c] \in Callings /\ Run(c) \in Runs /\ Key(c) \in Resources /\ at[c].token \in Nat
           /\ \A place : Go(c, place) => at' = [at EXCEPT ![c] = [at[c] EXCEPT !.place = place]]
BY InvokeAssumption DEF TypeOK, StoresTypeOK, Callings, Run, Key, Go

\* The early refusals and errors.
LEMMA EarlyStep ==
    ASSUME InvokeInv, NEW c \in Callers,
           Refuse(c) \/ Verify(c) \/ AcquireRefused(c) \/ RaiseEarly(c)
    PROVE  InvokeInv'
<1>1. /\ TypeOK /\ at[c] \in Callings /\ at[c].token <= fencing /\ Owed(c)
      /\ at[c].place \in Before /\ UNCHANGED <<storeVars, sent, lost>>
    BY CallerIs DEF InvokeInv, TokensPast, Refuse, Verify, AcquireRefused, RaiseEarly, In, Before
<1>2. CASE Verify(c)
    <2> DEFINE p == [at[c] EXCEPT !.place = "acquire"]
    <2>1. p \in Callings /\ p.token = at[c].token /\ p.place = "acquire" /\ p.out = at[c].out
          /\ p.permit = at[c].permit /\ p.run = at[c].run
        BY <1>1 DEF Callings, Places, Before
    <2>2. at' = [at EXCEPT ![c] = p]
        BY <1>1, <1>2, CallerIs DEF Verify
    <2> HIDE DEF p
    <2>3. at'[c] = p
        BY <1>1, <2>2 DEF TypeOK, StoresTypeOK
    <2>4. Owed(c)'
        BY <1>1, <2>1, <2>3 DEF Owed, Before, Run
    <2>5. QED
        BY <1>1, <2>1, <2>2, <2>4, OutsideStep DEF Inside
<1>3. ASSUME NEW out \in {"refused", "raised"}, End(c, "cleanup", out)
      PROVE  InvokeInv'
    <2> DEFINE p == [at[c] EXCEPT !.place = "cleanup", !.out = out]
    <2>1. p \in Callings /\ p.token = at[c].token /\ p.place = "cleanup" /\ p.out = out
          /\ p.permit = at[c].permit /\ p.run = at[c].run
        BY <1>1 DEF Callings, Places, After, Ends
    <2>2. at' = [at EXCEPT ![c] = p]
        BY <1>1, <1>3 DEF End, TypeOK, StoresTypeOK, Callings
    <2> HIDE DEF p
    <2>3. at'[c] = p
        BY <1>1, <2>2 DEF TypeOK, StoresTypeOK
    <2>4. Owed(c)'
        BY <1>1, <2>1, <2>3 DEF Owed, Before, Run, Results
    <2>5. QED
        BY <1>1, <2>1, <2>2, <2>4, OutsideStep DEF Inside
<1>4. QED
    BY <1>2, <1>3 DEF Refuse, AcquireRefused, RaiseEarly

\* An invocation begins with the permit the dispatcher brings, if any.
LEMMA BeginStep ==
    ASSUME InvokeInv, NEW c \in Callers, NEW r \in Runs, NEW i \in Refs, Begin(c, r, i)
    PROVE  InvokeInv'
<1> DEFINE p == [place |-> "verify", run |-> r, ref |-> i, token |-> 0, seen |-> None,
                 permit |-> IF r \in Pregranted THEN "granted" ELSE "none", out |-> None]
<1>1. TypeOK /\ at' = [at EXCEPT ![c] = p] /\ UNCHANGED <<storeVars, sent, lost>>
    BY DEF InvokeInv, Begin
<1>2. /\ p \in Callings /\ p.token = 0 /\ p.place = "verify" /\ p.out = None
      /\ p.run = r /\ p.permit \in {"granted", "none"} /\ (p.permit = "granted" => r \in Pregranted)
    BY DEF Callings, Places, Before, Permits
<1> HIDE DEF p
<1>3. at'[c] = p
    BY <1>1 DEF TypeOK, StoresTypeOK
<1>4. Owed(c)'
    BY <1>2, <1>3, NothingAssumption DEF Owed, Run, Results
<1>5. p.token <= fencing
    BY <1>1, <1>2, StoresAssumption DEF TypeOK, StoresTypeOK
<1>6. QED
    BY <1>1, <1>2, <1>4, <1>5, OutsideStep DEF Inside

\* The second look at the authority, and the request for a permit.
LEMMA AdmitStep ==
    ASSUME InvokeInv, NEW c \in Callers, Reverify(c) \/ AdmitProvider(c)
    PROVE  InvokeInv'
<1> DEFINE place == IF AdmitProvider(c) THEN "start"
                    ELSE IF InForce(at[c].ref) THEN "admit" ELSE "giveback"
           permit == IF AdmitProvider(c) /\ Run(c) \in Guarded \ Pregranted
                     THEN "granted" ELSE at[c].permit
           p == [at[c] EXCEPT !.place = place, !.permit = permit]
<1>1. /\ TypeOK /\ at[c] \in Callings /\ at[c].token <= fencing /\ Owed(c) /\ Leased(c)
      /\ at[c].place \in {"reverify", "admit"} /\ UNCHANGED <<storeVars, sent, lost>>
      /\ UNCHANGED leases
    BY CallerIs DEF InvokeInv, TokensPast, Reverify, AdmitProvider, In, storeVars, leaseVars
<1>2. at' = [at EXCEPT ![c] = p]
    <2>1. CASE AdmitProvider(c)
        BY <1>1, <2>1 DEF AdmitProvider, TypeOK, StoresTypeOK, Callings, Run
    <2>2. CASE ~AdmitProvider(c)
        <3>1. at' = [at EXCEPT ![c] = [at[c] EXCEPT !.place = place]]
            BY <1>1, <2>2, CallerIs DEF Reverify
        <3>2. [at[c] EXCEPT !.place = place] = p
            BY <1>1, <2>2 DEF Callings
        <3>3. QED
            BY <3>1, <3>2
    <2>3. QED
        BY <2>1, <2>2
<1>3. /\ place \in {"start", "admit", "giveback"} /\ permit \in Permits
      /\ place = "giveback" => at[c].place = "reverify" /\ permit = at[c].permit
    BY <1>1 DEF AdmitProvider, In, Callings, Permits, Reverify
<1> HIDE DEF place, permit
<1>4. /\ p \in Callings /\ p.token = at[c].token /\ p.place = place /\ p.out = at[c].out
      /\ p.permit = permit /\ p.run = at[c].run
    BY <1>1, <1>3 DEF Callings, Places, Before, Inside
<1> HIDE DEF p
<1>5. at'[c] = p
    BY <1>1, <1>2 DEF TypeOK, StoresTypeOK
<1>6. Owed(c)'
    BY <1>1, <1>3, <1>4, <1>5 DEF Owed, Before, Run
<1>7. Leased(c)'
    BY <1>1, <1>4, <1>5 DEF Leased, Run, Key, Inside
<1>8. Driving(c)' /\ p.place \notin Mid
    BY <1>3, <1>4, <1>5 DEF Driving, Mid, Inside
<1>9. QED
    BY <1>1, <1>2, <1>4, <1>6, <1>7, <1>8, CallerStep

\* What came back of the provider, if it was reached.
LEMMA AnswerStep ==
    ASSUME InvokeInv, NEW c \in Callers, NEW seen \in Observations,
           \/ In(c, "transport") /\ seen.answer = None
           \/ In(c, "sending"),
           Returned(c, seen), UNCHANGED <<storeVars, sent, lost>>
    PROVE  InvokeInv'
<1> DEFINE place == IF seen.answer = None THEN "observe" ELSE "file"
           p == [at[c] EXCEPT !.seen = seen, !.place = place]
<1>1. /\ TypeOK /\ at[c] \in Callings /\ at[c].token <= fencing
      /\ Owed(c) /\ Leased(c) /\ Driving(c)
      /\ at[c].place \in {"transport", "sending"} /\ at[c].place \in Mid
    BY CallerIs DEF InvokeInv, TokensPast, In, Mid, Inside
<1>2. at' = [at EXCEPT ![c] = p]
    BY <1>1 DEF Returned, TypeOK, StoresTypeOK, Callings
<1>3. place \in {"observe", "file"} /\ (place = "observe" => seen.answer = None)
    OBVIOUS
<1> HIDE DEF place
<1>4. /\ p \in Callings /\ p.token = at[c].token /\ p.place = place /\ p.out = at[c].out
      /\ p.permit = at[c].permit /\ p.run = at[c].run /\ p.seen = seen
    BY <1>1, <1>3 DEF Callings, Places, Inside
<1> HIDE DEF p
<1>5. at'[c] = p
    BY <1>1, <1>2 DEF TypeOK, StoresTypeOK
<1>6. Owed(c)'
    BY <1>1, <1>3, <1>4, <1>5 DEF Owed, Before, Run
<1>7. UNCHANGED <<runs, invocations, outbox, files, captures, leases>> /\ Run(c)' = Run(c)
    BY <1>4, <1>5 DEF storeVars, leaseVars, accountVars, vaultVars, Run
<1>8. Leased(c)'
    BY <1>1, <1>4, <1>5, <1>7 DEF Leased, Run, Key, Inside
<1>9. Driving(c)'
    BY <1>1, <1>3, <1>4, <1>5, <1>7 DEF Driving, Mid, Inside
<1>10. QED
    BY <1>1, <1>2, <1>4, <1>6, <1>8, <1>9, CallerStep

\* The end of the try block: the permit is closed with the observation, or left to the
\* finally block.
LEMMA CloseStep ==
    ASSUME InvokeInv, NEW c \in Callers, Close(c) \/ Raise(c) \/ Break(c)
    PROVE  InvokeInv'
<1>1. /\ TypeOK /\ at[c] \in Callings /\ at[c].token <= fencing /\ Owed(c) /\ Driving(c)
      /\ UNCHANGED <<storeVars, sent, lost>> /\ UNCHANGED runs
    BY CallerIs DEF InvokeInv, TokensPast, Close, Raise, Break, storeVars
<1>2. CASE Close(c)
    <2> DEFINE permit == CASE at[c].permit = "dispatched" -> "finished"
                           [] at[c].permit = "granted"    -> "cancelled"
                           [] OTHER                       -> at[c].permit
               p == [at[c] EXCEPT !.place = "release", !.out = Status(at[c].seen),
                                  !.permit = permit]
    <2>1. at' = [at EXCEPT ![c] = p]
        BY <1>1, <1>2 DEF Close, TypeOK, StoresTypeOK, Callings
    <2>2. permit \in Permits \ {"granted", "dispatched"}
        BY <1>1 DEF Callings, Permits
    <2>3. Status(at[c].seen) \in Results
        BY DEF Status, Results
    <2> HIDE DEF permit
    <2>4. /\ p \in Callings /\ p.token = at[c].token /\ p.place = "release"
          /\ p.out = Status(at[c].seen) /\ p.permit = permit /\ p.run = at[c].run
        BY <1>1, <2>2, <2>3 DEF Callings, Places, After, Ends
    <2> HIDE DEF p
    <2>5. at'[c] = p /\ Run(c)' = Run(c)
        BY <1>1, <2>1, <2>4 DEF TypeOK, StoresTypeOK, Run
    <2>6. runs[Run(c)] = Status(at[c].seen)
        BY <1>1, <1>2 DEF Close, In, Driving
    <2>7. Owed(c)'
        BY <1>1, <2>2, <2>3, <2>4, <2>5, <2>6 DEF Owed, Before, Results
    <2>8. QED
        BY <1>1, <2>1, <2>4, <2>7, OutsideStep DEF Inside
<1>3. CASE Raise(c) \/ Break(c)
    <2> DEFINE p == [at[c] EXCEPT !.place = "settle", !.out = "raised"]
    <2>1. at' = [at EXCEPT ![c] = p]
        BY <1>1, <1>3 DEF Raise, Break, End, TypeOK, StoresTypeOK, Callings
    <2>2. p \in Callings /\ p.token = at[c].token /\ p.place = "settle" /\ p.out = "raised"
        BY <1>1 DEF Callings, Places, After, Ends
    <2> HIDE DEF p
    <2>3. at'[c] = p
        BY <1>1, <2>1 DEF TypeOK, StoresTypeOK
    <2>4. Owed(c)'
        BY <2>2, <2>3 DEF Owed, Before, Results
    <2>5. QED
        BY <1>1, <2>1, <2>2, <2>4, OutsideStep DEF Inside
<1>4. QED
    BY <1>2, <1>3

\* The finally block and the outer guard, but for the release of the lease.
LEMMA FinalStep ==
    ASSUME InvokeInv, NEW c \in Callers,
           \/ \E swallowed \in BOOLEAN : Settle(c, swallowed)
           \/ ReleaseRefused(c) \/ Cleanup(c) \/ CleanupRaises(c)
    PROVE  InvokeInv'
<1>1. /\ TypeOK /\ at[c] \in Callings /\ at[c].token <= fencing /\ Owed(c)
      /\ UNCHANGED <<storeVars, sent, lost>> /\ UNCHANGED <<runs, leases>>
    BY CallerIs
       DEF InvokeInv, TokensPast, Settle, ReleaseRefused, Cleanup, CleanupRaises, storeVars, leaseVars
<1>2. ASSUME NEW swallowed \in BOOLEAN, Settle(c, swallowed) PROVE InvokeInv'
    <2> DEFINE permit == IF swallowed THEN at[c].permit
                         ELSE CASE at[c].permit = "granted"    -> "cancelled"
                                [] at[c].permit = "dispatched" -> "unresolved"
                                [] OTHER                       -> at[c].permit
               p == [at[c] EXCEPT !.place = "release", !.permit = permit]
    <2>1. permit \in Permits
        BY <1>1 DEF Callings, Permits
    <2>2. at' = [at EXCEPT ![c] = p]
        <3>1. CASE swallowed = TRUE
            BY <1>1, <1>2, <3>1 DEF Settle, TypeOK, StoresTypeOK, Callings
        <3>2. CASE swallowed = FALSE
            BY <1>1, <1>2, <3>2 DEF Settle, TypeOK, StoresTypeOK, Callings
        <3>3. QED
            BY <3>1, <3>2
    <2> HIDE DEF permit
    <2>3. /\ p \in Callings /\ p.token = at[c].token /\ p.place = "release" /\ p.out = at[c].out
          /\ at[c].out = "raised"
        BY <1>1, <1>2, <2>1 DEF Callings, Places, After, Settle, In, Owed
    <2> HIDE DEF p
    <2>4. at'[c] = p
        BY <1>1, <2>2 DEF TypeOK, StoresTypeOK
    <2>5. Owed(c)'
        BY <2>3, <2>4 DEF Owed, Before, Results
    <2>6. QED
        BY <1>1, <2>2, <2>3, <2>5, OutsideStep DEF Inside
<1>3. ASSUME NEW place \in {"cleanup", "idle"}, End(c, place, "raised") PROVE InvokeInv'
    <2> DEFINE p == [at[c] EXCEPT !.place = place, !.out = "raised"]
    <2>1. p \in Callings /\ p.token = at[c].token /\ p.place = place /\ p.out = "raised"
        BY <1>1 DEF Callings, Places, After, Ends
    <2>2. at' = [at EXCEPT ![c] = p]
        BY <1>1, <1>3 DEF End, TypeOK, StoresTypeOK, Callings
    <2> HIDE DEF p
    <2>3. at'[c] = p
        BY <1>1, <2>2 DEF TypeOK, StoresTypeOK
    <2>4. Owed(c)'
        BY <2>1, <2>3 DEF Owed, Before, Results
    <2>5. QED
        BY <1>1, <2>1, <2>2, <2>4, OutsideStep DEF Inside
<1>4. CASE Cleanup(c)
    <2> DEFINE permit == IF CleansUp(c) THEN "cancelled" ELSE at[c].permit
               p == [at[c] EXCEPT !.place = "idle", !.seen = None, !.permit = permit]
    <2>1. permit \in Permits /\ (at[c].permit # "granted" => permit = at[c].permit)
          /\ (at[c].permit = "granted" /\ Run(c) \in Pregranted => permit = "cancelled")
        BY <1>1 DEF Callings, Permits, CleansUp
    <2>2. at' = [at EXCEPT ![c] = p]
        BY <1>1, <1>4 DEF Cleanup, TypeOK, StoresTypeOK, Callings
    <2> HIDE DEF permit
    <2>3. /\ p \in Callings /\ p.token = at[c].token /\ p.place = "idle" /\ p.out = at[c].out
          /\ p.run = at[c].run /\ p.permit = permit
        BY <1>1, <2>1 DEF Callings, Places
    <2> HIDE DEF p
    <2>4. at'[c] = p /\ Run(c)' = Run(c)
        BY <1>1, <2>2, <2>3 DEF TypeOK, StoresTypeOK, Run
    <2>5. GivenBack(c) => GivenBack(c)'
        BY <1>1, <2>3, <2>4 DEF GivenBack, Key, Run
    <2>6. at[c].place = "cleanup"
        BY <1>4 DEF Cleanup, In
    <2>7. p.out \in Results => GivenBack(c)
        BY <1>1, <2>3, <2>6 DEF Owed
    <2>8. p.out \in Results => permit \notin {"granted", "dispatched"} /\ runs[Run(c)] = p.out
        BY <1>1, <2>1, <2>3, <2>6 DEF Owed
    <2>9. p.out = "refused" => permit \notin {"granted", "dispatched"}
        BY <1>1, <2>1, <2>3, <2>6 DEF Owed
    <2>10. Owed(c)'
        BY <1>1, <2>3, <2>4, <2>5, <2>7, <2>8, <2>9 DEF Owed, Before, Results
    <2>11. QED
        BY <1>1, <2>2, <2>3, <2>10, OutsideStep DEF Inside
<1>5. QED
    BY <1>2, <1>3, <1>4 DEF ReleaseRefused, CleanupRaises

\* A caller crashes, or a sweep of the kernel takes its permit.
LEMMA FaultStep ==
    ASSUME InvokeInv, NEW c \in Callers, Crash(c) \/ Sweep(c)
    PROVE  InvokeInv'
<1>1. /\ TypeOK /\ at[c] \in Callings /\ at[c].token <= fencing /\ Owed(c) /\ Leased(c) /\ Driving(c)
      /\ fencing \in Nat /\ UNCHANGED <<storeVars, sent, lost>>
      /\ UNCHANGED <<runs, leases, invocations, outbox, files, captures>>
    BY CallerIs, StoresAssumption
       DEF InvokeInv, TypeOK, StoresTypeOK, TokensPast, Crash, Sweep, storeVars, leaseVars, accountVars, vaultVars
<1>2. CASE Crash(c)
    <2> DEFINE p == [at[c] EXCEPT !.place = "idle", !.permit = "none", !.out = None,
                                  !.token = 0, !.seen = None]
    <2>1. at' = [at EXCEPT ![c] = p]
        BY <1>1, <1>2 DEF Crash, TypeOK, StoresTypeOK, Callings
    <2>2. p \in Callings /\ p.token = 0 /\ p.place = "idle" /\ p.out = None
        BY <1>1 DEF Callings, Places, Permits
    <2> HIDE DEF p
    <2>3. at'[c] = p
        BY <1>1, <2>1 DEF TypeOK, StoresTypeOK
    <2>4. Owed(c)'
        BY <2>2, <2>3, NothingAssumption DEF Owed, Before, Results
    <2>5. p.token <= fencing
        BY <1>1, <2>2
    <2>6. QED
        BY <1>1, <2>1, <2>2, <2>4, <2>5, OutsideStep DEF Inside
<1>3. CASE Sweep(c)
    <2> DEFINE permit == IF at[c].permit = "granted" THEN "cancelled" ELSE "unresolved"
               p == [at[c] EXCEPT !.permit = permit]
    <2>1. at' = [at EXCEPT ![c] = p]
        BY <1>1, <1>3 DEF Sweep, TypeOK, StoresTypeOK, Callings
    <2>2. permit \in {"cancelled", "unresolved"} /\ at[c].permit \in {"granted", "dispatched"}
          /\ at[c].place # "idle"
        BY <1>3 DEF Sweep, In
    <2> HIDE DEF permit
    <2>3. /\ p \in Callings /\ p.token = at[c].token /\ p.place = at[c].place /\ p.out = at[c].out
          /\ p.run = at[c].run /\ p.permit = permit /\ p.seen = at[c].seen
        BY <1>1, <2>2 DEF Callings, Permits
    <2> HIDE DEF p
    <2>4. at'[c] = p /\ Run(c)' = Run(c) /\ sent' = sent
        BY <1>1, <2>1, <2>3 DEF TypeOK, StoresTypeOK, Run
    <2>5. Owed(c)'
        BY <1>1, <2>2, <2>3, <2>4 DEF Owed
    <2>6. Leased(c)'
        BY <1>1, <2>3, <2>4 DEF Leased, Key, Run
    <2>7. Driving(c)'
        BY <1>1, <2>3, <2>4 DEF Driving, Status
    <2>8. QED
        BY <1>1, <2>1, <2>3, <2>5, <2>6, <2>7, CallerStep
<1>4. QED
    BY <1>2, <1>3

(***************************************************************************)
(* The steps that write a record.                                          *)
(***************************************************************************)

\* Go changes the place of a caller and nothing else.
LEMMA GoesOn ==
    ASSUME TypeOK, NEW c \in Callers, NEW place \in Places, Go(c, place)
    PROVE  \E p \in Callings :
              /\ at' = [at EXCEPT ![c] = p] /\ at'[c] = p
              /\ p.place = place /\ p.run = at[c].run /\ p.token = at[c].token
              /\ p.permit = at[c].permit /\ p.seen = at[c].seen /\ p.out = at[c].out
<1> DEFINE p == [at[c] EXCEPT !.place = place]
<1>1. at[c] \in Callings /\ at' = [at EXCEPT ![c] = p]
    BY CallerIs
<1>2. /\ p \in Callings /\ p.place = place /\ p.run = at[c].run /\ p.token = at[c].token
      /\ p.permit = at[c].permit /\ p.seen = at[c].seen /\ p.out = at[c].out
    BY <1>1 DEF Callings
<1> HIDE DEF p
<1>3. at'[c] = p
    BY <1>1 DEF TypeOK, StoresTypeOK
<1>4. QED
    BY <1>1, <1>2, <1>3

\* The dispatch event of a run that has none.
LEMMA StartStep ==
    ASSUME InvokeInv, NEW c \in Callers, Start(c) PROVE InvokeInv'
<1>1. /\ TypeOK /\ Run(c) \in Runs /\ Recorded(Run(c)) /\ at[c].place = "start"
      /\ runs[Run(c)] = None
      /\ runs' = [runs EXCEPT ![Run(c)] = "dispatched"] /\ Go(c, "account")
      /\ UNCHANGED <<authority, refs, leases, fencing, invocations, outbox, files, captures, sent, lost>>
    BY CallerIs
       DEF InvokeInv, Start, In, StartRun, Startable, authVars, leaseVars, accountVars, vaultVars
<1>2. PICK p \in Callings :
          /\ at' = [at EXCEPT ![c] = p] /\ at'[c] = p
          /\ p.place = "account" /\ p.run = at[c].run /\ p.token = at[c].token
          /\ p.permit = at[c].permit /\ p.seen = at[c].seen /\ p.out = at[c].out
    <2>1. "account" \in Places
        BY DEF Places, Inside
    <2>2. QED
        BY <1>1, <2>1, GoesOn
<1>3. Run(c)' = Run(c) /\ runs'[Run(c)] = "dispatched"
    BY <1>1, <1>2 DEF Run, TypeOK, StoresTypeOK
<1>4. Driving(c)'
    BY <1>1, <1>2, <1>3 DEF Driving, Recorded, Mid, Inside
<1>5. Recorded(Run(c))'
    BY <1>1, <1>3, NothingAssumption DEF Recorded, Results
<1>6. TypeOK' /\ OthersKept(c)
    BY <1>1, <1>2 DEF TypeOK, StoresTypeOK, OthersKept
<1>7. p.place \in Mid \cup {"close"} /\ UNCHANGED <<leaseVars, lost>>
    BY <1>1, <1>2 DEF Mid, Inside, leaseVars
<1>8. QED
    BY <1>1, <1>2, <1>4, <1>5, <1>6, <1>7, RecordStep

\* Its account.
LEMMA AccountStep ==
    ASSUME InvokeInv, NEW c \in Callers, Account(c) PROVE InvokeInv'
<1>1. /\ TypeOK /\ Run(c) \in Runs /\ Recorded(Run(c)) /\ Driving(c) /\ at[c].place = "account"
      /\ RecordDispatch(Run(c)) /\ Go(c, "transport")
      /\ UNCHANGED <<authority, refs, leases, fencing, runs, outbox, files, captures, sent, lost>>
    BY CallerIs DEF InvokeInv, Account, In, authVars, leaseVars, vaultVars
<1>2. PICK p \in Callings :
          /\ at' = [at EXCEPT ![c] = p] /\ at'[c] = p
          /\ p.place = "transport" /\ p.run = at[c].run /\ p.token = at[c].token
          /\ p.permit = at[c].permit /\ p.seen = at[c].seen /\ p.out = at[c].out
    <2>1. "transport" \in Places
        BY DEF Places, Inside
    <2>2. QED
        BY <1>1, <2>1, GoesOn
<1>3. /\ invocations' = [invocations EXCEPT ![Run(c)] = Open]
      /\ Open \in Invocations /\ Open # None /\ Run(c)' = Run(c)
    <2>1. invocations[Run(c)] = None
        BY <1>1 DEF Driving
    <2>2. QED
        BY <1>1, <1>2, <2>1, NothingAssumption DEF RecordDispatch, Open, Invocations, Run, TypeOK, StoresTypeOK
<1>4. invocations'[Run(c)] = Open /\ at[c].place \in Mid /\ runs[Run(c)] = "dispatched"
    BY <1>1, <1>3 DEF TypeOK, StoresTypeOK, Mid, Inside, Driving
<1>5. Driving(c)'
    BY <1>1, <1>2, <1>3, <1>4 DEF Driving, Mid, Inside
<1>6. Recorded(Run(c))'
    BY <1>1, <1>3, <1>4, NothingAssumption DEF Recorded, Results
<1>7. TypeOK' /\ OthersKept(c)
    BY <1>1, <1>2, <1>3 DEF TypeOK, StoresTypeOK, OthersKept
<1>8. p.place \in Mid \cup {"close"} /\ UNCHANGED <<leaseVars, lost>>
    BY <1>1, <1>2 DEF Mid, Inside, leaseVars
<1>9. QED
    BY <1>2, <1>4, <1>5, <1>6, <1>7, <1>8, RecordStep

\* The transport.
LEMMA SendStep ==
    ASSUME InvokeInv, NEW c \in Callers, Send(c) PROVE InvokeInv'
<1> DEFINE permit == IF Run(c) \in Guarded THEN "dispatched" ELSE at[c].permit
           p == [at[c] EXCEPT !.place = "sending", !.permit = permit]
<1>1. /\ TypeOK /\ Run(c) \in Runs /\ Recorded(Run(c)) /\ Driving(c) /\ at[c].place = "transport"
      /\ at[c] \in Callings /\ at[c].place \in Mid
      /\ sent' = [sent EXCEPT ![Run(c)] = sent[Run(c)] + 1]
      /\ UNCHANGED <<authority, refs, leases, fencing, runs, invocations, outbox, files, captures, lost>>
    BY CallerIs
       DEF InvokeInv, Send, In, storeVars, authVars, leaseVars, accountVars, vaultVars, Mid, Inside
<1>2. permit \in Permits /\ at' = [at EXCEPT ![c] = p]
    BY <1>1 DEF Send, TypeOK, StoresTypeOK, Callings, Run, Permits
<1> HIDE DEF permit
<1>3. /\ p \in Callings /\ p.place = "sending" /\ p.run = at[c].run /\ p.token = at[c].token
      /\ p.out = at[c].out
    BY <1>1, <1>2 DEF Callings, Places, Inside
<1> HIDE DEF p
<1>4. at'[c] = p /\ Run(c)' = Run(c) /\ sent'[Run(c)] = 1
    BY <1>1, <1>2, <1>3 DEF TypeOK, StoresTypeOK, Run, Driving
<1>5. Driving(c)'
    BY <1>1, <1>3, <1>4 DEF Driving, Mid, Inside
<1>6. invocations[Run(c)] # None /\ runs[Run(c)] = "dispatched"
    BY <1>1, NothingAssumption DEF Driving, Open, Invocations
<1>7. Recorded(Run(c))'
    BY <1>1, <1>4, <1>6, NothingAssumption DEF Recorded, Results
<1>8. TypeOK' /\ OthersKept(c)
    BY <1>1, <1>2, <1>3 DEF TypeOK, StoresTypeOK, OthersKept
<1>9. p.place \in Mid \cup {"close"} /\ UNCHANGED <<leaseVars, lost>>
    BY <1>1, <1>3 DEF Mid, Inside, leaseVars
<1>10. QED
    BY <1>1, <1>2, <1>3, <1>5, <1>7, <1>8, <1>9, RecordStep

\* The files of the candidate, and its capture.
LEMMA CandidateStep ==
    ASSUME InvokeInv, NEW c \in Callers, WriteAnswer(c) \/ CaptureCandidate(c) PROVE InvokeInv'
<1> DEFINE place == IF at[c].place = "file" THEN "capture" ELSE "observe"
           answer == at[c].seen.answer
<1>1. /\ TypeOK /\ Run(c) \in Runs /\ Recorded(Run(c)) /\ Driving(c)
      /\ at[c].place \in {"file", "capture"} /\ at[c].place \in Mid
      /\ at[c].place = "file" => files' = [files EXCEPT ![Run(c)] = answer] /\ captures' = captures
      /\ at[c].place = "capture" => captures' = [captures EXCEPT ![Run(c)] = answer] /\ files' = files
      /\ Go(c, place)
      /\ UNCHANGED <<authority, refs, leases, fencing, runs, invocations, outbox, sent, lost>>
    BY CallerIs
       DEF InvokeInv, WriteAnswer, CaptureCandidate, WriteOnce, Capture, In, authVars, leaseVars,
           accountVars, Mid, Inside
<1>2. PICK p \in Callings :
          /\ at' = [at EXCEPT ![c] = p] /\ at'[c] = p
          /\ p.place = place /\ p.run = at[c].run /\ p.token = at[c].token
          /\ p.permit = at[c].permit /\ p.seen = at[c].seen /\ p.out = at[c].out
    <2>1. place \in Places
        BY DEF Places, Inside
    <2> HIDE DEF place
    <2>2. QED
        BY <1>1, <2>1, GoesOn
<1>3. answer \in Answers \cup {None} /\ Run(c)' = Run(c) /\ runs[Run(c)] = "dispatched"
    BY <1>1, <1>2 DEF Driving, Observations, Run
<1>4. Driving(c)'
    <2>1. CASE at[c].place = "file"
        BY <1>1, <1>2, <1>3, <2>1 DEF Driving, Mid, Inside, TypeOK, StoresTypeOK
    <2>2. CASE at[c].place = "capture"
        BY <1>1, <1>2, <1>3, <2>2 DEF Driving, Mid, Inside, TypeOK, StoresTypeOK
    <2>3. QED
        BY <1>1, <2>1, <2>2
<1>5. Recorded(Run(c))'
    BY <1>1, <1>3, NothingAssumption DEF Recorded, Results
<1>6. TypeOK' /\ OthersKept(c)
    BY <1>1, <1>2, <1>3 DEF TypeOK, StoresTypeOK, OthersKept
<1>7. p.place \in Mid \cup {"close"} /\ UNCHANGED <<leaseVars, lost>>
    BY <1>1, <1>2 DEF Mid, Inside, leaseVars
<1>8. QED
    BY <1>1, <1>2, <1>4, <1>5, <1>6, <1>7, RecordStep

\* The observation in the account.
LEMMA ObserveStep ==
    ASSUME InvokeInv, NEW c \in Callers, Observe(c) PROVE InvokeInv'
<1> DEFINE seen == at[c].seen
           row == [invocations[Run(c)] EXCEPT !.seen = seen]
<1>1. /\ TypeOK /\ Run(c) \in Runs /\ Recorded(Run(c)) /\ Driving(c) /\ at[c].place = "observe"
      /\ at[c].place \in Mid /\ Go(c, "terminal")
      /\ UNCHANGED <<authority, refs, leases, fencing, runs, outbox, files, captures, sent, lost>>
    BY CallerIs DEF InvokeInv, Observe, AfterObservation, In, authVars, leaseVars, vaultVars, Mid, Inside
<1>2. PICK p \in Callings :
          /\ at' = [at EXCEPT ![c] = p] /\ at'[c] = p
          /\ p.place = "terminal" /\ p.run = at[c].run /\ p.token = at[c].token
          /\ p.permit = at[c].permit /\ p.seen = at[c].seen /\ p.out = at[c].out
    <2>1. "terminal" \in Places
        BY DEF Places, Inside
    <2>2. QED
        BY <1>1, <2>1, GoesOn
<1>3. seen \in Observations /\ invocations[Run(c)] = Open /\ Run(c)' = Run(c)
    BY <1>1, <1>2 DEF Driving, Run
<1>4. row = [seen |-> seen, status |-> None] /\ row \in Invocations /\ row # None
    BY <1>3, NothingAssumption DEF Open, Invocations
<1>5. invocations' = [invocations EXCEPT ![Run(c)] = row]
    BY <1>1 DEF Observe, RecordObservation, TypeOK, StoresTypeOK
<1> HIDE DEF row
<1>6. invocations'[Run(c)] = row /\ runs[Run(c)] = "dispatched"
    BY <1>1, <1>5 DEF TypeOK, StoresTypeOK, Driving
<1>7. Driving(c)'
    BY <1>1, <1>2, <1>3, <1>4, <1>6 DEF Driving, Mid, Inside
<1>8. Recorded(Run(c))'
    BY <1>1, <1>3, <1>4, <1>6, NothingAssumption DEF Recorded, Results
<1>9. TypeOK' /\ OthersKept(c)
    BY <1>1, <1>2, <1>4, <1>5 DEF TypeOK, StoresTypeOK, OthersKept
<1>10. p.place \in Mid \cup {"close"} /\ UNCHANGED <<leaseVars, lost>>
    BY <1>1, <1>2 DEF Mid, Inside, leaseVars
<1>11. QED
    BY <1>1, <1>2, <1>7, <1>8, <1>9, <1>10, RecordStep

\* The terminal state of the account, with its outbox row.
LEMMA TerminalStep ==
    ASSUME InvokeInv, NEW c \in Callers, Terminal(c) PROVE InvokeInv'
<1> DEFINE seen == at[c].seen
           status == Status(seen)
           row == [invocations[Run(c)] EXCEPT !.status = status]
           post == [status |-> status, seen |-> seen]
<1>1. /\ TypeOK /\ Run(c) \in Runs /\ Recorded(Run(c)) /\ Driving(c) /\ at[c].place = "terminal"
      /\ at[c].place \in Mid /\ Go(c, "finish") /\ RecordTerminal(Run(c), status)
      /\ UNCHANGED <<authority, refs, leases, fencing, runs, files, captures, sent, lost>>
    BY CallerIs DEF InvokeInv, Terminal, In, authVars, leaseVars, vaultVars, Mid, Inside
<1>2. PICK p \in Callings :
          /\ at' = [at EXCEPT ![c] = p] /\ at'[c] = p
          /\ p.place = "finish" /\ p.run = at[c].run /\ p.token = at[c].token
          /\ p.permit = at[c].permit /\ p.seen = at[c].seen /\ p.out = at[c].out
    <2>1. "finish" \in Places
        BY DEF Places, Inside
    <2>2. QED
        BY <1>1, <2>1, GoesOn
<1>3. /\ seen \in Observations /\ invocations[Run(c)] = [seen |-> seen, status |-> None]
      /\ outbox[Run(c)] = None /\ status \in Results /\ Run(c)' = Run(c)
    BY <1>1, <1>2 DEF Driving, Run, Mid, Inside, Status, Results
<1> HIDE DEF status
<1>4. /\ row = [seen |-> seen, status |-> status] /\ row \in Invocations /\ row # None
      /\ post \in Posts
    BY <1>3, NothingAssumption DEF Invocations, Posts
<1>5. invocations' = [invocations EXCEPT ![Run(c)] = row] /\ outbox' = [outbox EXCEPT ![Run(c)] = post]
    BY <1>1, <1>3 DEF RecordTerminal, TypeOK, StoresTypeOK
<1> HIDE DEF row, post
<1>6. /\ invocations'[Run(c)] = row /\ outbox'[Run(c)] = post /\ post = [status |-> status, seen |-> seen]
      /\ runs[Run(c)] = "dispatched"
    BY <1>1, <1>5 DEF TypeOK, StoresTypeOK, Driving, post
<1>7. Status(at'[c].seen) = status
    BY <1>2 DEF status
<1>8. Driving(c)'
    BY <1>1, <1>2, <1>3, <1>4, <1>6, <1>7 DEF Driving, Mid, Inside, Status
<1>9. Recorded(Run(c))'
    BY <1>1, <1>3, <1>4, <1>6, NothingAssumption DEF Recorded, Results
<1>10. TypeOK' /\ OthersKept(c)
    BY <1>1, <1>2, <1>4, <1>5 DEF TypeOK, StoresTypeOK, OthersKept
<1>11. p.place \in Mid \cup {"close"} /\ UNCHANGED <<leaseVars, lost>>
    BY <1>1, <1>2 DEF Mid, Inside, leaseVars
<1>12. QED
    BY <1>1, <1>2, <1>8, <1>9, <1>10, <1>11, RecordStep

\* The terminal event, last.
LEMMA FinishStep ==
    ASSUME InvokeInv, NEW c \in Callers, Finish(c) PROVE InvokeInv'
<1> DEFINE seen == at[c].seen
           status == Status(seen)
<1>1. /\ TypeOK /\ Run(c) \in Runs /\ Recorded(Run(c)) /\ Driving(c) /\ at[c].place = "finish"
      /\ at[c].place \in Mid /\ Go(c, "close") /\ runs' = [runs EXCEPT ![Run(c)] = status]
      /\ UNCHANGED <<authority, refs, leases, fencing, invocations, outbox, files, captures, sent, lost>>
    BY CallerIs DEF InvokeInv, Finish, FinishRun, In, authVars, leaseVars, accountVars, vaultVars, Mid, Inside
<1>2. PICK p \in Callings :
          /\ at' = [at EXCEPT ![c] = p] /\ at'[c] = p
          /\ p.place = "close" /\ p.run = at[c].run /\ p.token = at[c].token
          /\ p.permit = at[c].permit /\ p.seen = at[c].seen /\ p.out = at[c].out
    <2>1. "close" \in Places
        BY DEF Places, Inside
    <2>2. QED
        BY <1>1, <2>1, GoesOn
<1>3. /\ seen \in Observations /\ invocations[Run(c)] = [seen |-> seen, status |-> status]
      /\ outbox[Run(c)] = [status |-> status, seen |-> seen]
      /\ files[Run(c)] = seen.answer /\ captures[Run(c)] = seen.answer
      /\ status \in Results /\ Run(c)' = Run(c) /\ runs'[Run(c)] = status
    BY <1>1, <1>2 DEF Driving, Run, Mid, Inside, Status, Results, TypeOK, StoresTypeOK
<1>4. Status(at'[c].seen) = status
    BY <1>2
<1> HIDE DEF status
<1>5. Driving(c)'
    BY <1>1, <1>2, <1>3, <1>4 DEF Driving, Mid, Inside, Status
<1>6. Recorded(Run(c))'
    BY <1>1, <1>3, NothingAssumption DEF Recorded, Results
<1>7. TypeOK' /\ OthersKept(c)
    BY <1>1, <1>2, <1>3 DEF TypeOK, StoresTypeOK, OthersKept
<1>8. p.place \in Mid \cup {"close"} /\ UNCHANGED <<leaseVars, lost>>
    BY <1>1, <1>2 DEF leaseVars
<1>9. QED
    BY <1>1, <1>2, <1>5, <1>6, <1>7, <1>8, RecordStep

(***************************************************************************)
(* The steps that change a lease.                                          *)
(***************************************************************************)

\* A caller gets a lease of its own: a new one if it was free or had run out.
LEMMA AcquireStep ==
    ASSUME InvokeInv, NEW c \in Callers, AcquireLease(c) PROVE InvokeInv'
<1> DEFINE k == Key(c)
           r == Run(c)
           p == [at[c] EXCEPT !.place = "reverify", !.token = leases'[k].token]
           new == [run |-> r, token |-> fencing + 1, live |-> TRUE]
<1>1. /\ TypeOK /\ TokensPast /\ at[c] \in Callings /\ r \in Runs /\ k \in Resources /\ Owed(c)
      /\ at[c].place = "acquire" /\ Available(k, r) /\ Acquire(k, r)
      /\ fencing \in Nat /\ MaxToken \in Nat
      /\ \A d \in Callers : Leased(d) /\ Owed(d)
      /\ UNCHANGED <<authority, refs, runs, invocations, outbox, files, captures, sent, lost>>
    BY CallerIs, StoresAssumption
       DEF InvokeInv, TypeOK, StoresTypeOK, AcquireLease, In, authVars, accountVars, vaultVars
<1>2. \/ leases' = leases /\ fencing' = fencing /\ leases[k] # None /\ leases[k].run = r
         /\ leases[k].live
      \/ leases' = [leases EXCEPT ![k] = new] /\ fencing' = fencing + 1 /\ fencing < MaxToken
         /\ (leases[k] = None \/ ~leases[k].live)
    BY <1>1 DEF Acquire, Available, leaseVars
<1>3. leases'[k].token \in Nat /\ leases'[k].token <= fencing' /\ leases' \in [Resources -> Leases \cup {None}]
      /\ leases'[k] # None /\ leases'[k].run = r /\ leases'[k].live /\ fencing' \in 0..MaxToken
      /\ fencing <= fencing'
    <2>1. CASE leases' = leases /\ fencing' = fencing /\ leases[k] # None /\ leases[k].run = r
               /\ leases[k].live
        BY <1>1, <2>1 DEF TypeOK, StoresTypeOK, TokensPast, Leases
    <2>2. CASE leases' = [leases EXCEPT ![k] = new] /\ fencing' = fencing + 1 /\ fencing < MaxToken
        <3>1. new \in Leases
            BY <1>1, <2>2 DEF Leases
        <3>2. leases'[k] = new /\ new # None
            BY <1>1, <2>2, <3>1, NothingAssumption DEF TypeOK, StoresTypeOK
        <3>3. leases' \in [Resources -> Leases \cup {None}]
            BY <1>1, <2>2, <3>1 DEF TypeOK, StoresTypeOK
        <3>4. QED
            BY <1>1, <2>2, <3>2, <3>3
    <2>3. QED
        BY <1>2, <2>1, <2>2
<1>4. /\ at' = [at EXCEPT ![c] = p] /\ p \in Callings /\ p.place = "reverify"
      /\ p.token = leases'[k].token
      /\ p.run = at[c].run /\ p.permit = at[c].permit /\ p.out = at[c].out
    BY <1>1, <1>3 DEF AcquireLease, TypeOK, StoresTypeOK, Callings, Places, Before
<1> HIDE DEF p, new
<1>5. at'[c] = p /\ Run(c)' = r /\ Key(c)' = k /\ \A d \in Callers \ {c} : at'[d] = at[d]
    BY <1>1, <1>4 DEF TypeOK, StoresTypeOK, Run, Key
<1>6. Owed(c)'
    BY <1>1, <1>4, <1>5 DEF Owed, Before, Run
<1>7. Leased(c)'
    BY <1>3, <1>5 DEF Leased
<1>8. CASE leases' = leases /\ fencing' = fencing
    <2>1. p.token <= fencing /\ p.place \notin Mid /\ Driving(c)'
        BY <1>3, <1>4, <1>5, <1>8 DEF Mid, Inside, Driving
    <2>2. UNCHANGED <<storeVars, sent, lost>>
        BY <1>1, <1>8 DEF storeVars, authVars, leaseVars, accountVars, vaultVars
    <2>3. QED
        BY <1>4, <1>6, <1>7, <2>1, <2>2, CallerStep
<1>9. CASE /\ leases' = [leases EXCEPT ![k] = new] /\ fencing' = fencing + 1
           /\ (leases[k] = None \/ ~leases[k].live)
    <2>1. TypeOK'
        BY <1>1, <1>3, <1>4 DEF TypeOK, StoresTypeOK
    <2>2. \A j \in Resources \ {k} : leases'[j] = leases[j]
        BY <1>1, <1>9 DEF TypeOK, StoresTypeOK
    <2>3. TokensMove
        BY <1>1, <1>9, <2>2 DEF TokensMove, TypeOK, StoresTypeOK, new
    <2>4. TokensPast'
        <3>1. ASSUME NEW j \in Resources, leases'[j] # None PROVE leases'[j].token <= fencing'
            BY <1>1, <1>3, <1>9, <2>2, <3>1 DEF TokensPast, TypeOK, StoresTypeOK, Leases
        <3>2. ASSUME NEW d \in Callers PROVE at'[d].token <= fencing'
            BY <1>1, <1>3, <1>4, <1>5, <1>9, CallerIs DEF TokensPast
        <3>3. QED
            BY <3>1, <3>2 DEF TokensPast
    <2>5. ASSUME NEW d \in Callers \ {c} PROVE Leased(d)' /\ Owed(d)'
        <3>1. at'[d] = at[d] /\ Run(d)' = Run(d) /\ Key(d)' = Key(d) /\ Key(d) \in Resources
              /\ runs' = runs /\ lost' = lost
            BY <1>1, <1>5, CallerIs DEF Run, Key
        <3>2. Owed(d)'
            BY <2>3, <3>1, OwedLater
        <3>3. Leased(d)'
            <4>1. CASE Key(d) = k
                BY <1>1, <1>9, <3>1, <4>1 DEF Leased
            <4>2. CASE Key(d) # k
                BY <1>1, <2>2, <3>1, <4>2 DEF Leased
            <4>3. QED
                BY <4>1, <4>2
        <3>4. QED
            BY <3>2, <3>3
    <2>6. UNCHANGED <<runs, accountVars, vaultVars, sent>>
        BY <1>1 DEF accountVars, vaultVars
    <2>7. \A d \in Callers : at'[d] = at[d] \/ at'[d].place \in {"reverify", "cleanup"}
        BY <1>4, <1>5
    <2>8. QED
        BY <1>6, <1>7, <2>1, <2>4, <2>5, <2>6, <2>7, LeaseStep
<1>10. QED
    BY <1>2, <1>8, <1>9

\* A lease goes away that nobody else uses who would not be told: the caller's, after
\* its call or a refusal.
LEMMA ReleaseStep ==
    ASSUME InvokeInv, NEW c \in Callers, Release(c) \/ GiveBack(c) PROVE InvokeInv'
<1> DEFINE k == Key(c)
           r == Run(c)
           free == Held(k, r, at[c].token)
           out == IF at[c].place = "release" THEN at[c].out ELSE "refused"
           p == [at[c] EXCEPT !.place = "cleanup", !.out = out]
<1>1. /\ TypeOK /\ TokensPast /\ at[c] \in Callings /\ r \in Runs /\ k \in Resources
      /\ at[c].place \in {"release", "giveback"} /\ (at[c].place = "release" => free)
      /\ \A d \in Callers : Leased(d) /\ Owed(d)
      /\ UNCHANGED <<authority, refs, fencing, runs, invocations, outbox, files, captures, sent>>
    BY CallerIs DEF InvokeInv, TypeOK, StoresTypeOK, Release, GiveBack, In, authVars, accountVars,
                    vaultVars, leaseVars, ReleaseLease
<1>2. /\ lost' = IF free THEN lost \cup Twins(c) ELSE lost
      /\ leases' = IF free THEN [leases EXCEPT ![k] = None] ELSE leases
    <2>1. CASE Release(c)
        BY <2>1 DEF Release, ReleaseLease
    <2>2. CASE GiveBack(c)
        BY <2>2 DEF GiveBack, ReleaseLease
    <2>3. QED
        BY <2>1, <2>2
<1>3. /\ at' = [at EXCEPT ![c] = p] /\ p \in Callings /\ p.place = "cleanup"
      /\ p.token = at[c].token /\ p.run = at[c].run /\ p.permit = at[c].permit /\ p.out = out
      /\ out \in Ends \cup {None}
    <2>1. CASE Release(c)
        BY <1>1, <2>1 DEF Release, Go, In, TypeOK, StoresTypeOK, Callings, Places, After
    <2>2. CASE GiveBack(c)
        BY <1>1, <2>2 DEF GiveBack, End, In, TypeOK, StoresTypeOK, Callings, Places, After, Ends
    <2>3. QED
        BY <2>1, <2>2
<1> HIDE DEF p
<1>4. at'[c] = p /\ Run(c)' = r /\ Key(c)' = k /\ \A d \in Callers \ {c} : at'[d] = at[d]
    BY <1>1, <1>3 DEF TypeOK, StoresTypeOK, Run, Key
<1>5. lost \subseteq lost' /\ lost' \subseteq Runs
    BY <1>1, <1>2 DEF Twins, TypeOK, StoresTypeOK
<1>6. \A j \in Resources : leases'[j] = leases[j] \/ leases'[j] = None
    BY <1>1, <1>2 DEF TypeOK, StoresTypeOK
<1>7. leases' \in [Resources -> Leases \cup {None}]
    BY <1>1, <1>2 DEF TypeOK, StoresTypeOK
<1>8. TypeOK'
    BY <1>1, <1>3, <1>5, <1>7 DEF TypeOK, StoresTypeOK
<1>9. TokensPast' /\ TokensMove
    BY <1>1, <1>3, <1>4, <1>6 DEF TokensPast, TokensMove
<1>10. Owed(c)' /\ Leased(c)'
    <2>1. CASE at[c].place = "release"
        <3>1. leases'[k] = None
            BY <1>1, <1>2, <2>1 DEF TypeOK, StoresTypeOK
        <3>2. QED
            BY <1>1, <1>3, <1>4, <2>1, <3>1 DEF Owed, Leased, Inside, GivenBack, Results, Before, Run
    <2>2. CASE at[c].place = "giveback"
        <3>1. Owed(c) /\ out = "refused" /\ at[c].place \in Before
            BY <1>1, <2>2 DEF Before
        <3>2. at[c].permit # "dispatched" /\ (at[c].permit = "granted" => r \in Pregranted)
            BY <3>1 DEF Owed
        <3>3. Owed(c)'
            BY <1>3, <1>4, <3>1, <3>2 DEF Owed, Results, Before
        <3>4. Leased(c)'
            BY <1>3, <1>4 DEF Leased, Inside
        <3>5. QED
            BY <3>3, <3>4
    <2>3. QED
        BY <1>1, <2>1, <2>2
<1>11. ASSUME NEW d \in Callers \ {c} PROVE Leased(d)' /\ Owed(d)'
    <2>1. at'[d] = at[d] /\ Run(d)' = Run(d) /\ Key(d)' = Key(d) /\ Key(d) \in Resources /\ Run(d) \in Runs
        BY <1>1, <1>4, CallerIs DEF Run, Key
    <2>2. Owed(d)'
        BY <1>1, <1>9, <2>1, OwedLater
    <2>3. ASSUME at[d].place \in Inside \cup {"reverify"}, Run(d) \notin lost'
          PROVE  leases[Key(d)] # None /\ leases[Key(d)].run = Run(d) /\ leases[Key(d)].live
                 /\ leases'[Key(d)] = leases[Key(d)]
        <3>1. leases[Key(d)] # None /\ leases[Key(d)].run = Run(d) /\ leases[Key(d)].live
            BY <1>1, <1>5, <2>3 DEF Leased
        <3>2. CASE free /\ Key(d) = k
            <4>1. Run(d) = r
                BY <3>1, <3>2 DEF Held
            <4>2. r \in Twins(c)
                BY <2>3, <4>1 DEF Twins
            <4>3. QED
                BY <1>2, <2>3, <3>2, <4>1, <4>2
        <3>3. CASE ~(free /\ Key(d) = k)
            <4>1. leases'[Key(d)] = leases[Key(d)]
                BY <1>1, <1>2, <2>1, <3>3 DEF TypeOK, StoresTypeOK
            <4>2. QED
                BY <3>1, <4>1
        <3>4. QED
            BY <3>2, <3>3
    <2>4. Leased(d)'
        BY <2>1, <2>3 DEF Leased
    <2>5. QED
        BY <2>2, <2>4
<1>12. UNCHANGED <<runs, accountVars, vaultVars, sent>>
    BY <1>1 DEF accountVars, vaultVars
<1>13. \A d \in Callers : at'[d] = at[d] \/ at'[d].place \in {"reverify", "cleanup"}
    BY <1>3, <1>4
<1>14. QED
    BY <1>8, <1>9, <1>10, <1>11, <1>12, <1>13, LeaseStep

\* Leases run out, and leases that have run out are reaped; authorities come and go.
LEMMA OthersStep ==
    ASSUME InvokeInv, Others PROVE InvokeInv'
<1>1. /\ TypeOK /\ TokensPast /\ \A d \in Callers : Leased(d) /\ Owed(d)
      /\ UNCHANGED <<at, sent>> /\ UNCHANGED <<fencing, runs, invocations, outbox, files, captures>>
    BY DEF InvokeInv, Others, Revoke, AdvanceEpoch, Reap, Expire, ExpireLease, leaseVars, accountVars,
           vaultVars
<1>2. UNCHANGED <<runs, accountVars, vaultVars, sent>>
    BY <1>1 DEF accountVars, vaultVars
<1>3. \A d \in Callers : /\ at'[d] = at[d] /\ Run(d)' = Run(d) /\ Key(d)' = Key(d)
                         /\ Key(d) \in Resources
    BY <1>1, CallerIs DEF Run, Key
<1>4. ASSUME TypeOK', lost \subseteq lost',
             \A k \in Resources : leases'[k] # None =>
                leases[k] # None /\ leases'[k].token = leases[k].token,
             \A k \in Resources :
                leases[k] # None /\ leases[k].live /\ leases[k].run \notin lost'
                    => leases'[k] = leases[k]
      PROVE  InvokeInv'
    <2>1. TokensPast' /\ TokensMove
        BY <1>1, <1>4 DEF TokensPast, TokensMove
    <2>2. ASSUME NEW d \in Callers PROVE Leased(d)' /\ Owed(d)'
        <3>1. Owed(d)'
            BY <1>1, <2>1, OwedLater
        <3>2. Leased(d)'
            BY <1>1, <1>3, <1>4 DEF Leased
        <3>3. QED
            BY <3>1, <3>2
    <2>3. QED
        BY <1>2, <1>1, <1>4, <2>1, <2>2, LeaseStep
<1>5. ASSUME NEW i \in Refs, Revoke(i), UNCHANGED lost PROVE InvokeInv'
    <2>1. /\ refs[i] \in References /\ refs' = [refs EXCEPT ![i] = [refs[i] EXCEPT !.live = FALSE]]
          /\ UNCHANGED <<authority, leases>>
        BY <1>1, <1>5 DEF Revoke, TypeOK, StoresTypeOK, leaseVars
    <2>2. [refs[i] EXCEPT !.live = FALSE] \in References
        BY <2>1 DEF References
    <2>3. TypeOK'
        BY <1>1, <1>5, <2>1, <2>2 DEF TypeOK, StoresTypeOK
    <2>4. QED
        BY <1>4, <1>5, <2>1, <2>3
<1>6. ASSUME NEW open \in BOOLEAN, AdvanceEpoch(open), UNCHANGED lost PROVE InvokeInv'
    <2>1. /\ authority' = [epoch |-> authority.epoch + 1, open |-> open]
          /\ authority.epoch < MaxEpoch /\ UNCHANGED <<refs, leases>>
        BY <1>6 DEF AdvanceEpoch, leaseVars
    <2>2. authority.epoch \in 1..MaxEpoch /\ MaxEpoch \in Nat
        BY <1>1, StoresAssumption DEF TypeOK, StoresTypeOK
    <2>3. authority.epoch + 1 \in 1..MaxEpoch
        BY <2>1, <2>2
    <2>4. TypeOK'
        BY <1>1, <1>6, <2>1, <2>3 DEF TypeOK, StoresTypeOK
    <2>5. QED
        BY <1>4, <1>6, <2>1, <2>4
<1>7. ASSUME NEW k \in Resources, Expire(k) PROVE InvokeInv'
    <2> DEFINE new == [leases[k] EXCEPT !.live = FALSE]
    <2>1. /\ leases[k] \in Leases /\ leases' = [leases EXCEPT ![k] = new]
          /\ lost' = lost \cup {leases[k].run} /\ UNCHANGED <<authority, refs>>
        BY <1>1, <1>7 DEF Expire, ExpireLease, TypeOK, StoresTypeOK, authVars
    <2>2. new \in Leases /\ new.token = leases[k].token /\ leases[k].run \in Runs /\ leases[k] # None
        BY <2>1, NothingAssumption DEF Leases
    <2> HIDE DEF new
    <2>3. TypeOK'
        BY <1>1, <2>1, <2>2 DEF TypeOK, StoresTypeOK
    <2>4. leases'[k] = new /\ \A j \in Resources \ {k} : leases'[j] = leases[j]
        BY <1>1, <2>1 DEF TypeOK, StoresTypeOK
    <2>5. QED
        BY <1>4, <2>1, <2>2, <2>3, <2>4
<1>8. ASSUME NEW r \in Runs, Reap(r), UNCHANGED lost PROVE InvokeInv'
    <2> DEFINE held == {k \in Resources : leases[k] # None /\ leases[k].run = r}
    <2>1. /\ \A k \in held : ~leases[k].live
          /\ leases' = [k \in Resources |-> IF k \in held THEN None ELSE leases[k]]
          /\ UNCHANGED <<authority, refs>>
        BY <1>8 DEF Reap, authVars
    <2> HIDE DEF held
    <2>2. \A k \in Resources : \/ leases'[k] = leases[k]
                               \/ k \in held /\ leases'[k] = None
        BY <2>1
    <2>3. TypeOK'
        BY <1>1, <1>8, <2>1 DEF TypeOK, StoresTypeOK
    <2>4. QED
        BY <1>4, <1>8, <2>1, <2>2, <2>3
<1>9. QED
    BY <1>5, <1>7, <1>8, <1>6 DEF Others

(***************************************************************************)
(* The theorems.                                                           *)
(***************************************************************************)

\* The invariant holds initially, and every step keeps it.
LEMMA InvokeInitially == Init => InvokeInv
<1> SUFFICES ASSUME Init PROVE InvokeInv
    OBVIOUS
<1> DEFINE r == CHOOSE r \in Runs : TRUE
<1>1. r \in Runs
    BY InvokeAssumption
<1>2. ASSUME NEW c \in Callers
      PROVE  at[c] = [place |-> "idle", run |-> r, ref |-> 1, token |-> 0, permit |-> "none",
                      seen |-> None, out |-> None]
    BY DEF Init
<1> HIDE DEF r
<1>3. /\ runs = [s \in Runs |-> None] /\ invocations = [s \in Runs |-> None]
      /\ outbox = [s \in Runs |-> None] /\ files = [s \in Runs |-> None]
      /\ captures = [s \in Runs |-> None] /\ sent = [s \in Runs |-> 0] /\ lost = {}
      /\ leases = [k \in Resources |-> None] /\ fencing = 0
      /\ authority = [epoch |-> 1, open |-> TRUE]
      /\ refs = [i \in Refs |-> IF i = 1 THEN [epoch |-> 1, live |-> TRUE] ELSE None]
    BY DEF Init, StoresInit
<1>4. TypeOK
    <2>1. at \in [Callers -> Callings]
        <3>1. ASSUME NEW c \in Callers PROVE at[c] \in Callings
            BY <1>1, <1>2, StoresAssumption DEF Callings, Places, Permits, Refs
        <3>2. at = [c \in Callers |-> at[c]]
            BY DEF Init
        <3>3. QED
            BY <3>1, <3>2
    <2>2. 1 \in 1..MaxEpoch /\ MaxToken \in Nat
        BY StoresAssumption
    <2>3. QED
        BY <1>3, <2>1, <2>2 DEF TypeOK, StoresTypeOK, References
<1>5. OneDriver /\ TokensPast
    BY <1>2, <1>3 DEF OneDriver, TokensPast, Mid, Inside
<1>6. \A c \in Callers : Driving(c) /\ Leased(c)
    BY <1>2, <1>3 DEF Driving, Leased, Mid, Inside
<1>7. \A c \in Callers : Owed(c)
    BY <1>2, <1>3, NothingAssumption DEF Owed, Before, Results
<1>8. \A s \in Runs : Recorded(s)
    BY <1>3, NothingAssumption DEF Recorded
<1>9. QED
    BY <1>4, <1>5, <1>6, <1>7, <1>8 DEF InvokeInv

\* Every step of a caller or of its surroundings keeps the invariant: one case per action,
\* each with the lemma above that treats its kind.
LEMMA InvokeStep == InvokeInv /\ [Next]_vars => InvokeInv'
<1> SUFFICES ASSUME InvokeInv, [Next]_vars PROVE InvokeInv'
    OBVIOUS
<1>1. ASSUME NEW c \in Callers, NEW r \in Runs, NEW i \in Refs, Begin(c, r, i) PROVE InvokeInv'
    BY <1>1, BeginStep
<1>2. ASSUME NEW c \in Callers,
             \/ Refuse(c) \/ Verify(c) \/ AcquireRefused(c) \/ RaiseEarly(c)
             \/ Reverify(c) \/ AdmitProvider(c)
      PROVE  InvokeInv'
    BY <1>2, EarlyStep, AdmitStep
<1>3. ASSUME NEW c \in Callers, Unsent(c) \/ \E seen \in Outcomes : Answer(c, seen) PROVE InvokeInv'
    <2>1. PreNetwork \in Observations /\ PreNetwork.answer = None /\ Outcomes \subseteq Observations
        BY InvokeAssumption DEF PreNetwork, Observations
    <2>2. CASE Unsent(c)
        BY <2>1, <2>2, AnswerStep DEF Unsent
    <2>3. CASE \E seen \in Outcomes : Answer(c, seen)
        BY <2>1, <2>3, AnswerStep DEF Answer
    <2>4. QED
        BY <1>3, <2>2, <2>3
<1>4. ASSUME NEW c \in Callers,
             Start(c) \/ Account(c) \/ Send(c) \/ WriteAnswer(c) \/ CaptureCandidate(c)
      PROVE  InvokeInv'
    BY <1>4, StartStep, AccountStep, SendStep, CandidateStep
<1>5. ASSUME NEW c \in Callers,
             Observe(c) \/ Terminal(c) \/ Finish(c) \/ Close(c) \/ Raise(c) \/ Break(c)
      PROVE  InvokeInv'
    BY <1>5, ObserveStep, TerminalStep, FinishStep, CloseStep
<1>6. ASSUME NEW c \in Callers,
             \/ \E swallowed \in BOOLEAN : Settle(c, swallowed)
             \/ ReleaseRefused(c) \/ Cleanup(c) \/ CleanupRaises(c)
             \/ Crash(c) \/ Sweep(c)
      PROVE  InvokeInv'
    BY <1>6, FinalStep, FaultStep
<1>7. ASSUME NEW c \in Callers, AcquireLease(c) \/ Release(c) \/ GiveBack(c) PROVE InvokeInv'
    BY <1>7, AcquireStep, ReleaseStep
<1>8. CASE Others
    BY <1>8, OthersStep
<1>9. CASE UNCHANGED vars
    <2>1. UNCHANGED <<at, sent, lost, authority, refs, leases, fencing, runs, invocations, outbox,
                      files, captures>>
        BY <1>9 DEF vars, storeVars, authVars, leaseVars, accountVars, vaultVars
    <2>2. TypeOK' /\ OneDriver' /\ TokensPast'
        BY <2>1 DEF InvokeInv, TypeOK, StoresTypeOK, OneDriver, TokensPast, Run
    <2>3. \A c \in Callers : Driving(c)' /\ Leased(c)' /\ Owed(c)'
        BY <2>1 DEF InvokeInv, Driving, Leased, Owed, GivenBack, Run, Key, Status
    <2>4. \A r \in Runs : Recorded(r)'
        BY <2>1 DEF InvokeInv, Recorded
    <2>5. QED
        BY <2>2, <2>3, <2>4 DEF InvokeInv
<1>10. QED
    BY <1>1, <1>2, <1>3, <1>4, <1>5, <1>6, <1>7, <1>8, <1>9 DEF Next

\* The invariant holds in every state of invoke.
THEOREM InvokeInvariant == Spec => []InvokeInv
<1>1. QED
    BY InvokeInitially, InvokeStep, PTL DEF Spec

\* The variables keep their types.
THEOREM InvokeTypes == Spec => []TypeOK
<1>1. InvokeInv => TypeOK
    BY DEF InvokeInv
<1>2. QED
    BY <1>1, InvokeInvariant, PTL

\* A run is transported once, and two transports share a resource only when one of
\* them lost its lease.
THEOREM TransportsAreSound == Spec => []TransportsSound
<1>1. InvokeInv => TransportsSound
    <2> SUFFICES ASSUME InvokeInv PROVE TransportsSound
        OBVIOUS
    <2>1. OneTransport
        BY DEF InvokeInv, Recorded, OneTransport
    <2>2. ExclusiveTransport
        <3> SUFFICES ASSUME NEW c \in Callers, NEW d \in Callers, c # d,
                            at[c].place = "sending", at[d].place = "sending", Key(c) = Key(d)
                     PROVE  Run(c) # Run(d) /\ {Run(c), Run(d)} \cap lost # {}
            BY DEF ExclusiveTransport, In
        <3>1. Run(c) # Run(d)
            BY DEF InvokeInv, OneDriver, Mid, Inside
        <3>2. Leased(c) /\ Leased(d)
            BY DEF InvokeInv
        <3>3. Run(c) \in lost \/ Run(d) \in lost
            BY <3>1, <3>2 DEF Leased, Inside
        <3>4. QED
            BY <3>1, <3>3
    <2>3. QED
        BY <2>1, <2>2 DEF TransportsSound
<1>2. QED
    BY <1>1, InvokeInvariant, PTL

\* A transport has its dispatch event and account, a terminal event its closed account,
\* outbox row and captured answer, whichever step of invoke failed.
THEOREM RecordsAlwaysAgree == Spec => []RecordsAgree
<1>1. InvokeInv => RecordsAgree
    BY DEF InvokeInv, Recorded, RecordsAgree
<1>2. QED
    BY <1>1, InvokeInvariant, PTL

\* A caller that has a result owes neither a permit nor a lease.
THEOREM ReturnsRelease == Spec => []ReturnedMeansReleased
<1>1. InvokeInv => ReturnedMeansReleased
    BY DEF InvokeInv, Owed, GivenBack, ReturnedMeansReleased, In
<1>2. QED
    BY <1>1, InvokeInvariant, PTL

----------------------------------------------------------------------------
(***************************************************************************)
(* Direct Chat.  The inductive invariant.                                  *)
(***************************************************************************)

\* From the question to the answer: a thread that has a turn to end.
Working == SendPlaces \ {"settle", "release"}

\* Before its dispatch event there is nothing of a run.
Blank(r) == runs[r] = None /\ invocations[r] = None /\ files[r] = None /\ captures[r] = None


Question(r) == [role |-> "user", run |-> r]
ReplyOf(r) == [role |-> "assistant", run |-> r]

\* The last message of a conversation.
LastIs(k, message) ==
    /\ Len(talks[k].messages) > 0
    /\ talks[k].messages[Len(talks[k].messages)] = message

\* One request at a time in a conversation.
OneRequest ==
    \A t, u \in Threads : (~At(t, "idle") /\ ~At(u, "idle") /\ Talk(t) = Talk(u)) => t = u

\* What a thread that sends knows of its turn, place by place.
Sending(t) ==
    LET r == RunOf(t)  k == Talk(t)  place == thread[t].place  seen == thread[t].seen IN
    place \in SendPlaces =>
        /\ k \in Conversations /\ Kept(k) /\ r \in Runs /\ asked[r] = k
        /\ place \in {"append", "turn"} => turns[r] = None
        /\ place \in Working \ {"append", "turn"} => turns[r] = "created"
        /\ place \in Working \ {"append"} => LastIs(k, Question(r))
        /\ place \in {"append", "turn", "estimate", "admit", "kernel", "refuse", "start"} => Blank(r)
        /\ place \in {"account", "transport", "sending", "file", "capture", "observe", "terminal",
                      "finish"} => runs[r] = "dispatched"
        /\ place = "account" => invocations[r] = None
        /\ place \in {"transport", "sending", "file", "capture", "observe"} =>
               invocations[r] = Open
        /\ place \in {"account", "transport", "sending", "file"} => files[r] = None
        /\ place \in {"account", "transport", "sending", "file", "capture"} => captures[r] = None
        /\ place \in {"file", "capture", "observe", "terminal", "finish", "close"} =>
               seen \in Observations
        /\ place \in {"file", "capture"} => seen.answer # None
        /\ place \in {"capture", "observe", "terminal", "finish", "close"} => files[r] = seen.answer
        /\ place \in {"observe", "terminal", "finish", "close"} => captures[r] = seen.answer
        /\ place = "terminal" => invocations[r] = [seen |-> seen, status |-> None]
        /\ place \in {"finish", "close"} => invocations[r] = [seen |-> seen, status |-> ReplyStatus(t)]
        /\ place = "close" => runs[r] = ReplyStatus(t)

\* What a thread that deletes has seen to.
Deleting(t) ==
    LET k == Talk(t)  place == thread[t].place IN
    place \in DeletePlaces =>
        /\ k \in Conversations /\ thread[t].token = 0
        /\ place = "tomb" => talks[k] = Gone
        /\ place \in {"purge", "rows"} => Kept(k) /\ Deletable(k)
        /\ place = "rows" => \A r \in Turns(k) : files[r] = None

\* What a run leaves behind, whatever became of its thread.
RunSound(r) ==
    /\ asked[r] = None => turns[r] = None /\ Blank(r)
    /\ turns[r] \in {None, "refused_before_network"} => files[r] = None
    /\ turns[r] = "completed" =>
        /\ runs[r] = "success" /\ invocations[r] # None /\ invocations[r].status = "success"
        /\ captures[r] = "good" /\ files[r] \in {None, "good"}
    /\ turns[r] = "failed_after_dispatch" /\ files[r] # None => captures[r] # None

\* Of a transcript: its runs, and each reply right after its question, once.
TranscriptSound(k) ==
    LET messages == talks[k].messages IN
    /\ \A n \in DOMAIN messages : asked[messages[n].run] = k
    /\ \A n \in DOMAIN messages : messages[n].role = "assistant" =>
        /\ turns[messages[n].run] = "completed"
        /\ n > 1 /\ messages[n - 1] = Question(messages[n].run)
    /\ \A n, o \in DOMAIN messages :
        messages[n].role = "assistant" /\ messages[o] = messages[n] => n = o
    /\ \A r \in Runs : asked[r] = k /\ turns[r] = "completed" =>
        \E n \in DOMAIN messages : messages[n] = ReplyOf(r)

TalkSound(k) ==
    /\ talks[k] = None => \A r \in Runs : asked[r] # k
    /\ talks[k] = Gone => \A r \in Runs : asked[r] = k => turns[r] = None
    /\ Kept(k) => TranscriptSound(k)

ChatInv ==
    /\ ChatTypeOK
    /\ OneRequest
    /\ \A t \in Threads : Sending(t) /\ Deleting(t)
    /\ \A r \in Runs : RunSound(r)
    /\ \A k \in Conversations : TalkSound(k)

(***************************************************************************)
(* What each kind of step keeps of it.                                     *)
(***************************************************************************)

\* The other threads stay where they are.
Only(t) == \A u \in Threads \ {t} : thread'[u] = thread[u]

\* What a request becomes.
LEMMA Becomes ==
    ASSUME ChatTypeOK, NEW t \in Threads, NEW p \in Requests, thread' = [thread EXCEPT ![t] = p]
    PROVE  thread' \in [Threads -> Requests] /\ Only(t) /\ thread'[t] = p
BY DEF ChatTypeOK, Only

\* It goes to another place and knows what it knew.
LEMMA StepTo ==
    ASSUME ChatTypeOK, NEW t \in Threads, NEW place \in {"idle"} \cup SendPlaces \cup DeletePlaces,
           Step(t, place)
    PROVE  /\ thread' \in [Threads -> Requests] /\ Only(t) /\ At(t, place)'
           /\ Talk(t)' = Talk(t) /\ RunOf(t)' = RunOf(t)
           /\ thread'[t].seen = thread[t].seen /\ thread'[t].token = thread[t].token
<1> DEFINE p == [thread[t] EXCEPT !.place = place]
<1>1. thread \in [Threads -> Requests] /\ thread[t] \in Requests
    BY DEF ChatTypeOK
<1>2. p \in Requests
    BY <1>1 DEF Requests
<1>3. thread' = [thread EXCEPT ![t] = p]
    BY <1>1 DEF Step
<1>4. thread' \in [Threads -> Requests] /\ Only(t) /\ thread'[t] = p
    BY <1>2, <1>3, Becomes
<1>5. QED
    BY <1>1, <1>4 DEF Talk, RunOf, At, Requests

\* Outside a conversation nothing changes.
Within(k) ==
    /\ \A r \in Runs : asked[r] # k =>
        /\ turns'[r] = turns[r] /\ runs'[r] = runs[r] /\ invocations'[r] = invocations[r]
        /\ files'[r] = files[r] /\ captures'[r] = captures[r]
    /\ \A c \in Conversations \ {k} : talks'[c] = talks[c]

\* A thread with a request does something in its conversation.
LEMMA TalkStep ==
    ASSUME ChatInv, ChatTypeOK', NEW t \in Threads, NEW k, k = Talk(t),
           Only(t), ~At(t, "idle"), At(t, "idle")' \/ Talk(t)' = Talk(t),
           asked' = asked, Within(k), Sending(t)', Deleting(t)',
           \A r \in Runs : asked[r] = k => RunSound(r)',
           TalkSound(k)'
    PROVE  ChatInv'
<1>1. /\ ChatTypeOK /\ OneRequest
      /\ \A u \in Threads : Sending(u) /\ Deleting(u)
      /\ \A r \in Runs : RunSound(r)
      /\ \A c \in Conversations : TalkSound(c)
    BY DEF ChatInv
<1>2. \A u \in Threads \ {t} : thread'[u] = thread[u]
    BY DEF Only
<1>3. OneRequest'
    BY <1>1, <1>2 DEF OneRequest, At, Talk
<1>4. ASSUME NEW u \in Threads PROVE Sending(u)' /\ Deleting(u)'
    <2>1. CASE u = t
        BY <2>1
    <2>2. CASE u # t /\ thread[u].place = "idle"
        BY <1>2, <2>2 DEF Sending, Deleting, SendPlaces, DeletePlaces
    <2>3. CASE u # t /\ thread[u].place # "idle"
        <3>1. thread'[u] = thread[u] /\ Talk(u) # k /\ Sending(u) /\ Deleting(u)
            BY <1>1, <1>2, <2>3 DEF OneRequest, At
        <3>2. Sending(u)'
            <4>1. SUFFICES ASSUME thread[u].place \in SendPlaces PROVE Sending(u)'
                BY <3>1 DEF Sending
            <4>2. RunOf(u) \in Runs /\ asked[RunOf(u)] # k /\ Talk(u) \in Conversations \ {k}
                BY <3>1, <4>1 DEF Sending
            <4>3. talks'[Talk(u)] = talks[Talk(u)]
                BY <4>2 DEF Within
            <4>4. QED
                BY <3>1, <4>1, <4>2, <4>3 DEF Sending, Within, Talk, RunOf, ReplyStatus, Blank, LastIs, Kept
        <3>3. Deleting(u)'
            <4>1. SUFFICES ASSUME thread[u].place \in DeletePlaces PROVE Deleting(u)'
                BY <3>1 DEF Deleting
            <4>2. talks'[Talk(u)] = talks[Talk(u)] /\ Turns(Talk(u))' = Turns(Talk(u))
                BY <3>1, <4>1 DEF Within, Deleting, Turns, Talk
            <4>3. \A r \in Turns(Talk(u)) : turns'[r] = turns[r] /\ files'[r] = files[r]
                BY <3>1 DEF Within, Turns
            <4>4. QED
                BY <3>1, <4>1, <4>2, <4>3 DEF Deleting, Talk, Kept, Deletable
        <3>4. QED
            BY <3>2, <3>3
    <2>4. QED
        BY <2>1, <2>2, <2>3
<1>5. \A r \in Runs : RunSound(r)'
    BY <1>1 DEF RunSound, Within, Blank
<1>6. \A c \in Conversations : TalkSound(c)'
    <2>1. SUFFICES ASSUME NEW c \in Conversations \ {k} PROVE TalkSound(c)'
        OBVIOUS
    <2>2. TalkSound(c) /\ talks'[c] = talks[c] /\ asked' = asked
          /\ \A r \in Runs : asked[r] = c => turns'[r] = turns[r]
        BY <1>1 DEF Within
    <2>3. Kept(c) => \A n \in DOMAIN talks[c].messages : talks[c].messages[n].run \in Runs
        <3>1. SUFFICES ASSUME Kept(c), NEW n \in DOMAIN talks[c].messages
                       PROVE  talks[c].messages[n].run \in Runs
            OBVIOUS
        <3>2. talks[c].messages \in Seq(Messages)
            BY <1>1, <3>1 DEF ChatTypeOK, Kept, Talks
        <3>3. talks[c].messages[n] \in Messages
            BY <3>2, LenProperties, ElementOfSeq
        <3>4. QED
            BY <3>3 DEF Messages
    <2>4. TranscriptSound(c) /\ Kept(c) => TranscriptSound(c)'
        BY <2>2, <2>3 DEF TranscriptSound
    <2>5. QED
        BY <2>2, <2>4 DEF TalkSound, Kept
<1>7. QED
    BY <1>3, <1>4, <1>5, <1>6 DEF ChatInv

\* It writes nothing but records of its own run.
LEMMA TurnStep ==
    ASSUME ChatInv, ChatTypeOK', NEW t \in Threads, NEW r, r = RunOf(t),
           Only(t), thread[t].place \in SendPlaces, At(t, "idle")' \/ Talk(t)' = Talk(t),
           UNCHANGED <<asked, turns, talks>>,
           \A q \in Runs \ {r} :
                /\ runs'[q] = runs[q] /\ invocations'[q] = invocations[q]
                /\ files'[q] = files[q] /\ captures'[q] = captures[q],
           Sending(t)', Deleting(t)', RunSound(r)'
    PROVE  ChatInv'
<1>1. /\ ~At(t, "idle") /\ Talk(t) \in Conversations /\ r \in Runs /\ asked[r] = Talk(t)
      /\ (\A q \in Runs : RunSound(q)) /\ TalkSound(Talk(t))
    BY DEF ChatInv, Sending, At, SendPlaces
<1>2. Within(Talk(t))
    BY <1>1 DEF Within
<1>3. \A q \in Runs : RunSound(q)'
    BY <1>1 DEF RunSound, Blank
<1>4. ASSUME NEW k \in Conversations, TalkSound(k) PROVE TalkSound(k)'
    BY <1>4 DEF TalkSound, TranscriptSound, Kept
<1>5. QED
    BY <1>1, <1>2, <1>3, <1>4, TalkStep

\* It only moves on.
LEMMA MoveStep ==
    ASSUME ChatInv, ChatTypeOK', NEW t \in Threads,
           Only(t), ~At(t, "idle"), At(t, "idle")' \/ Talk(t)' = Talk(t),
           UNCHANGED <<asked, turns, talks, runs, invocations, files, captures>>,
           Sending(t)', Deleting(t)'
    PROVE  ChatInv'
<1>1. \A k \in Conversations : TalkSound(k)'
    BY DEF ChatInv, TalkSound, TranscriptSound, Kept
<1>2. \A r \in Runs : RunSound(r)'
    BY DEF ChatInv, RunSound, Blank
<1>3. Talk(t) \in Conversations
    BY DEF ChatInv, ChatTypeOK, Sending, Deleting, At, Requests
<1>4. Within(Talk(t))
    BY DEF Within
<1>5. QED
    BY <1>1, <1>2, <1>3, <1>4, TalkStep

\* The stores are left alone, and so are transcripts and turns.
LEMMA MoveAlone ==
    ASSUME ChatInv, NEW t \in Threads, thread' \in [Threads -> Requests],
           Only(t), ~At(t, "idle"), At(t, "idle")' \/ Talk(t)' = Talk(t),
           UNCHANGED <<storeVars, server, talks, turns, asked>>, tombs' \subseteq Conversations,
           Sending(t)', Deleting(t)'
    PROVE  ChatInv'
<1>1. /\ UNCHANGED <<authority, refs, leases, fencing, runs, invocations, outbox, files, captures>>
      /\ ChatTypeOK
    BY DEF storeVars, authVars, leaseVars, accountVars, vaultVars, ChatInv
<1>2. ChatTypeOK'
    BY <1>1 DEF ChatTypeOK, StoresTypeOK
<1>3. QED
    BY <1>1, <1>2, MoveStep

\* The request is over, or the permit and the lease are all that is left of it.
LEMMA LeaveStep ==
    ASSUME ChatInv, ChatTypeOK', NEW t \in Threads, Only(t), ~At(t, "idle"),
           \/ At(t, "idle")'
           \/ /\ At(t, "settle")' \/ At(t, "release")'
              /\ thread[t].place \in SendPlaces /\ Talk(t)' = Talk(t) /\ RunOf(t)' = RunOf(t),
           UNCHANGED <<asked, turns, talks, runs, invocations, files, captures>>
    PROVE  ChatInv'
<1>1. Sending(t)
    BY DEF ChatInv
<1>2. Sending(t)' /\ Deleting(t)'
    BY <1>1 DEF At, Sending, Deleting, SendPlaces, DeletePlaces, Working, RunOf, Talk, Kept
<1>3. QED
    BY <1>2, MoveStep

(***************************************************************************)
(* The steps of a thread that sends.                                       *)
(***************************************************************************)

\* Up to the dispatch event nothing is on record of the run, wherever the thread goes.
LEMMA AheadStep ==
    ASSUME ChatInv, NEW t \in Threads,
           Estimate(t) \/ AdmitRefused(t) \/ (\E granted \in BOOLEAN : AdmitTurn(t, granted))
    PROVE  ChatInv'
<1>1. /\ ChatTypeOK /\ Sending(t) /\ thread \in [Threads -> Requests]
      /\ thread[t].place \in {"estimate", "admit", "kernel"}
      /\ UNCHANGED <<storeVars, server, talks, turns, tombs, asked>>
    BY DEF ChatInv, ChatTypeOK, Estimate, AdmitRefused, AdmitTurn, At, talkVars
<1>2. /\ thread' \in [Threads -> Requests] /\ Only(t)
      /\ thread'[t].place \in {"admit", "refuse", "start"}
      /\ Talk(t)' = Talk(t) /\ RunOf(t)' = RunOf(t)
    <2>1. CASE Estimate(t) \/ AdmitRefused(t)
        <3>1. PICK place \in {"admit", "refuse"} : Step(t, place)
            BY <2>1 DEF Estimate, AdmitRefused
        <3>2. QED
            BY <1>1, <3>1, StepTo DEF SendPlaces, At
    <2>2. CASE AdmitTurn(t, TRUE)
        <3>1. thread' = [thread EXCEPT ![t].place = "start", ![t].permit = "granted"]
            BY <2>2 DEF AdmitTurn
        <3> DEFINE p == [thread[t] EXCEPT !.place = "start", !.permit = "granted"]
        <3>2. p \in Requests /\ thread' = [thread EXCEPT ![t] = p]
            BY <1>1, <3>1 DEF Requests, SendPlaces, TurnPermits
        <3>3. thread' \in [Threads -> Requests] /\ Only(t) /\ thread'[t] = p
            BY <1>1, <3>2, Becomes
        <3>4. QED
            BY <1>1, <3>3 DEF Requests, Talk, RunOf
    <2>3. CASE AdmitTurn(t, FALSE)
        <3>1. Step(t, "refuse")
            BY <2>3 DEF AdmitTurn, Step
        <3>2. QED
            BY <1>1, <3>1, StepTo DEF SendPlaces, At
    <2>4. QED
        BY <2>1, <2>2, <2>3
<1>3. Deleting(t)'
    BY <1>2 DEF Deleting, DeletePlaces
<1>4. Sending(t)'
    BY <1>1, <1>2 DEF Sending, SendPlaces, Working, RunOf, Talk, Kept, Blank, LastIs, storeVars,
                      accountVars, vaultVars
<1>5. QED
    BY <1>1, <1>2, <1>3, <1>4, MoveAlone DEF At, ChatTypeOK

\* What waits for the provider's answer moves on with it.
LEMMA ProviderStep ==
    ASSUME ChatInv, NEW t \in Threads,
           Transport(t) \/ NotSent(t) \/ (\E seen \in Replies : Reply(t, seen))
    PROVE  ChatInv'
<1>1. /\ ChatTypeOK /\ Sending(t) /\ thread \in [Threads -> Requests]
      /\ thread[t].place \in {"transport", "sending"}
      /\ UNCHANGED <<storeVars, server, talks, turns, tombs, asked>>
    BY DEF ChatInv, ChatTypeOK, Transport, NotSent, Reply, At, talkVars
<1>2. /\ thread' \in [Threads -> Requests] /\ Only(t)
      /\ Talk(t)' = Talk(t) /\ RunOf(t)' = RunOf(t)
      /\ \/ At(t, "sending")'
         \/ At(t, "observe")' /\ thread'[t].seen \in Observations /\ thread'[t].seen.answer = None
         \/ At(t, "file")' /\ thread'[t].seen \in Observations /\ thread'[t].seen.answer # None
    <2>1. ASSUME NEW seen \in Observations, GoOn(t, seen)
          PROVE  <1>2
        <3>1. CASE seen.answer = None
            <4>1. thread' = [thread EXCEPT ![t].seen = seen, ![t].place = "observe"]
                BY <2>1, <3>1 DEF GoOn
            <4>2. QED
                BY <1>1, <3>1, <4>1 DEF Requests, SendPlaces, Talk, RunOf, Only, At
        <3>2. CASE seen.answer # None
            <4>1. thread' = [thread EXCEPT ![t].seen = seen, ![t].place = "file"]
                BY <2>1, <3>2 DEF GoOn
            <4>2. QED
                BY <1>1, <3>2, <4>1 DEF Requests, SendPlaces, Talk, RunOf, Only, At
        <3>3. QED
            BY <3>1, <3>2
    <2>2. CASE Transport(t)
        <3>1. PICK permit \in TurnPermits :
                    thread' = [thread EXCEPT ![t].place = "sending", ![t].permit = permit]
            <4>1. thread[t].permit \in TurnPermits /\ "dispatched" \in TurnPermits
                BY <1>1 DEF Requests, TurnPermits
            <4>2. CASE Talk(t) \in Grok
                BY <2>2, <4>1, <4>2 DEF Transport
            <4>3. CASE Talk(t) \notin Grok
                BY <2>2, <4>1, <4>3 DEF Transport
            <4>4. QED
                BY <4>2, <4>3
        <3> DEFINE p == [thread[t] EXCEPT !.place = "sending", !.permit = permit]
        <3>2. p \in Requests /\ thread' = [thread EXCEPT ![t] = p]
            BY <1>1, <3>1 DEF Requests, SendPlaces
        <3>3. thread' \in [Threads -> Requests] /\ Only(t) /\ thread'[t] = p
            BY <1>1, <3>2, Becomes
        <3>4. QED
            BY <1>1, <3>3 DEF Requests, Talk, RunOf, At
    <2>3. PreNetwork \in Observations /\ Replies \subseteq Observations
        BY ChatAssumption DEF PreNetwork, Observations
    <2>4. QED
        BY <2>1, <2>2, <2>3 DEF NotSent, Reply
<1>3. Deleting(t)'
    BY <1>2 DEF Deleting, DeletePlaces, At
<1>4. Sending(t)'
    BY <1>1, <1>2 DEF Sending, SendPlaces, Working, RunOf, Talk, At, Kept, Blank, LastIs, storeVars,
                      accountVars, vaultVars
<1>5. QED
    BY <1>1, <1>2, <1>3, <1>4, MoveAlone DEF At, ChatTypeOK

\* What a lease may become.
LEMMA AcquireTypes ==
    ASSUME StoresTypeOK, NEW k \in Resources, NEW r \in Runs, Acquire(k, r),
           UNCHANGED <<authVars, runs, accountVars, vaultVars>>
    PROVE  StoresTypeOK' /\ leases'[k].token \in 0..MaxToken
<1>1. UNCHANGED <<authority, refs, runs, invocations, outbox, files, captures>>
    BY DEF authVars, accountVars, vaultVars
<1>2. CASE leases[k] # None /\ leases[k].live
    <2>1. leases' = leases /\ fencing' = fencing
        BY <1>2 DEF Acquire, leaseVars
    <2>2. leases[k] \in Leases
        BY <1>2 DEF StoresTypeOK
    <2>3. QED
        BY <1>1, <2>1, <2>2, StoresAssumption DEF StoresTypeOK, Leases
<1>3. CASE ~(leases[k] # None /\ leases[k].live)
    <2> DEFINE row == [run |-> r, token |-> fencing + 1, live |-> TRUE]
    <2>1. /\ fencing < MaxToken /\ fencing' = fencing + 1
          /\ leases' = [leases EXCEPT ![k] = row]
        BY <1>3 DEF Acquire
    <2>2. fencing + 1 \in 1..MaxToken /\ row \in Leases
        BY <2>1, StoresAssumption DEF StoresTypeOK, Leases
    <2>3. QED
        BY <1>1, <2>1, <2>2 DEF StoresTypeOK
<1>4. QED
    BY <1>2, <1>3

LEMMA ReleaseTypes ==
    ASSUME StoresTypeOK, NEW k \in Resources, ReleaseLease(k),
           UNCHANGED <<authVars, fencing, runs, accountVars, vaultVars>>
    PROVE  StoresTypeOK'
BY DEF StoresTypeOK, ReleaseLease, authVars, accountVars, vaultVars

\* A lease for the turn, and what the thread does without one.
LEMMA TakeLeaseStep ==
    ASSUME ChatInv, NEW t \in Threads, Admit(t)
    PROVE  ChatInv'
<1>1. /\ ChatTypeOK /\ Sending(t) /\ thread \in [Threads -> Requests] /\ At(t, "admit")
      /\ UNCHANGED <<server, talks, turns, tombs, asked>>
      /\ UNCHANGED <<authVars, runs, accountVars, vaultVars>>
    BY DEF ChatInv, ChatTypeOK, Admit, talkVars
<1>2. Talk(t) \in Conversations /\ Lease(t) \in Resources /\ RunOf(t) \in Runs
    BY <1>1, ChatAssumption DEF Sending, At, SendPlaces, Lease, Talk
<1>3. StoresTypeOK' /\ leases'[Lease(t)].token \in 0..MaxToken
    BY <1>1, <1>2, AcquireTypes DEF Admit, ChatTypeOK
<1>4. PICK place \in {"kernel", "start"} :
            thread' = [thread EXCEPT ![t].place = place, ![t].token = leases'[Lease(t)].token]
    BY DEF Admit
<1>5. /\ thread' \in [Threads -> Requests] /\ Only(t) /\ thread'[t].place = place
      /\ Talk(t)' = Talk(t) /\ RunOf(t)' = RunOf(t)
    <2> DEFINE p == [thread[t] EXCEPT !.place = place, !.token = leases'[Lease(t)].token]
    <2>1. p \in Requests /\ thread' = [thread EXCEPT ![t] = p]
        BY <1>1, <1>3, <1>4 DEF Requests, SendPlaces
    <2>2. thread' \in [Threads -> Requests] /\ Only(t) /\ thread'[t] = p
        BY <1>1, <2>1, Becomes
    <2>3. QED
        BY <1>1, <2>2 DEF Requests, Talk, RunOf
<1>6. ChatTypeOK'
    BY <1>1, <1>3, <1>5 DEF ChatTypeOK
<1>7. Deleting(t)'
    BY <1>5 DEF Deleting, DeletePlaces
<1>8. Sending(t)'
    BY <1>1, <1>5 DEF At, Sending, SendPlaces, Working, RunOf, Talk, Kept, Blank, LastIs,
                      accountVars, vaultVars
<1>9. QED
    BY <1>1, <1>5, <1>6, <1>7, <1>8, MoveStep DEF At, accountVars, vaultVars

\* The permit and the lease are given back, or the request breaks off.
LEMMA WayOutStep ==
    ASSUME ChatInv, NEW t \in Threads, SettlePermit(t) \/ GiveLeaseBack(t) \/ StoreFails(t)
    PROVE  ChatInv'
<1>1. /\ ChatTypeOK /\ Sending(t) /\ thread \in [Threads -> Requests] /\ ~At(t, "idle")
      /\ UNCHANGED <<server, talks, turns, tombs, asked, authVars, runs, accountVars, vaultVars, fencing>>
    BY DEF ChatInv, ChatTypeOK, SettlePermit, GiveLeaseBack, StoreFails, At, talkVars, storeVars, leaseVars
<1>2. Nowhere \in Requests /\ Nowhere.place = "idle"
    BY StoresAssumption DEF Nowhere, Requests, TurnPermits
<1>3. CASE SettlePermit(t)
    <2>1. PICK permit \in TurnPermits :
                thread' = [thread EXCEPT ![t].place = "release", ![t].permit = permit]
        <3>1. thread[t].permit \in TurnPermits
            BY <1>1 DEF Requests
        <3>2. QED
            BY <1>3, <3>1 DEF SettlePermit, TurnPermits
    <2>2. /\ thread' \in [Threads -> Requests] /\ Only(t) /\ At(t, "release")'
          /\ Talk(t)' = Talk(t) /\ RunOf(t)' = RunOf(t) /\ thread[t].place \in SendPlaces
        <3> DEFINE p == [thread[t] EXCEPT !.place = "release", !.permit = permit]
        <3>1. p \in Requests /\ thread' = [thread EXCEPT ![t] = p]
            BY <1>1, <2>1 DEF Requests, SendPlaces
        <3>2. thread' \in [Threads -> Requests] /\ Only(t) /\ thread'[t] = p
            BY <1>1, <3>1, Becomes
        <3>3. QED
            BY <1>1, <1>3, <3>2 DEF Requests, SendPlaces, Talk, RunOf, SettlePermit, At
    <2>3. ChatTypeOK'
        BY <1>1, <1>3, <2>2 DEF ChatTypeOK, StoresTypeOK, SettlePermit, storeVars, authVars, leaseVars,
                                accountVars, vaultVars
    <2>4. QED
        BY <1>1, <2>2, <2>3, LeaveStep DEF accountVars, vaultVars
<1>4. CASE GiveLeaseBack(t)
    <2>1. thread' \in [Threads -> Requests] /\ Only(t) /\ At(t, "idle")'
        BY <1>1, <1>2, <1>4 DEF GiveLeaseBack, Only, At
    <2>2. Lease(t) \in Resources
        BY <1>1, <1>4, ChatAssumption DEF Sending, GiveLeaseBack, At, SendPlaces, Lease, Talk
    <2>3. StoresTypeOK'
        <3>1. CASE ReleaseLease(Lease(t))
            BY <1>1, <2>2, <3>1, ReleaseTypes DEF ChatTypeOK
        <3>2. CASE leases' = leases
            BY <1>1, <3>2 DEF ChatTypeOK, StoresTypeOK, authVars, accountVars, vaultVars
        <3>3. QED
            BY <1>4, <3>1, <3>2 DEF GiveLeaseBack
    <2>4. ChatTypeOK'
        BY <1>1, <2>1, <2>3 DEF ChatTypeOK
    <2>5. QED
        BY <1>1, <2>1, <2>4, LeaveStep DEF accountVars, vaultVars
<1>5. CASE StoreFails(t)
    <2>1. /\ thread' \in [Threads -> Requests] /\ Only(t)
          /\ \/ At(t, "idle")'
             \/ At(t, "settle")' /\ Talk(t)' = Talk(t) /\ RunOf(t)' = RunOf(t) /\ thread[t].token # 0
        <3>1. CASE thread[t].token = 0
            BY <1>1, <1>2, <1>5, <3>1 DEF StoreFails, Only, At
        <3>2. CASE thread[t].token # 0
            <4>1. thread' = [thread EXCEPT ![t].place = "settle", ![t].out = "raised"]
                BY <1>5, <3>2 DEF StoreFails
            <4> DEFINE p == [thread[t] EXCEPT !.place = "settle", !.out = "raised"]
            <4>2. p \in Requests /\ thread' = [thread EXCEPT ![t] = p]
                BY <1>1, <4>1 DEF Requests, SendPlaces
            <4>3. thread' \in [Threads -> Requests] /\ Only(t) /\ thread'[t] = p
                BY <1>1, <4>2, Becomes
            <4>4. QED
                BY <1>1, <3>2, <4>3 DEF Requests, Talk, RunOf, At
        <3>3. QED
            BY <3>1, <3>2
    <2>2. ChatTypeOK'
        BY <1>1, <1>5, <2>1 DEF ChatTypeOK, StoresTypeOK, StoreFails, storeVars, authVars, leaseVars,
                                accountVars, vaultVars
    <2>3. thread[t].token # 0 => thread[t].place \in SendPlaces
        BY <1>1 DEF ChatInv, Deleting, Requests, At
    <2>4. QED
        BY <1>1, <2>1, <2>2, <2>3, LeaveStep DEF accountVars, vaultVars
<1>6. QED
    BY <1>3, <1>4, <1>5

\* The records of the other runs stay.
OtherRunsKept(r) ==
    \A q \in Runs \ {r} :
        /\ runs'[q] = runs[q] /\ invocations'[q] = invocations[q]
        /\ files'[q] = files[q] /\ captures'[q] = captures[q]

\* The calls of the stores between admission and the end of the turn.
LEMMA RecordingStep ==
    ASSUME ChatInv, NEW t \in Threads, NEW r, r = RunOf(t), NEW seen, seen = thread[t].seen,
           NEW from, from = thread[t].place,
           \/ StartDispatch(t) \/ AccountDispatch(t) \/ WriteReply(t) \/ CaptureReply(t)
           \/ ObserveReply(t) \/ CloseAccount(t) \/ FinishDispatch(t)
    PROVE  ChatInv'
<1>1. /\ ChatTypeOK /\ StoresTypeOK /\ Sending(t) /\ thread[t] \in Requests /\ RunSound(r)
      /\ from \in {"start", "account", "file", "capture", "observe", "terminal", "finish"}
      /\ r \in Runs /\ Talk(t) \in Conversations /\ turns[r] = "created"
      /\ UNCHANGED <<server, talks, turns, tombs, asked, authVars, leaseVars>>
    BY DEF ChatInv, ChatTypeOK, Sending, SendPlaces, Working, StartDispatch, AccountDispatch, WriteReply,
           CaptureReply, ObserveReply, CloseAccount, FinishDispatch, At, talkVars
<1>2. /\ from \in {"file", "capture", "observe", "terminal", "finish"} => seen \in Observations
      /\ from \in {"file", "capture"} => seen.answer \in Answers
      /\ ReplyStatus(t) \in Results
    BY <1>1 DEF Sending, SendPlaces, Observations, ReplyStatus, Results
<1>3. PICK place \in {"account", "transport", "capture", "observe", "terminal", "finish", "close"} :
            Step(t, place)
    BY DEF StartDispatch, AccountDispatch, WriteReply, CaptureReply, ObserveReply, CloseAccount, FinishDispatch
<1>4. /\ thread' \in [Threads -> Requests] /\ Only(t) /\ At(t, place)'
      /\ Talk(t)' = Talk(t) /\ RunOf(t)' = r /\ thread'[t].seen = seen /\ ReplyStatus(t)' = ReplyStatus(t)
    BY <1>1, <1>3, StepTo DEF SendPlaces, ReplyStatus
<1>5. ASSUME StoresTypeOK', OtherRunsKept(r), Sending(t)'
      PROVE  ChatInv'
    <2>1. ChatTypeOK'
        BY <1>1, <1>4, <1>5 DEF ChatTypeOK
    <2>2. Deleting(t)'
        BY <1>3, <1>4 DEF Deleting, DeletePlaces, At
    <2>3. thread[t].place \in SendPlaces
        BY <1>1 DEF SendPlaces
    <2>4. RunSound(r)'
        <3>1. asked[r] = Talk(t) /\ Talk(t) # None
            BY <1>1, ChatAssumption DEF Sending, SendPlaces
        <3>2. QED
            BY <1>1, <3>1, NoTalkAssumption DEF RunSound, TurnStates
    <2>5. QED
        BY <1>1, <1>4, <1>5, <2>1, <2>2, <2>3, <2>4, TurnStep DEF OtherRunsKept
<1>6. CASE StartDispatch(t)
    <2>1. /\ from = "start" /\ At(t, "account")' /\ Blank(r)
          /\ runs' = [runs EXCEPT ![r] = "dispatched"]
          /\ UNCHANGED <<invocations, outbox, files, captures>>
        BY <1>1, <1>4, <1>6 DEF StartDispatch, StartRun, At, Step, Sending, SendPlaces, accountVars, vaultVars,
               ChatTypeOK
    <2>2. StoresTypeOK' /\ OtherRunsKept(r) /\ runs'[r] = "dispatched"
        BY <1>1, <2>1 DEF StoresTypeOK, OtherRunsKept, authVars, leaseVars
    <2>3. Sending(t)'
        BY <1>1, <1>4, <2>1, <2>2 DEF Sending, SendPlaces, Working, Talk, Kept, Blank, LastIs, At
    <2>4. QED
        BY <1>5, <2>2, <2>3
<1>7. CASE AccountDispatch(t)
    <2>1. /\ from = "account" /\ At(t, "transport")' /\ invocations[r] = None
          /\ invocations' = [invocations EXCEPT ![r] = Open]
          /\ UNCHANGED <<runs, outbox, files, captures>>
        <3>1. from = "account" /\ RecordDispatch(r) /\ UNCHANGED <<runs, outbox, files, captures>>
            BY <1>7 DEF AccountDispatch, At, vaultVars
        <3>2. invocations[r] = None
            BY <1>1, <3>1 DEF Sending, SendPlaces
        <3>3. At(t, "transport")'
            BY <1>1, <1>4, <1>7 DEF AccountDispatch, At, Step, ChatTypeOK
        <3>4. QED
            BY <3>1, <3>2, <3>3 DEF RecordDispatch, Open
    <2>2. StoresTypeOK' /\ OtherRunsKept(r) /\ invocations'[r] = Open
        BY <1>1, <1>2, <2>1 DEF StoresTypeOK, OtherRunsKept, authVars, leaseVars, Open, Invocations
    <2>3. Sending(t)'
        BY <1>1, <1>2, <1>4, <2>1, <2>2 DEF Sending, SendPlaces, Working, Talk, Kept, LastIs, At,
               Observations
    <2>4. QED
        BY <1>5, <2>2, <2>3
<1>8. CASE WriteReply(t)
    <2>1. /\ from = "file" /\ At(t, "capture")'
          /\ files' = [files EXCEPT ![r] = seen.answer]
          /\ UNCHANGED <<runs, invocations, outbox, captures>>
        BY <1>1, <1>2, <1>4, <1>8 DEF WriteReply, WriteOnce, At, Step, Sending, SendPlaces, accountVars, vaultVars,
               Open, ReplyStatus, ChatTypeOK
    <2>2. StoresTypeOK' /\ OtherRunsKept(r) /\ files'[r] = seen.answer
        BY <1>1, <1>2, <2>1 DEF StoresTypeOK, OtherRunsKept, authVars, leaseVars
    <2>3. Sending(t)'
        BY <1>1, <1>2, <1>4, <2>1, <2>2 DEF Sending, SendPlaces, Working, Talk, Kept, LastIs, At,
               Observations
    <2>4. QED
        BY <1>5, <2>2, <2>3
<1>9. CASE CaptureReply(t)
    <2>1. /\ from = "capture" /\ At(t, "observe")'
          /\ captures' = [captures EXCEPT ![r] = seen.answer]
          /\ UNCHANGED <<runs, invocations, outbox, files>>
        BY <1>1, <1>2, <1>4, <1>9 DEF CaptureReply, Capture, At, Step, Sending, SendPlaces, accountVars, vaultVars,
               Open, ReplyStatus, ChatTypeOK
    <2>2. StoresTypeOK' /\ OtherRunsKept(r) /\ captures'[r] = seen.answer
        BY <1>1, <1>2, <2>1 DEF StoresTypeOK, OtherRunsKept, authVars, leaseVars
    <2>3. Sending(t)'
        BY <1>1, <1>2, <1>4, <2>1, <2>2 DEF Sending, SendPlaces, Working, Talk, Kept, LastIs, At,
               Observations
    <2>4. QED
        BY <1>5, <2>2, <2>3
<1>10. CASE ObserveReply(t)
    <2> DEFINE row == [seen |-> seen, status |-> None]
    <2>1. /\ from = "observe" /\ At(t, "terminal")' /\ invocations[r] = Open
          /\ invocations' = [invocations EXCEPT ![r].seen = seen]
          /\ UNCHANGED <<runs, outbox, files, captures>>
        <3>1. from = "observe" /\ RecordObservation(r, seen) /\ UNCHANGED <<runs, outbox, files, captures>>
            BY <1>10 DEF ObserveReply, At, vaultVars
        <3>2. invocations[r] = Open
            BY <1>1, <3>1 DEF Sending, SendPlaces
        <3>3. At(t, "terminal")'
            BY <1>1, <1>4, <1>10 DEF ObserveReply, At, Step, ChatTypeOK
        <3>4. QED
            BY <3>1, <3>2, <3>3 DEF RecordObservation
    <2>2. row \in Invocations /\ invocations' = [invocations EXCEPT ![r] = row]
        <3>1. row \in Invocations
            BY <1>2, <2>1 DEF Invocations
        <3>2. [invocations[r] EXCEPT !.seen = seen] = row
            BY <2>1 DEF Open
        <3>3. QED
            BY <2>1, <3>1, <3>2
    <2>3. invocations' \in [Runs -> Invocations \cup {None}] /\ invocations'[r] = row
          /\ \A q \in Runs \ {r} : invocations'[q] = invocations[q]
        <3> HIDE DEF row
        <3>1. QED
            BY <1>1, <2>2 DEF StoresTypeOK
    <2>4. StoresTypeOK' /\ OtherRunsKept(r)
        BY <1>1, <2>1, <2>2, <2>3 DEF StoresTypeOK, OtherRunsKept, authVars, leaseVars
    <2>5. Sending(t)'
        BY <1>1, <1>2, <1>4, <2>1, <2>3, <2>4 DEF Sending, SendPlaces, Working, Talk, Kept, LastIs, At
    <2>6. QED
        BY <1>5, <2>4, <2>5
<1>11. CASE CloseAccount(t)
    <2> DEFINE row == [seen |-> seen, status |-> ReplyStatus(t)]
               post == [status |-> ReplyStatus(t), seen |-> seen]
    <2>1. /\ from = "terminal" /\ At(t, "finish")' /\ invocations[r] = [seen |-> seen, status |-> None]
          /\ RecordTerminal(r, ReplyStatus(t))
          /\ UNCHANGED <<runs, files, captures>>
        BY <1>1, <1>4, <1>11 DEF CloseAccount, At, Step, Sending, SendPlaces, vaultVars,
               ChatTypeOK
    <2>2. /\ row \in Invocations /\ invocations' = [invocations EXCEPT ![r] = row]
          /\ post \in Posts /\ outbox' \in [Runs -> Posts \cup {None}]
        <3>1. row \in Invocations /\ post \in Posts
            <4>1. seen \in Observations /\ ReplyStatus(t) \in Results
                BY <1>2, <2>1
            <4>2. QED
                BY <4>1 DEF Invocations, Posts
        <3>2. [invocations[r] EXCEPT !.status = ReplyStatus(t)] = row /\ invocations[r].seen = seen
            BY <2>1
        <3>3. outbox' = [outbox EXCEPT ![r] = IF @ = None THEN post ELSE @]
            BY <2>1, <3>2 DEF RecordTerminal
        <3>4. outbox' \in [Runs -> Posts \cup {None}]
            BY <1>1, <3>1, <3>3 DEF StoresTypeOK
        <3>5. invocations' = [invocations EXCEPT ![r] = row]
            BY <2>1, <3>2 DEF RecordTerminal
        <3>6. QED
            BY <3>1, <3>4, <3>5
    <2>3. invocations' \in [Runs -> Invocations \cup {None}] /\ invocations'[r] = row
          /\ \A q \in Runs \ {r} : invocations'[q] = invocations[q]
        <3> HIDE DEF row
        <3>1. QED
            BY <1>1, <2>2 DEF StoresTypeOK
    <2>4. StoresTypeOK' /\ OtherRunsKept(r)
        BY <1>1, <2>1, <2>2, <2>3 DEF StoresTypeOK, OtherRunsKept, authVars, leaseVars
    <2>5. Sending(t)'
        BY <1>1, <1>2, <1>4, <2>1, <2>3, <2>4 DEF Sending, SendPlaces, Working, Talk, Kept, LastIs, At
    <2>6. QED
        BY <1>5, <2>4, <2>5
<1>12. CASE FinishDispatch(t)
    <2>1. /\ from = "finish" /\ At(t, "close")'
          /\ runs' = [runs EXCEPT ![r] = ReplyStatus(t)]
          /\ UNCHANGED <<invocations, outbox, files, captures>>
        BY <1>1, <1>2, <1>4, <1>12 DEF FinishDispatch, FinishRun, At, Step, Sending, SendPlaces, accountVars, vaultVars,
               Open, ReplyStatus, ChatTypeOK
    <2>2. StoresTypeOK' /\ OtherRunsKept(r) /\ runs'[r] = ReplyStatus(t)
        BY <1>1, <1>2, <2>1 DEF StoresTypeOK, OtherRunsKept, authVars, leaseVars
    <2>3. Sending(t)'
        BY <1>1, <1>2, <1>4, <2>1, <2>2 DEF Sending, SendPlaces, Working, Talk, Kept, LastIs, At,
               Observations
    <2>4. QED
        BY <1>5, <2>2, <2>3
<1>13. QED
    BY <1>6, <1>7, <1>8, <1>9, <1>10, <1>11, <1>12

(***************************************************************************)
(* The steps that write a transcript or end a turn.                        *)
(***************************************************************************)

\* A message goes to the end of its conversation.
LEMMA Said ==
    ASSUME ChatTypeOK, NEW k \in Conversations, Kept(k), NEW role \in {"user", "assistant"},
           NEW r \in Runs, Say(k, role, r)
    PROVE  LET old == talks[k].messages  new == talks'[k].messages IN
           /\ talks' \in [Conversations -> Talks \cup {None, Gone}] /\ Kept(k)'
           /\ \A c \in Conversations \ {k} : talks'[c] = talks[c]
           /\ old \in Seq(Messages) /\ new \in Seq(Messages)
           /\ Len(new) = Len(old) + 1
           /\ DOMAIN old = 1..Len(old) /\ DOMAIN new = 1..Len(old) + 1
           /\ \A n \in 1..Len(old) : new[n] = old[n]
           /\ new[Len(old) + 1] = [role |-> role, run |-> r]
<1> DEFINE message == [role |-> role, run |-> r]
           old == talks[k].messages
           new == Append(old, message)
           talk == [talks[k] EXCEPT !.messages = new]
<1>1. /\ talks[k] \in Talks /\ old \in Seq(Messages) /\ message \in Messages
      /\ talks \in [Conversations -> Talks \cup {None, Gone}]
    BY DEF ChatTypeOK, Kept, Talks, Messages
<1>2. talks' = [talks EXCEPT ![k] = talk]
    BY <1>1 DEF Say
<1> HIDE DEF message
<1>3. /\ new \in Seq(Messages) /\ Len(new) = Len(old) + 1
      /\ DOMAIN old = 1..Len(old) /\ DOMAIN new = 1..Len(old) + 1
      /\ \A n \in 1..Len(old) : new[n] = old[n]
      /\ new[Len(old) + 1] = message
    BY <1>1, AppendProperties, LenProperties
<1> HIDE DEF old, new
<1>4. talk \in Talks /\ talk.messages = new
    BY <1>1, <1>3 DEF Talks
<1>5. talks' \in [Conversations -> Talks \cup {None, Gone}] /\ talks'[k] = talk
      /\ \A c \in Conversations \ {k} : talks'[c] = talks[c]
    <2> HIDE DEF talk
    <2>1. QED
        BY <1>1, <1>2, <1>4
<1>6. Kept(k)'
    BY <1>4, <1>5, NoTalkAssumption DEF Kept
<1>7. QED
    BY <1>1, <1>3, <1>4, <1>5, <1>6 DEF old, message

\* A turn that does not end in a message leaves the transcripts sound.
LEMMA SilentTurn ==
    ASSUME NEW k, TalkSound(k), NEW r \in Runs, NEW state,
           turns \in [Runs -> TurnStates \cup {None}],
           turns[r] # "completed", state # "completed", asked[r] = k, Kept(k),
           EndTurn(r, state), UNCHANGED <<talks, asked>>
    PROVE  TalkSound(k)'
<1>1. TranscriptSound(k) /\ Kept(k)'
    BY DEF TalkSound, Kept
<1>2. \A q \in Runs : turns'[q] = "completed" <=> turns[q] = "completed"
    BY DEF EndTurn
<1>3. \A q : q # r => turns'[q] = turns[q]
    BY DEF EndTurn
<1>4. TranscriptSound(k)'
    BY <1>1, <1>2, <1>3 DEF TranscriptSound
<1>5. QED
    BY <1>1, <1>4 DEF TalkSound, Kept

LEMMA AppendStep ==
    ASSUME ChatInv, NEW t \in Threads, AppendUser(t)
    PROVE  ChatInv'
<1>1. /\ ChatTypeOK /\ Sending(t) /\ thread \in [Threads -> Requests] /\ At(t, "append") /\ Kept(Talk(t))
      /\ UNCHANGED <<storeVars, server, turns, tombs, asked>>
      /\ ~At(t, "idle") /\ TalkSound(Talk(t)) /\ Talk(t) \in Conversations
      /\ RunOf(t) \in Runs /\ turns[RunOf(t)] = None /\ Blank(RunOf(t)) /\ asked[RunOf(t)] = Talk(t)
    BY DEF ChatInv, ChatTypeOK, AppendUser, At, Sending, SendPlaces
<1>2. UNCHANGED <<authority, refs, leases, fencing, runs, invocations, outbox, files, captures>>
    BY <1>1 DEF storeVars, authVars, leaseVars, accountVars, vaultVars
<1>3. CASE talks[Talk(t)].archived
    <2>1. Step(t, "idle") /\ talks' = talks
        BY <1>3 DEF AppendUser
    <2>2. thread' \in [Threads -> Requests] /\ Only(t) /\ At(t, "idle")'
        BY <1>1, <2>1, StepTo
    <2>3. ChatTypeOK'
        BY <1>1, <1>2, <2>1, <2>2 DEF ChatTypeOK, StoresTypeOK
    <2>4. QED
        BY <1>1, <1>2, <2>1, <2>2, <2>3, LeaveStep
<1>4. CASE ~talks[Talk(t)].archived
    <2>1. PICK r \in Runs, k \in Conversations : r = RunOf(t) /\ k = Talk(t)
        BY <1>1
    <2>2. Step(t, "turn") /\ Say(k, "user", r)
        BY <1>4, <2>1 DEF AppendUser
    <2>3. /\ thread' \in [Threads -> Requests] /\ Only(t) /\ At(t, "turn")'
          /\ Talk(t)' = k /\ RunOf(t)' = r
        BY <1>1, <2>1, <2>2, StepTo DEF SendPlaces
    <2> DEFINE old == talks[k].messages
               new == talks'[k].messages
    <2>4. /\ talks' \in [Conversations -> Talks \cup {None, Gone}] /\ Kept(k)'
          /\ \A c \in Conversations \ {k} : talks'[c] = talks[c]
          /\ Len(new) = Len(old) + 1 /\ Len(old) \in Nat
          /\ DOMAIN old = 1..Len(old) /\ DOMAIN new = 1..Len(old) + 1
          /\ \A n \in 1..Len(old) : new[n] = old[n]
          /\ new[Len(old) + 1] = Question(r)
        BY <1>1, <2>1, <2>2, Said, LenProperties DEF Question
    <2>5. ChatTypeOK'
        BY <1>1, <1>2, <2>3, <2>4 DEF ChatTypeOK, StoresTypeOK
    <2>6. TalkSound(k)'
        <3>1. TranscriptSound(k) /\ turns' = turns /\ asked' = asked /\ asked[r] = k
            BY <1>1, <2>1 DEF TalkSound
        <3> HIDE DEF old, new
        <3>2. \A n \in DOMAIN new : asked[new[n].run] = k
            BY <2>4, <3>1 DEF TranscriptSound, old, Question
        <3>3. \A n \in DOMAIN new : new[n].role = "assistant" => n \in DOMAIN old /\ new[n] = old[n]
            BY <2>4 DEF Question
        <3>4. \A n \in DOMAIN new : new[n].role = "assistant" =>
                /\ turns[new[n].run] = "completed"
                /\ n > 1 /\ new[n - 1] = Question(new[n].run)
            <4>1. SUFFICES ASSUME NEW n \in DOMAIN new, new[n].role = "assistant"
                           PROVE  /\ turns[new[n].run] = "completed"
                                  /\ n > 1 /\ new[n - 1] = Question(new[n].run)
                OBVIOUS
            <4>2. n \in DOMAIN old /\ new[n] = old[n]
                BY <3>3, <4>1
            <4>3. /\ turns[old[n].run] = "completed"
                  /\ n > 1 /\ old[n - 1] = Question(old[n].run)
                BY <3>1, <4>1, <4>2 DEF TranscriptSound, old
            <4>4. new[n - 1] = old[n - 1]
                BY <2>4, <4>2, <4>3
            <4>5. QED
                BY <4>2, <4>3, <4>4
        <3>5. \A n, o \in DOMAIN new : new[n].role = "assistant" /\ new[o] = new[n] => n = o
            BY <3>1, <3>3 DEF TranscriptSound, old
        <3>6. \A q \in Runs : asked[q] = k /\ turns[q] = "completed" =>
                \E n \in DOMAIN new : new[n] = ReplyOf(q)
            BY <2>4, <3>1 DEF TranscriptSound, old
        <3>7. TranscriptSound(k)'
            BY <3>1, <3>2, <3>4, <3>5, <3>6 DEF TranscriptSound, new, Question, ReplyOf
        <3>8. QED
            BY <2>4, <3>7 DEF TalkSound, Kept
    <2>7. Sending(t)'
        BY <1>1, <1>2, <2>1, <2>3, <2>4
        DEF Sending, SendPlaces, Working, At, Kept, Blank, LastIs
    <2>8. Deleting(t)'
        BY <2>3 DEF Deleting, DeletePlaces, At
    <2>9. Within(k)
        BY <1>1, <1>2, <2>4 DEF Within
    <2>10. \A q \in Runs : RunSound(q)'
        BY <1>1, <1>2 DEF ChatInv, RunSound, Blank
    <2>11. QED
        BY <1>1, <2>1, <2>3, <2>5, <2>6, <2>7, <2>8, <2>9, <2>10, TalkStep
<1>5. QED
    BY <1>3, <1>4

\* The row of the turn, and the refusal of a turn that has one.
LEMMA SilentStep ==
    ASSUME ChatInv, NEW t \in Threads, StartTurn(t) \/ RefuseTurn(t)
    PROVE  ChatInv'
<1>1. /\ ChatTypeOK /\ Sending(t) /\ thread \in [Threads -> Requests] /\ thread[t].place \in {"turn", "refuse"}
      /\ UNCHANGED <<storeVars, server, talks, tombs, asked>>
      /\ ~At(t, "idle") /\ TalkSound(Talk(t)) /\ Talk(t) \in Conversations /\ Kept(Talk(t))
      /\ RunOf(t) \in Runs /\ Blank(RunOf(t)) /\ asked[RunOf(t)] = Talk(t)
      /\ LastIs(Talk(t), Question(RunOf(t)))
    BY DEF ChatInv, ChatTypeOK, StartTurn, RefuseTurn, At, Sending, SendPlaces, Working
<1>2. UNCHANGED <<authority, refs, leases, fencing, runs, invocations, outbox, files, captures>>
    BY <1>1 DEF storeVars, authVars, leaseVars, accountVars, vaultVars
<1>3. PICK r \in Runs, k \in Conversations : r = RunOf(t) /\ k = Talk(t)
    BY <1>1
<1>4. PICK state \in {"created", "refused_before_network"} :
        /\ EndTurn(r, state) /\ turns[r] # "completed"
        /\ state = "created" => StartTurn(t)
        /\ state = "refused_before_network" => RefuseTurn(t)
    BY <1>3, NoTalkAssumption DEF StartTurn, RefuseTurn, EndTurn, TurnStates
<1>5. /\ thread' \in [Threads -> Requests] /\ Only(t) /\ thread'[t].place \in {"estimate", "release", "idle"}
      /\ state # "created" => thread'[t].place # "estimate"
      /\ Talk(t)' = k /\ RunOf(t)' = r
    <2>1. CASE state = "created"
        <3>1. Step(t, "estimate")
            BY <1>4, <2>1 DEF StartTurn
        <3>2. QED
            BY <1>1, <1>3, <2>1, <3>1, StepTo DEF SendPlaces, At
    <2>2. CASE state = "refused_before_network"
        <3>1. PICK place \in {"idle", "release"} :
                thread' = [thread EXCEPT ![t].place = place, ![t].out = "refused"]
            BY <1>4, <2>2 DEF RefuseTurn
        <3> DEFINE p == [thread[t] EXCEPT !.place = place, !.out = "refused"]
        <3>2. p \in Requests /\ thread' = [thread EXCEPT ![t] = p]
            BY <1>1, <3>1 DEF Requests, SendPlaces
        <3>3. thread' \in [Threads -> Requests] /\ Only(t) /\ thread'[t] = p
            BY <1>1, <3>2, Becomes
        <3>4. QED
            BY <1>1, <1>3, <3>3 DEF Requests, Talk, RunOf
    <2>3. QED
        BY <2>1, <2>2
<1>6. turns' \in [Runs -> TurnStates \cup {None}] /\ turns'[r] = state
      /\ \A q \in Runs \ {r} : turns'[q] = turns[q]
    BY <1>1, <1>4 DEF ChatTypeOK, EndTurn, TurnStates
<1>7. ChatTypeOK'
    BY <1>1, <1>2, <1>5, <1>6 DEF ChatTypeOK, StoresTypeOK
<1>8. TalkSound(k)'
    BY <1>1, <1>3, <1>4, SilentTurn DEF ChatTypeOK
<1>9. Sending(t)'
    BY <1>1, <1>2, <1>3, <1>4, <1>5, <1>6 DEF Sending, SendPlaces, Working, Kept, Blank, LastIs
<1>10. Deleting(t)'
    BY <1>5 DEF Deleting, DeletePlaces
<1>11. Within(k)
    BY <1>1, <1>2, <1>3, <1>6 DEF Within
<1>12. \A q \in Runs : RunSound(q)'
    <2>1. \A q \in Runs : RunSound(q)
        BY DEF ChatInv
    <2>2. RunSound(r)'
        <3>1. asked[r] # None /\ files[r] = None
            BY <1>1, <1>3, ChatAssumption DEF Blank
        <3>2. QED
            BY <1>1, <1>2, <1>6, <3>1 DEF RunSound
    <2>3. \A q \in Runs \ {r} : RunSound(q)'
        BY <1>1, <1>2, <1>6, <2>1 DEF RunSound, Blank
    <2>4. QED
        BY <2>2, <2>3
<1>13. QED
    BY <1>1, <1>3, <1>5, <1>7, <1>8, <1>9, <1>10, <1>11, <1>12, TalkStep DEF At

\* The reply, or the failure in its place.
LEMMA CloseStepKeeps ==
    ASSUME ChatInv, NEW t \in Threads, CloseTurn(t)
    PROVE  ChatInv'
<1>1. /\ ChatTypeOK /\ Sending(t) /\ thread \in [Threads -> Requests] /\ At(t, "close")
      /\ UNCHANGED <<storeVars, server, tombs, asked>>
      /\ ~At(t, "idle") /\ TalkSound(Talk(t)) /\ Talk(t) \in Conversations /\ Kept(Talk(t))
      /\ RunOf(t) \in Runs /\ asked[RunOf(t)] = Talk(t) /\ turns[RunOf(t)] = "created"
      /\ LastIs(Talk(t), Question(RunOf(t)))
    BY DEF ChatInv, ChatTypeOK, CloseTurn, At, Sending, SendPlaces, Working
<1>2. UNCHANGED <<authority, refs, leases, fencing, runs, invocations, outbox, files, captures>>
    BY <1>1 DEF storeVars, authVars, leaseVars, accountVars, vaultVars
<1>3. PICK r \in Runs, k \in Conversations : r = RunOf(t) /\ k = Talk(t)
    BY <1>1
<1>4. PICK seen \in Observations : seen = thread[t].seen
    BY <1>1 DEF Sending, SendPlaces, At
<1>5. /\ files[r] = seen.answer /\ captures[r] = seen.answer /\ runs[r] = ReplyStatus(t)
      /\ invocations[r] = [seen |-> seen, status |-> ReplyStatus(t)]
    BY <1>1, <1>3, <1>4 DEF Sending, SendPlaces, At
<1>6. PICK state \in {"completed", "failed_after_dispatch"} :
        /\ turns' = [turns EXCEPT ![r] = state]
        /\ state = "completed" => seen.answer = "good" /\ Say(k, "assistant", r)
        /\ state = "failed_after_dispatch" => talks' = talks
    BY <1>3, <1>4 DEF CloseTurn, EndTurn, Shown
<1>7. turns' \in [Runs -> TurnStates \cup {None}] /\ turns'[r] = state
      /\ \A q \in Runs \ {r} : turns'[q] = turns[q]
    BY <1>1, <1>6 DEF ChatTypeOK, TurnStates
<1>8. /\ thread' \in [Threads -> Requests] /\ Only(t) /\ At(t, "settle")'
      /\ Talk(t)' = k /\ RunOf(t)' = r
    <2>1. thread' = [thread EXCEPT ![t].place = "settle", ![t].out = state]
        BY <1>3, <1>7 DEF CloseTurn
    <2> DEFINE p == [thread[t] EXCEPT !.place = "settle", !.out = state]
    <2>2. p \in Requests /\ thread' = [thread EXCEPT ![t] = p]
        BY <1>1, <2>1 DEF Requests, SendPlaces, TurnStates
    <2>3. thread' \in [Threads -> Requests] /\ Only(t) /\ thread'[t] = p
        BY <1>1, <2>2, Becomes
    <2>4. QED
        BY <1>1, <1>3, <2>3 DEF Requests, Talk, RunOf, At
<1>9. RunSound(r)'
    <2>1. asked[r] # None
        BY <1>1, <1>3, ChatAssumption
    <2>2. CASE state = "completed"
        <3>1. seen.answer = "good" /\ ReplyStatus(t) = "success"
            BY <1>4, <1>6, <2>2 DEF ReplyStatus
        <3>2. /\ runs'[r] = "success" /\ captures'[r] = "good" /\ files'[r] = "good"
              /\ invocations'[r] = [seen |-> seen, status |-> "success"]
            BY <1>2, <1>5, <3>1
        <3>3. invocations'[r] # None /\ invocations'[r].status = "success"
            <4>1. [seen |-> seen, status |-> "success"] \in Invocations
                BY DEF Invocations, Results
            <4>2. QED
                BY <3>2, <4>1, NothingAssumption
        <3>4. turns'[r] # None /\ asked'[r] # None
            BY <1>1, <1>7, <2>1, <2>2, NoTalkAssumption DEF TurnStates
        <3>5. QED
            BY <1>7, <2>2, <3>2, <3>3, <3>4 DEF RunSound
    <2>3. CASE state = "failed_after_dispatch"
        BY <1>1, <1>2, <1>5, <1>7, <2>1, <2>3, NoTalkAssumption DEF RunSound, TurnStates
    <2>4. QED
        BY <2>2, <2>3
<1>10. \A q \in Runs : RunSound(q)'
    <2>1. \A q \in Runs : RunSound(q)
        BY DEF ChatInv
    <2>2. QED
        BY <1>1, <1>2, <1>7, <1>9, <2>1 DEF RunSound, Blank
<1>11. Deleting(t)'
    BY <1>8 DEF Deleting, DeletePlaces, At
<1>12. ASSUME talks' \in [Conversations -> Talks \cup {None, Gone}], Kept(k)',
              \A c \in Conversations \ {k} : talks'[c] = talks[c], TalkSound(k)'
       PROVE  ChatInv'
    <2>1. ChatTypeOK'
        BY <1>1, <1>2, <1>7, <1>8, <1>12 DEF ChatTypeOK, StoresTypeOK
    <2>2. Sending(t)'
        BY <1>1, <1>3, <1>8, <1>12 DEF Sending, SendPlaces, Working, At
    <2>3. Within(k)
        BY <1>1, <1>2, <1>3, <1>7, <1>12 DEF Within
    <2>4. QED
        BY <1>1, <1>3, <1>8, <1>10, <1>11, <1>12, <2>1, <2>2, <2>3, TalkStep
<1>13. CASE state = "failed_after_dispatch"
    <2>1. EndTurn(r, state) /\ talks' = talks /\ turns[r] # "completed" /\ asked[r] = k /\ Kept(k)
        BY <1>1, <1>3, <1>6, <1>13 DEF EndTurn
    <2>2. TalkSound(k)'
        BY <1>1, <1>3, <1>13, <2>1, SilentTurn DEF ChatTypeOK
    <2>3. QED
        BY <1>1, <1>12, <2>1, <2>2 DEF ChatTypeOK, Kept
<1>14. CASE state = "completed"
    <2> DEFINE old == talks[k].messages
               new == talks'[k].messages
    <2>1. /\ talks' \in [Conversations -> Talks \cup {None, Gone}] /\ Kept(k)'
          /\ \A c \in Conversations \ {k} : talks'[c] = talks[c]
          /\ old \in Seq(Messages) /\ Len(new) = Len(old) + 1 /\ Len(old) \in Nat
          /\ DOMAIN old = 1..Len(old) /\ DOMAIN new = 1..Len(old) + 1
          /\ \A n \in 1..Len(old) : new[n] = old[n]
          /\ new[Len(old) + 1] = ReplyOf(r)
        BY <1>1, <1>3, <1>6, <1>14, Said, LenProperties DEF ReplyOf
    <2>2. TranscriptSound(k) /\ Len(old) > 0 /\ old[Len(old)] = Question(r) /\ asked[r] = k
        BY <1>1, <1>3 DEF TalkSound, LastIs
    <2> HIDE DEF old, new
    <2>3. \A n \in DOMAIN old : old[n].run \in Runs
        <3>1. SUFFICES ASSUME NEW n \in DOMAIN old PROVE old[n].run \in Runs
            OBVIOUS
        <3>2. old[n] \in Messages
            BY <2>1, ElementOfSeq
        <3>3. QED
            BY <3>2 DEF Messages
    <2>4. \A n \in DOMAIN old : old[n].role = "assistant" =>
            /\ turns[old[n].run] = "completed" /\ old[n].run # r
            /\ n > 1 /\ old[n - 1] = Question(old[n].run)
        BY <1>1, <1>3, <2>2 DEF TranscriptSound, old
    <2>5. \A n \in DOMAIN new : asked[new[n].run] = k
        <3>1. \A n \in DOMAIN old : asked[old[n].run] = k
            BY <2>2 DEF TranscriptSound, old
        <3>2. ReplyOf(r).run = r
            BY DEF ReplyOf
        <3>3. ASSUME NEW n \in DOMAIN new PROVE asked[new[n].run] = k
            <4>1. n \in DOMAIN old \/ n = Len(old) + 1
                BY <2>1
            <4>2. CASE n \in DOMAIN old
                BY <2>1, <3>1, <4>2
            <4>3. CASE n = Len(old) + 1
                BY <2>1, <2>2, <3>2, <4>3
            <4>4. QED
                BY <4>1, <4>2, <4>3
        <3>4. QED
            BY <3>3
    <2>6. \A n \in DOMAIN new : new[n].role = "assistant" =>
            /\ turns'[new[n].run] = "completed"
            /\ n > 1 /\ new[n - 1] = Question(new[n].run)
        <3>1. SUFFICES ASSUME NEW n \in DOMAIN new, new[n].role = "assistant"
                       PROVE  /\ turns'[new[n].run] = "completed"
                              /\ n > 1 /\ new[n - 1] = Question(new[n].run)
            OBVIOUS
        <3>2. CASE n = Len(old) + 1
            <4>1. new[n] = ReplyOf(r) /\ n - 1 = Len(old) /\ new[n - 1] = old[Len(old)]
                BY <2>1, <2>2, <3>2
            <4>2. QED
                BY <1>7, <1>14, <2>1, <2>2, <3>2, <4>1 DEF ReplyOf
        <3>3. CASE n \in DOMAIN old
            <4>1. new[n] = old[n]
                BY <2>1, <3>3
            <4>2. /\ turns[old[n].run] = "completed" /\ old[n].run \in Runs \ {r}
                  /\ n > 1 /\ old[n - 1] = Question(old[n].run)
                BY <2>3, <2>4, <3>1, <3>3, <4>1
            <4>3. new[n - 1] = old[n - 1]
                BY <2>1, <3>3, <4>2
            <4>4. QED
                BY <1>7, <4>1, <4>2, <4>3
        <3>4. QED
            BY <2>1, <3>2, <3>3
    <2>7. \A n, o \in DOMAIN new : new[n].role = "assistant" /\ new[o] = new[n] => n = o
        <3>1. SUFFICES ASSUME NEW n \in DOMAIN new, NEW o \in DOMAIN new,
                              new[n].role = "assistant", new[o] = new[n]
                       PROVE  n = o
            OBVIOUS
        <3>2. \A i \in DOMAIN old : new[i] = old[i] /\ (new[i].role = "assistant" => new[i].run # r)
            BY <2>1, <2>4
        <3>3. new[Len(old) + 1].run = r
            BY <2>1 DEF ReplyOf
        <3>4. CASE n \in DOMAIN old /\ o \in DOMAIN old
            BY <2>2, <3>1, <3>2, <3>4 DEF TranscriptSound, old
        <3>5. CASE n = Len(old) + 1 \/ o = Len(old) + 1
            <4>1. new[n].run = r /\ new[o].run = r /\ new[o].role = "assistant"
                BY <3>1, <3>3, <3>5
            <4>2. n \notin DOMAIN old /\ o \notin DOMAIN old
                BY <3>1, <3>2, <4>1
            <4>3. QED
                BY <2>1, <4>2
        <3>6. QED
            BY <2>1, <3>4, <3>5
    <2>8. \A q \in Runs : asked[q] = k /\ turns'[q] = "completed" =>
            \E n \in DOMAIN new : new[n] = ReplyOf(q)
        <3>1. SUFFICES ASSUME NEW q \in Runs, asked[q] = k, turns'[q] = "completed"
                       PROVE  \E n \in DOMAIN new : new[n] = ReplyOf(q)
            OBVIOUS
        <3>2. CASE q = r
            BY <2>1, <3>2
        <3>3. CASE q # r
            <4>1. turns[q] = "completed"
                BY <1>7, <3>1, <3>3
            <4>2. PICK n \in DOMAIN old : old[n] = ReplyOf(q)
                BY <2>2, <3>1, <4>1 DEF TranscriptSound, old
            <4>3. QED
                BY <2>1, <4>2
        <3>4. QED
            BY <3>2, <3>3
    <2>9. TranscriptSound(k)'
        BY <1>1, <2>5, <2>6, <2>7, <2>8 DEF TranscriptSound, new, Question, ReplyOf
    <2>10. QED
        <3>1. TalkSound(k)'
            BY <2>1, <2>9 DEF TalkSound, Kept
        <3>2. QED
            BY <1>12, <2>1, <3>1
<1>15. QED
    BY <1>13, <1>14

(***************************************************************************)
(* The steps of a thread that deletes.                                     *)
(***************************************************************************)

LEMMA DeletionStep ==
    ASSUME ChatInv, NEW t \in Threads, PurgeNext(t) \/ DeleteRows(t) \/ Tombstone(t)
    PROVE  ChatInv'
<1>1. /\ ChatTypeOK /\ Deleting(t) /\ thread \in [Threads -> Requests] /\ thread[t].place \in DeletePlaces
      /\ ~At(t, "idle") /\ TalkSound(Talk(t)) /\ Talk(t) \in Conversations
      /\ \A r \in Runs : RunSound(r)
      /\ UNCHANGED <<server, asked>> /\ tombs' \subseteq Conversations
    BY DEF ChatInv, ChatTypeOK, PurgeNext, DeleteRows, Tombstone, At, Deleting, DeletePlaces, talkVars
<1>2. PICK k \in Conversations : k = Talk(t)
    BY <1>1
<1>3. CASE PurgeNext(t)
    <2> DEFINE rest == {r \in Turns(k) : captures[r] # None /\ files[r] # None}
    <2>1. /\ At(t, "purge") /\ Kept(k) /\ Deletable(k) /\ UNCHANGED <<talks, turns, tombs>>
          /\ UNCHANGED <<authority, refs, leases, fencing, runs, invocations, outbox, captures>>
          /\ rest = {} => Step(t, "rows") /\ files' = files
          /\ rest # {} => thread' = thread /\ Purge(CHOOSE r \in rest : TRUE)
        BY <1>1, <1>2, <1>3
        DEF PurgeNext, Purged, Deleting, At, talkVars, authVars, leaseVars, accountVars
    <2>2. CASE rest = {}
        <3>1. /\ thread' \in [Threads -> Requests] /\ Only(t) /\ At(t, "rows")' /\ Talk(t)' = k
              /\ thread'[t].token = thread[t].token
            BY <1>1, <1>2, <2>1, <2>2, StepTo DEF DeletePlaces
        <3>2. \A r \in Turns(k) : files[r] = None
            <4>1. SUFFICES ASSUME NEW r \in Turns(k), files[r] # None PROVE FALSE
                OBVIOUS
            <4>2. r \in Runs /\ turns[r] # None /\ turns[r] # "created" /\ captures[r] = None
                BY <2>1, <2>2, <4>1 DEF Turns, Deletable
            <4>3. turns[r] \in {"completed", "failed_after_dispatch"}
                BY <1>1, <4>1, <4>2 DEF ChatTypeOK, TurnStates, RunSound
            <4>4. QED
                BY <1>1, <4>1, <4>2, <4>3, NothingAssumption DEF RunSound, Answers
        <3>3. Sending(t)' /\ Deleting(t)'
            BY <1>1, <1>2, <2>1, <2>2, <3>1, <3>2
            DEF Sending, Deleting, SendPlaces, DeletePlaces, At, Kept, Deletable, Turns
        <3>4. ChatTypeOK'
            BY <1>1, <2>1, <2>2, <3>1 DEF ChatTypeOK, StoresTypeOK
        <3>5. QED
            BY <1>1, <1>2, <2>1, <2>2, <3>1, <3>3, <3>4, MoveStep
    <2>3. CASE rest # {}
        <3>1. PICK r \in rest : Purge(r)
            BY <2>1, <2>3
        <3>2. r \in Runs /\ asked[r] = k /\ files' = [files EXCEPT ![r] = None]
            BY <3>1 DEF Purge, Turns
        <3>3. files' \in [Runs -> Answers \cup {None}] /\ files'[r] = None
              /\ \A q \in Runs \ {r} : files'[q] = files[q]
            BY <1>1, <3>2 DEF ChatTypeOK, StoresTypeOK
        <3>4. ChatTypeOK'
            BY <1>1, <2>1, <2>3, <3>3 DEF ChatTypeOK, StoresTypeOK
        <3>5. Sending(t)' /\ Deleting(t)'
            BY <1>1, <1>2, <2>1, <2>3
            DEF Sending, Deleting, SendPlaces, DeletePlaces, At, Talk, Kept, Deletable, Turns
        <3>6. \A q \in Runs : RunSound(q)'
            <4>1. captures[r] # None /\ asked[r] # None
                BY <3>1, <3>2, ChatAssumption
            <4>2. RunSound(r)'
                BY <1>1, <2>1, <3>2, <3>3, <4>1 DEF RunSound
            <4>3. \A q \in Runs \ {r} : RunSound(q)'
                BY <1>1, <2>1, <3>3 DEF RunSound, Blank
            <4>4. QED
                BY <4>2, <4>3
        <3>7. TalkSound(k)'
            BY <1>1, <1>2, <2>1 DEF TalkSound, TranscriptSound, Kept
        <3>8. Within(k) /\ Only(t) /\ Talk(t)' = Talk(t)
            BY <2>1, <2>3, <3>2, <3>3 DEF Within, Only, Talk
        <3>9. QED
            BY <1>1, <1>2, <3>4, <3>5, <3>6, <3>7, <3>8, TalkStep
    <2>4. QED
        BY <2>2, <2>3
<1>4. CASE DeleteRows(t)
    <2>1. /\ At(t, "rows") /\ Step(t, "tomb") /\ UNCHANGED <<storeVars, tombs>>
          /\ talks' = [talks EXCEPT ![k] = Gone]
          /\ turns' = [r \in Runs |-> IF r \in Turns(k) THEN None ELSE turns[r]]
        BY <1>2, <1>4 DEF DeleteRows
    <2>2. UNCHANGED <<authority, refs, leases, fencing, runs, invocations, outbox, files, captures>>
        BY <2>1 DEF storeVars, authVars, leaseVars, accountVars, vaultVars
    <2>3. /\ thread' \in [Threads -> Requests] /\ Only(t) /\ At(t, "tomb")' /\ Talk(t)' = k
          /\ thread'[t].token = thread[t].token
        BY <1>1, <1>2, <2>1, StepTo DEF DeletePlaces
    <2>4. /\ talks' \in [Conversations -> Talks \cup {None, Gone}] /\ talks'[k] = Gone
          /\ \A c \in Conversations \ {k} : talks'[c] = talks[c]
          /\ turns' \in [Runs -> TurnStates \cup {None}]
        BY <1>1, <2>1 DEF ChatTypeOK
    <2>5. \A r \in Runs : asked[r] = k => turns'[r] = None /\ files[r] = None
        <3>1. SUFFICES ASSUME NEW r \in Runs, asked[r] = k PROVE turns'[r] = None /\ files[r] = None
            OBVIOUS
        <3>2. CASE turns[r] = None
            BY <1>1, <2>1, <3>2 DEF RunSound
        <3>3. CASE turns[r] # None
            <4>1. r \in Turns(k)
                BY <3>1, <3>3 DEF Turns
            <4>2. QED
                BY <1>1, <1>2, <2>1, <4>1 DEF Deleting, DeletePlaces, At
        <3>4. QED
            BY <3>2, <3>3
    <2>6. \A r \in Runs : asked[r] # k => turns'[r] = turns[r]
        BY <2>1 DEF Turns
    <2>7. ChatTypeOK'
        BY <1>1, <2>1, <2>2, <2>3, <2>4 DEF ChatTypeOK, StoresTypeOK
    <2>8. Sending(t)' /\ Deleting(t)'
        BY <1>1, <2>3, <2>4 DEF Sending, Deleting, SendPlaces, DeletePlaces, At
    <2>9. \A r \in Runs : RunSound(r)'
        <3>1. \A r \in Runs : asked[r] # k => RunSound(r)'
            BY <1>1, <2>2, <2>6 DEF RunSound, Blank
        <3>2. \A r \in Runs : asked[r] = k => RunSound(r)'
            BY <1>1, <2>2, <2>5, ChatAssumption, NoTalkAssumption DEF RunSound, TurnStates
        <3>3. QED
            BY <3>1, <3>2
    <2>10. TalkSound(k)'
        BY <1>1, <2>4, <2>5, NoTalkAssumption DEF TalkSound, Kept
    <2>11. Within(k)
        BY <2>2, <2>4, <2>6 DEF Within
    <2>12. QED
        BY <1>1, <1>2, <2>3, <2>7, <2>8, <2>9, <2>10, <2>11, TalkStep
<1>5. CASE Tombstone(t)
    <2>1. thread' = [thread EXCEPT ![t] = Nowhere] /\ UNCHANGED <<storeVars, talks, turns>>
        BY <1>5 DEF Tombstone
    <2>2. Nowhere \in Requests /\ Nowhere.place = "idle"
        BY StoresAssumption DEF Nowhere, Requests, TurnPermits
    <2>3. thread' \in [Threads -> Requests] /\ Only(t) /\ At(t, "idle")'
        BY <1>1, <2>1, <2>2, Becomes DEF At
    <2>4. Sending(t)' /\ Deleting(t)'
        BY <2>3 DEF Sending, Deleting, SendPlaces, DeletePlaces, At
    <2>5. QED
        BY <1>1, <2>1, <2>3, <2>4, MoveAlone
<1>6. QED
    BY <1>3, <1>4, <1>5

(***************************************************************************)
(* A request that begins, and the steps no thread takes.                   *)
(***************************************************************************)

\* An idle thread takes the lock of a conversation.
LEMMA LockStep ==
    ASSUME ChatInv, NEW t \in Threads, NEW k \in Conversations, SendMessage(t, k) \/ Delete(t, k)
    PROVE  ChatInv'
<1>1. /\ ChatTypeOK /\ OneRequest /\ thread \in [Threads -> Requests] /\ At(t, "idle") /\ Kept(k)
      /\ \A u \in Threads : Sending(u) /\ Deleting(u)
      /\ \A r \in Runs : RunSound(r)
      /\ \A c \in Conversations : TalkSound(c)
      /\ \A u \in Threads : ~At(u, "idle") => Talk(u) # k
      /\ UNCHANGED <<storeVars, server, talks, turns, tombs>>
    BY DEF ChatInv, ChatTypeOK, SendMessage, Delete, Unlocked, talkVars
<1>2. UNCHANGED <<authority, refs, leases, fencing, runs, invocations, outbox, files, captures>>
    BY <1>1 DEF storeVars, authVars, leaseVars, accountVars, vaultVars
<1>3. ASSUME NEW p \in Requests, p.place # "idle", p.talk = k, thread' = [thread EXCEPT ![t] = p]
      PROVE  thread' \in [Threads -> Requests] /\ Only(t) /\ thread'[t] = p /\ OneRequest'
    <2>1. thread' \in [Threads -> Requests] /\ Only(t) /\ thread'[t] = p
        BY <1>1, <1>3, Becomes
    <2>2. OneRequest'
        BY <1>1, <1>3, <2>1 DEF OneRequest, Only, At, Talk
    <2>3. QED
        BY <2>1, <2>2
<1>4. CASE Delete(t, k)
    <2> DEFINE p == [Nowhere EXCEPT !.place = "purge", !.talk = k]
    <2>1. Deletable(k) /\ thread' = [thread EXCEPT ![t] = p] /\ asked' = asked
        BY <1>4 DEF Delete
    <2>2. p \in Requests /\ p.place = "purge" /\ p.talk = k /\ p.token = 0
        <3>1. Nowhere \in Requests /\ Nowhere.token = 0
            BY StoresAssumption DEF Nowhere, Requests, TurnPermits
        <3>2. QED
            BY <3>1 DEF Requests, DeletePlaces
    <2> HIDE DEF p
    <2>3. thread' \in [Threads -> Requests] /\ Only(t) /\ thread'[t] = p /\ OneRequest'
        BY <1>3, <2>1, <2>2
    <2>4. ChatTypeOK'
        BY <1>1, <1>2, <2>1, <2>3 DEF ChatTypeOK, StoresTypeOK
    <2>5. Sending(t)' /\ Deleting(t)'
        BY <1>1, <2>1, <2>2, <2>3 DEF Sending, Deleting, SendPlaces, DeletePlaces, Talk, Kept, Deletable, Turns
    <2>6. ASSUME NEW u \in Threads \ {t} PROVE Sending(u)' /\ Deleting(u)'
        <3>1. thread'[u] = thread[u]
            BY <2>3 DEF Only
        <3>2. Sending(u)'
            BY <1>1, <1>2, <2>1, <3>1 DEF Sending, Talk, RunOf, ReplyStatus, Kept, Blank, LastIs
        <3>3. Deleting(u)'
            BY <1>1, <1>2, <2>1, <3>1 DEF Deleting, Talk, Kept, Deletable, Turns
        <3>4. QED
            BY <3>2, <3>3
    <2>7. \A r \in Runs : RunSound(r)'
        BY <1>1, <1>2, <2>1 DEF RunSound, Blank
    <2>8. \A c \in Conversations : TalkSound(c)'
        BY <1>1, <2>1 DEF TalkSound, TranscriptSound, Kept
    <2>9. QED
        BY <2>3, <2>4, <2>5, <2>6, <2>7, <2>8 DEF ChatInv
<1>5. CASE SendMessage(t, k)
    <2>1. PICK r \in Runs : /\ asked[r] = None /\ asked' = [asked EXCEPT ![r] = k]
                            /\ thread' = [thread EXCEPT ![t] = [Nowhere EXCEPT !.place = "append",
                                                                               !.talk = k, !.run = r]]
        BY <1>5 DEF SendMessage, Fresh
    <2> DEFINE p == [Nowhere EXCEPT !.place = "append", !.talk = k, !.run = r]
    <2>2. p \in Requests /\ p.place = "append" /\ p.talk = k /\ p.run = r
        <3>1. Nowhere \in Requests /\ Nowhere.token = 0
            BY StoresAssumption DEF Nowhere, Requests, TurnPermits
        <3>2. QED
            BY <3>1 DEF Requests, SendPlaces
    <2>3. thread' = [thread EXCEPT ![t] = p]
        BY <2>1
    <2> HIDE DEF p
    <2>4. thread' \in [Threads -> Requests] /\ Only(t) /\ thread'[t] = p /\ OneRequest'
        BY <1>3, <2>2, <2>3
    <2>5. /\ asked' \in [Runs -> Conversations \cup {None}] /\ asked'[r] = k
          /\ \A q \in Runs \ {r} : asked'[q] = asked[q]
        BY <1>1, <2>1 DEF ChatTypeOK
    <2>6. ChatTypeOK'
        BY <1>1, <1>2, <2>4, <2>5 DEF ChatTypeOK, StoresTypeOK
    <2>7. turns[r] = None /\ Blank(r)
        BY <1>1, <2>1 DEF RunSound
    <2>8. Sending(t)' /\ Deleting(t)'
        BY <1>1, <1>2, <2>2, <2>4, <2>5, <2>7
        DEF Sending, Deleting, SendPlaces, DeletePlaces, Working, Talk, RunOf, Kept, Blank
    <2>9. \A c \in Conversations : Turns(c)' = Turns(c)
        BY <1>1, <2>5, <2>7 DEF Turns
    <2>10. ASSUME NEW u \in Threads \ {t} PROVE Sending(u)' /\ Deleting(u)'
        <3>1. thread'[u] = thread[u]
            BY <2>4 DEF Only
        <3>2. Sending(u)'
            <4>1. SUFFICES ASSUME thread[u].place \in SendPlaces PROVE Sending(u)'
                BY <3>1 DEF Sending
            <4>2. RunOf(u) \in Runs \ {r} /\ Sending(u)
                BY <1>1, <2>1, <4>1, ChatAssumption DEF Sending
            <4>3. QED
                BY <1>1, <1>2, <2>5, <3>1, <4>1, <4>2 DEF Sending, Talk, RunOf, ReplyStatus, Kept, Blank, LastIs
        <3>3. Deleting(u)'
            BY <1>1, <1>2, <2>9, <3>1 DEF Deleting, Talk, Kept, Deletable
        <3>4. QED
            BY <3>2, <3>3
    <2>11. \A q \in Runs : RunSound(q)'
        BY <1>1, <1>2, <2>1, <2>5, ChatAssumption DEF RunSound, Blank
    <2>12. ASSUME NEW c \in Conversations PROVE TalkSound(c)'
        <3>1. talks[c] = None => \A q \in Runs : asked'[q] # c
            BY <1>1, <2>5 DEF TalkSound, Kept
        <3>2. talks[c] = Gone => \A q \in Runs : asked'[q] = c => turns[q] = None
            BY <1>1, <2>5 DEF TalkSound, Kept
        <3>3. ASSUME Kept(c) PROVE TranscriptSound(c)'
            <4>1. TranscriptSound(c)
                BY <1>1, <3>3 DEF TalkSound
            <4>2. \A n \in DOMAIN talks[c].messages : asked'[talks[c].messages[n].run] = c
                BY <2>1, <4>1, ChatAssumption DEF TranscriptSound
            <4>3. turns[r] # "completed"
                BY <2>7, NoTalkAssumption DEF TurnStates
            <4>4. QED
                BY <1>1, <2>5, <4>1, <4>2, <4>3 DEF TranscriptSound
        <3>4. QED
            BY <1>1, <3>1, <3>2, <3>3 DEF TalkSound, Kept
    <2>13. QED
        BY <2>4, <2>6, <2>8, <2>10, <2>11, <2>12 DEF ChatInv
<1>6. QED
    BY <1>4, <1>5

\* Nothing is asked, answered or deleted.
LEMMA AsideStep ==
    ASSUME ChatInv, ChatTypeOK', thread' = thread \/ (\A t \in Threads : At(t, "idle")'),
           UNCHANGED <<turns, asked, runs, invocations, files, captures>>,
           \A k \in Conversations : \/ talks'[k] = talks[k]
                                    \/ Kept(k) /\ Kept(k)' /\ talks'[k].messages = talks[k].messages
    PROVE  ChatInv'
<1>1. /\ OneRequest
      /\ \A u \in Threads : Sending(u) /\ Deleting(u)
      /\ \A r \in Runs : RunSound(r)
      /\ \A c \in Conversations : TalkSound(c)
    BY DEF ChatInv
<1>2. OneRequest'
    BY <1>1 DEF OneRequest, At, Talk
<1>3. ASSUME NEW u \in Threads PROVE Sending(u)' /\ Deleting(u)'
    <2>1. CASE At(u, "idle")'
        BY <2>1 DEF Sending, Deleting, SendPlaces, DeletePlaces, At
    <2>2. CASE thread' = thread
        <3>1. Sending(u) /\ Deleting(u)
            BY <1>1
        <3>2. Sending(u)'
            <4>1. SUFFICES ASSUME thread[u].place \in SendPlaces PROVE Sending(u)'
                BY <2>2 DEF Sending
            <4>2. Talk(u) \in Conversations /\ Kept(Talk(u))
                BY <3>1, <4>1 DEF Sending
            <4>3. Kept(Talk(u))' /\ talks'[Talk(u)].messages = talks[Talk(u)].messages /\ Talk(u)' = Talk(u)
                BY <2>2, <4>2 DEF Kept, Talk
            <4>4. QED
                BY <2>2, <3>1, <4>1, <4>3 DEF Sending, RunOf, ReplyStatus, Blank, LastIs
        <3>3. Deleting(u)'
            <4>1. SUFFICES ASSUME thread[u].place \in DeletePlaces PROVE Deleting(u)'
                BY <2>2 DEF Deleting
            <4>2. Talk(u) \in Conversations /\ Talk(u)' = Talk(u)
                BY <2>2, <3>1, <4>1 DEF Deleting, Talk
            <4>3. /\ Kept(Talk(u)) => Kept(Talk(u))'
                  /\ talks[Talk(u)] = Gone => talks'[Talk(u)] = Gone
                BY <2>2, <4>2 DEF Kept, Talk
            <4>4. QED
                BY <2>2, <3>1, <4>1, <4>2, <4>3 DEF Deleting, Deletable, Turns
        <3>4. QED
            BY <3>2, <3>3
    <2>3. QED
        BY <2>1, <2>2
<1>4. \A r \in Runs : RunSound(r)'
    BY <1>1 DEF RunSound, Blank
<1>5. ASSUME NEW k \in Conversations PROVE TalkSound(k)'
    <2>1. CASE talks'[k] = talks[k]
        BY <1>1, <2>1 DEF TalkSound, TranscriptSound, Kept
    <2>2. CASE Kept(k) /\ Kept(k)' /\ talks'[k].messages = talks[k].messages
        <3>1. TranscriptSound(k)
            BY <1>1, <2>2 DEF TalkSound
        <3>2. TranscriptSound(k)'
            BY <2>2, <3>1 DEF TranscriptSound
        <3>3. QED
            BY <2>2, <3>2 DEF TalkSound, Kept
    <2>3. QED
        BY <2>1, <2>2
<1>6. QED
    BY <1>2, <1>3, <1>4, <1>5 DEF ChatInv

\* A conversation begins: it has no turn yet.
LEMMA CreateStep ==
    ASSUME ChatInv, NEW k \in Conversations, Create(k)
    PROVE  ChatInv'
<1> DEFINE talk == [archived |-> FALSE, messages |-> <<>>]
<1>1. /\ ChatTypeOK /\ OneRequest /\ talks[k] = None /\ talks' = [talks EXCEPT ![k] = talk]
      /\ \A u \in Threads : Sending(u) /\ Deleting(u)
      /\ \A r \in Runs : RunSound(r)
      /\ \A c \in Conversations : TalkSound(c)
      /\ UNCHANGED <<storeVars, server, turns, thread, tombs, asked>>
    BY DEF ChatInv, Create
<1>2. UNCHANGED <<authority, refs, leases, fencing, runs, invocations, outbox, files, captures>>
    BY <1>1 DEF storeVars, authVars, leaseVars, accountVars, vaultVars
<1>3. talk \in Talks /\ DOMAIN talk.messages = {}
    BY DEF Talks
<1>4. /\ talks' \in [Conversations -> Talks \cup {None, Gone}] /\ talks'[k] = talk
      /\ \A c \in Conversations \ {k} : talks'[c] = talks[c]
    BY <1>1, <1>3 DEF ChatTypeOK
<1> HIDE DEF talk
<1>5. ChatTypeOK'
    BY <1>1, <1>2, <1>4 DEF ChatTypeOK, StoresTypeOK
<1>6. OneRequest'
    BY <1>1 DEF OneRequest, At, Talk
<1>7. ASSUME NEW u \in Threads PROVE Sending(u)' /\ Deleting(u)'
    <2>1. thread[u].place \in SendPlaces => Talk(u) \in Conversations \ {k}
        BY <1>1 DEF Sending, Kept
    <2>2. thread[u].place \in DeletePlaces => Talk(u) \in Conversations \ {k}
        BY <1>1, NoTalkAssumption DEF Deleting, DeletePlaces, Kept
    <2>3. Sending(u)'
        BY <1>1, <1>2, <1>4, <2>1 DEF Sending, Talk, RunOf, ReplyStatus, Kept, Blank, LastIs
    <2>4. Deleting(u)'
        BY <1>1, <1>2, <1>4, <2>2 DEF Deleting, Talk, Kept, Deletable, Turns
    <2>5. QED
        BY <2>3, <2>4
<1>8. \A r \in Runs : RunSound(r)'
    BY <1>1, <1>2 DEF RunSound, Blank
<1>9. TalkSound(k)'
    <2>1. talks'[k] # Gone /\ talks'[k] # None
        BY <1>3, <1>4, NoTalkAssumption
    <2>2. \A r \in Runs : asked'[r] # k
        BY <1>1 DEF TalkSound
    <2>3. DOMAIN talks'[k].messages = {}
        BY <1>3, <1>4
    <2>4. QED
        BY <2>1, <2>2, <2>3 DEF TalkSound, TranscriptSound
<1>10. ASSUME NEW c \in Conversations \ {k} PROVE TalkSound(c)'
    BY <1>1, <1>4 DEF TalkSound, TranscriptSound, Kept
<1>11. QED
    BY <1>5, <1>6, <1>7, <1>8, <1>9, <1>10 DEF ChatInv

LEMMA ArchiveStep ==
    ASSUME ChatInv, NEW k \in Conversations, NEW archived \in BOOLEAN, Archive(k, archived)
    PROVE  ChatInv'
<1> DEFINE talk == [talks[k] EXCEPT !.archived = archived]
<1>1. /\ ChatTypeOK /\ Kept(k) /\ talks[k] \in Talks
      /\ talks \in [Conversations -> Talks \cup {None, Gone}]
      /\ UNCHANGED <<storeVars, server, turns, thread, tombs, asked>>
    BY DEF ChatInv, Archive, ChatTypeOK, Kept
<1>2. UNCHANGED <<authority, refs, leases, fencing, runs, invocations, outbox, files, captures>>
    BY <1>1 DEF storeVars, authVars, leaseVars, accountVars, vaultVars
<1>3. talk \in Talks /\ talk.messages = talks[k].messages /\ talks' = [talks EXCEPT ![k] = talk]
    BY <1>1 DEF Talks, Archive
<1> HIDE DEF talk
<1>4. talks' \in [Conversations -> Talks \cup {None, Gone}] /\ talks'[k] = talk
      /\ \A c \in Conversations \ {k} : talks'[c] = talks[c]
    BY <1>1, <1>3
<1>5. Kept(k)' /\ talks'[k].messages = talks[k].messages
    BY <1>3, <1>4, NoTalkAssumption DEF Kept
<1>6. ChatTypeOK'
    BY <1>1, <1>2, <1>4 DEF ChatTypeOK, StoresTypeOK
<1>7. QED
    BY <1>1, <1>2, <1>4, <1>5, <1>6, AsideStep

\* The process starts and stops; authorities and leases change on their own.
LEMMA ProcessStep ==
    ASSUME ChatInv, ServerDies \/ Shutdown \/ (\E i \in Refs : Boot(i)) \/ Elsewhere
    PROVE  ChatInv'
<1>1. /\ ChatTypeOK /\ UNCHANGED <<talks, turns, tombs, asked>>
      /\ UNCHANGED <<runs, accountVars, vaultVars>>
    BY DEF ChatInv, ServerDies, Shutdown, Boot, Elsewhere, Issue, AdvanceEpoch, ExpireLease, talkVars,
           storeVars
<1>2. thread' = thread \/ (\A t \in Threads : thread'[t] = Nowhere)
    BY DEF ServerDies, Shutdown, Boot, Elsewhere
<1>3. thread' \in [Threads -> Requests] /\ (thread' = thread \/ (\A t \in Threads : At(t, "idle")'))
    <2>1. Nowhere \in Requests /\ Nowhere.place = "idle"
        BY StoresAssumption DEF Nowhere, Requests, TurnPermits
    <2>2. thread' = thread \/ thread' = [t \in Threads |-> Nowhere]
        BY DEF ServerDies, Shutdown, Boot, Elsewhere
    <2>3. QED
        BY <1>1, <2>1, <2>2 DEF ChatTypeOK, At
<1>4. server' \in {0} \cup Refs
    BY <1>1 DEF ChatTypeOK, ServerDies, Shutdown, Boot, Elsewhere
<1>5. /\ authority' \in [epoch : 1..MaxEpoch, open : BOOLEAN]
      /\ refs' \in [Refs -> References \cup {None}]
      /\ leases' \in [Resources -> Leases \cup {None}] /\ fencing' \in 0..MaxToken
    <2>1. StoresTypeOK
        BY <1>1 DEF ChatTypeOK
    <2>2. CASE ServerDies \/ Shutdown
        BY <2>1, <2>2 DEF StoresTypeOK, ServerDies, Shutdown, storeVars, authVars, leaseVars
    <2>3. CASE \E i \in Refs : Boot(i)
        <3>1. PICK i \in Refs : Issue(i)
            BY <2>3 DEF Boot
        <3> DEFINE row == [epoch |-> authority.epoch, live |-> TRUE]
        <3>2. row \in References /\ refs' = [refs EXCEPT ![i] = row] /\ UNCHANGED <<authority, leaseVars>>
            BY <2>1, <3>1 DEF Issue, StoresTypeOK, References
        <3> HIDE DEF row
        <3>3. QED
            BY <2>1, <3>2 DEF StoresTypeOK, leaseVars
    <2>4. CASE AdvanceEpoch(TRUE)
        <3>1. /\ authority' = [epoch |-> authority.epoch + 1, open |-> TRUE]
              /\ authority.epoch < MaxEpoch /\ UNCHANGED <<refs, leaseVars>>
            BY <2>4 DEF AdvanceEpoch
        <3>2. authority.epoch + 1 \in 1..MaxEpoch
            BY <2>1, <3>1, StoresAssumption DEF StoresTypeOK
        <3>3. QED
            BY <2>1, <3>1, <3>2 DEF StoresTypeOK, leaseVars
    <2>5. CASE \E key \in Resources : ExpireLease(key)
        <3>1. PICK key \in Resources : ExpireLease(key)
            BY <2>5
        <3> DEFINE row == [leases[key] EXCEPT !.live = FALSE]
        <3>2. row \in Leases /\ leases' = [leases EXCEPT ![key] = row] /\ UNCHANGED <<authVars, fencing>>
            BY <2>1, <3>1 DEF ExpireLease, StoresTypeOK, Leases
        <3> HIDE DEF row
        <3>3. QED
            BY <2>1, <3>2 DEF StoresTypeOK, authVars
    <2>6. QED
        BY <2>2, <2>3, <2>4, <2>5 DEF Elsewhere
<1>6. ChatTypeOK'
    BY <1>1, <1>3, <1>4, <1>5 DEF ChatTypeOK, StoresTypeOK, accountVars, vaultVars
<1>7. QED
    BY <1>1, <1>3, <1>6, AsideStep DEF accountVars, vaultVars

(***************************************************************************)
(* The theorems.                                                           *)
(***************************************************************************)

LEMMA ChatInvInit == ChatInit => ChatInv
<1> SUFFICES ASSUME ChatInit PROVE ChatInv
    OBVIOUS
<1>1. /\ talks = [k \in Conversations |-> None] /\ turns = [r \in Runs |-> None]
      /\ thread = [t \in Threads |-> Nowhere] /\ asked = [r \in Runs |-> None]
      /\ \A r \in Runs : Blank(r)
    BY DEF ChatInit, StoresInit, Blank
<1>2. Nowhere \in Requests /\ Nowhere.place = "idle"
    BY StoresAssumption DEF Nowhere, Requests, TurnPermits
<1>3. ChatTypeOK
    BY <1>1, <1>2, StoresAssumption DEF ChatInit, StoresInit, ChatTypeOK, StoresTypeOK, References, Refs
<1>4. OneRequest
    BY <1>1, <1>2 DEF OneRequest, At
<1>5. \A t \in Threads : Sending(t) /\ Deleting(t)
    BY <1>1, <1>2 DEF Sending, Deleting, SendPlaces, DeletePlaces
<1>6. \A r \in Runs : RunSound(r)
    BY <1>1, NoTalkAssumption DEF RunSound, Blank, TurnStates
<1>7. \A k \in Conversations : TalkSound(k)
    BY <1>1, ChatAssumption, NoTalkAssumption DEF TalkSound, Kept
<1>8. QED
    BY <1>3, <1>4, <1>5, <1>6, <1>7 DEF ChatInv

LEMMA ChatInvNext == ChatInv /\ [ChatNext]_chatVars => ChatInv'
<1> SUFFICES ASSUME ChatInv, [ChatNext]_chatVars PROVE ChatInv'
    OBVIOUS
<1>1. CASE UNCHANGED chatVars
    <2>1. UNCHANGED <<storeVars, server, talks, turns, thread, tombs, asked>>
        BY <1>1 DEF chatVars
    <2>2. UNCHANGED <<authority, refs, leases, fencing, runs, invocations, outbox, files, captures>>
        BY <2>1 DEF storeVars, authVars, leaseVars, accountVars, vaultVars
    <2>3. ChatTypeOK'
        BY <2>1, <2>2 DEF ChatInv, ChatTypeOK, StoresTypeOK
    <2>4. QED
        BY <2>1, <2>2, <2>3, AsideStep
<1>2. ASSUME NEW k \in Conversations,
             \/ Create(k)
             \/ \E archived \in BOOLEAN : Archive(k, archived)
             \/ \E t \in Threads : SendMessage(t, k) \/ Delete(t, k)
      PROVE  ChatInv'
    BY <1>2, CreateStep, ArchiveStep, LockStep
<1>3. ASSUME NEW t \in Threads,
             \/ AppendUser(t) \/ StartTurn(t) \/ Estimate(t) \/ Admit(t) \/ AdmitRefused(t)
             \/ (\E granted \in BOOLEAN : AdmitTurn(t, granted)) \/ RefuseTurn(t)
             \/ StartDispatch(t) \/ AccountDispatch(t) \/ Transport(t) \/ NotSent(t)
             \/ \E seen \in Replies : Reply(t, seen)
             \/ WriteReply(t) \/ CaptureReply(t) \/ ObserveReply(t) \/ CloseAccount(t) \/ FinishDispatch(t)
             \/ CloseTurn(t) \/ SettlePermit(t) \/ GiveLeaseBack(t) \/ StoreFails(t)
             \/ PurgeNext(t) \/ DeleteRows(t) \/ Tombstone(t)
      PROVE  ChatInv'
    BY <1>3, AppendStep, SilentStep, AheadStep, TakeLeaseStep, RecordingStep, ProviderStep, CloseStepKeeps,
       WayOutStep, DeletionStep
<1>4. CASE ServerDies \/ Shutdown \/ (\E i \in Refs : Boot(i)) \/ Elsewhere
    BY <1>4, ProcessStep
<1>5. QED
    BY <1>1, <1>2, <1>3, <1>4 DEF ChatNext

\* The inductive invariant of Direct Chat: one request at a time in a conversation
\* (_conversation_lock), what each thread has on record by the place it is at, and what
\* turns and transcripts keep of it after the thread is gone.
THEOREM ChatSound == ChatSpec => []ChatInv
<1>1. QED
    BY ChatInvInit, ChatInvNext, PTL DEF ChatSpec

\* Every table, thread and transcript keeps its type: direct_store.py's rows and
\* what a thread of direct_runtime.py knows.
THEOREM ChatTypes == ChatSpec => []ChatTypeOK
<1>1. ChatInv => ChatTypeOK
    BY DEF ChatInv
<1>2. QED
    BY <1>1, ChatSound, PTL

\* A message shown as the model's is the accepted answer of a run that succeeded, and
\* a completed turn shows exactly one (append_assistant_atomic, after the capture, the
\* account and the terminal event).
THEOREM RepliesAreBacked == ChatSpec => []ReplyIsBacked
<1>1. ChatInv => ReplyIsBacked
    <2> SUFFICES ASSUME ChatInv, NEW k \in Conversations, Kept(k), NEW r \in Runs, asked[r] = k
                 PROVE  LET shown == {n \in DOMAIN talks[k].messages :
                                        talks[k].messages[n] = [role |-> "assistant", run |-> r]} IN
                        /\ turns[r] = "completed" <=> shown # {}
                        /\ Cardinality(shown) <= 1
                        /\ shown # {} => /\ runs[r] = "success" /\ invocations[r].status = "success"
                                         /\ captures[r] = "good" /\ files[r] \in {None, "good"}
        BY DEF ReplyIsBacked
    <2> DEFINE messages == talks[k].messages
               shown == {n \in DOMAIN messages : messages[n] = ReplyOf(r)}
    <2>1. TranscriptSound(k) /\ RunSound(r)
        BY DEF ChatInv, TalkSound
    <2> HIDE DEF messages
    <2>2. \A n \in shown : messages[n].role = "assistant" /\ messages[n].run = r
        BY DEF ReplyOf
    <2>3. turns[r] = "completed" <=> shown # {}
        BY <2>1, <2>2 DEF TranscriptSound, messages
    <2>4. Cardinality(shown) <= 1
        <3>1. CASE shown = {}
            BY <3>1, FS_EmptySet
        <3>2. CASE shown # {}
            <4>1. PICK n \in shown : TRUE
                BY <3>2
            <4>2. \A o \in shown : o = n
                BY <2>1, <2>2 DEF TranscriptSound, messages
            <4>3. shown = {n}
                BY <4>1, <4>2
            <4>4. QED
                BY <4>3, FS_Singleton
        <3>3. QED
            BY <3>1, <3>2
    <2>5. shown # {} => /\ runs[r] = "success" /\ invocations[r].status = "success"
                        /\ captures[r] = "good" /\ files[r] \in {None, "good"}
        BY <2>1, <2>3 DEF RunSound
    <2>6. QED
        BY <2>3, <2>4, <2>5 DEF messages, ReplyOf
<1>2. QED
    BY <1>1, ChatSound, PTL

\* A reply stands right after its question: _conversation_lock keeps every other turn
\* out from the question to the answer.
THEOREM RepliesFollowQuestions == ChatSpec => []ReplyFollowsQuestion
<1>1. ChatInv => ReplyFollowsQuestion
    BY DEF ChatInv, TalkSound, TranscriptSound, Question, ReplyFollowsQuestion
<1>2. QED
    BY <1>1, ChatSound, PTL

\* Both together, as the run checks them.
THEOREM RepliesAreSound == ChatSpec => []RepliesSound
<1>1. ReplyIsBacked /\ ReplyFollowsQuestion => RepliesSound
    BY DEF RepliesSound
<1>2. QED
    BY <1>1, RepliesAreBacked, RepliesFollowQuestions, PTL

\* Of a deleted conversation no answer is on disk and no turn in the database, whatever
\* its runs came to and wherever the server died (purge_direct_run, delete_permanently).
THEOREM DeletedIsGone == ChatSpec => []DeletedMeansGone
<1>1. ChatInv => DeletedMeansGone
    BY DEF ChatInv, TalkSound, RunSound, DeletedMeansGone
<1>2. QED
    BY <1>1, ChatSound, PTL


(***************************************************************************)
(* The records of a run, in order (RunLedger), for both of their writers.  *)
(***************************************************************************)

Entries == [r \in Runs |-> Entry(r)]

LEMMA EntryOf ==
    ASSUME NEW r \in Runs
    PROVE  /\ Entries[r] = Entry(r)
           /\ Entries[r].event = runs[r] /\ Entries[r].account = invocations[r]
           /\ Entries[r].post = outbox[r]
           /\ Entries[r].file = files[r] /\ Entries[r].candidate = captures[r]
<1>1. Entries[r] = Entry(r)
    BY DEF Entries
<1>2. QED
    BY <1>1 DEF Entry

\* A call of a store that is about one run.
LEMMA EntersOne ==
    ASSUME NEW r \in Runs, \A q \in Runs \ {r} : Entry(q)' = Entry(q), NEW e, Entry(r)' = e
    PROVE  Ledger!Enter(r, e)
<1>1. Entries' = [q \in Runs |-> IF q = r THEN e ELSE Entry(q)]
    BY DEF Entries
<1>2. Entries' = [Entries EXCEPT ![r] = e]
    BY <1>1 DEF Entries
<1>3. QED
    BY <1>2 DEF Ledger!Enter, Entries

\* It is a step of the ledger, or writes what is there.
LEMMA EntryStep ==
    ASSUME NEW r \in Runs,
           \/ Ledger!Dispatch(r) \/ Ledger!Open(r) \/ Ledger!Write(r) \/ Ledger!Keep(r)
           \/ Ledger!Observe(r) \/ Ledger!Settle(r) \/ Ledger!Finish(r) \/ Ledger!Remove(r)
    PROVE  [Ledger!Next]_Entries
<1>1. \E e : Entries' = [Entries EXCEPT ![r] = e]
    <2>1. \E e : Ledger!Enter(r, e)
        BY DEF Ledger!Dispatch, Ledger!Open, Ledger!Write, Ledger!Keep, Ledger!Observe, Ledger!Settle,
               Ledger!Finish, Ledger!Remove
    <2>2. QED
        BY <2>1 DEF Ledger!Enter, Entries
<1>2. CASE Entries'[r] = Entries[r]
    <2>1. Entries' = Entries
        BY <1>1, <1>2 DEF Entries
    <2>2. QED
        BY <2>1
<1>3. CASE Entries'[r] # Entries[r]
    BY <1>3 DEF Ledger!Next, Entries
<1>4. QED
    BY <1>2, <1>3

LEMMA NoEntry ==
    ASSUME UNCHANGED <<runs, accountVars, vaultVars>>
    PROVE  Entries' = Entries
BY DEF Entries, Entry, accountVars, vaultVars

LEMMA StartEnters ==
    ASSUME StoresTypeOK, NEW r \in Runs, runs[r] = None, invocations[r] = None, outbox[r] = None,
           files[r] = None, captures[r] = None, StartRun(r), UNCHANGED <<accountVars, vaultVars>>
    PROVE  [Ledger!Next]_Entries
<1>1. Entry(r) = Ledger!Nothing
    BY DEF Entry, Ledger!Nothing
<1>2. /\ \A q \in Runs \ {r} : Entry(q)' = Entry(q)
      /\ Entry(r)' = [Entry(r) EXCEPT !.event = "dispatched"]
    BY DEF StoresTypeOK, StartRun, Entry, accountVars, vaultVars
<1>3. Ledger!Enter(r, [Entries[r] EXCEPT !.event = "dispatched"])
    BY <1>2, EntersOne, EntryOf
<1>4. QED
    BY <1>1, <1>3, EntryOf, EntryStep DEF Ledger!Dispatch, Entries

LEMMA AccountEnters ==
    ASSUME StoresTypeOK, NEW r \in Runs, runs[r] = "dispatched", invocations[r] = None,
           RecordDispatch(r), UNCHANGED <<runs, outbox, vaultVars>>
    PROVE  [Ledger!Next]_Entries
<1>1. /\ \A q \in Runs \ {r} : Entry(q)' = Entry(q)
      /\ Entry(r)' = [Entry(r) EXCEPT !.account = Ledger!Opened]
    BY DEF StoresTypeOK, RecordDispatch, Entry, vaultVars, Ledger!Opened
<1>2. Ledger!Enter(r, [Entries[r] EXCEPT !.account = Ledger!Opened])
    BY <1>1, EntersOne, EntryOf
<1>3. QED
    BY <1>2, EntryOf, EntryStep DEF Ledger!Open, Entries

LEMMA WriteEnters ==
    ASSUME StoresTypeOK, NEW r \in Runs, invocations[r] = Open, files[r] = None, captures[r] = None,
           NEW answer \in Answers \cup {None}, WriteOnce(r, answer), UNCHANGED <<runs, accountVars, captures>>
    PROVE  [Ledger!Next]_Entries
<1>1. /\ \A q \in Runs \ {r} : Entry(q)' = Entry(q)
      /\ Entry(r)' = [Entry(r) EXCEPT !.file = answer]
    BY DEF StoresTypeOK, WriteOnce, Entry, accountVars
<1>2. Ledger!Enter(r, [Entries[r] EXCEPT !.file = answer])
    BY <1>1, EntersOne, EntryOf
<1>3. CASE answer = None
    <2>1. Entry(r)' = Entry(r)
        BY <1>1, <1>3 DEF Entry
    <2>2. Entries' = Entries
        BY <1>1, <2>1 DEF Entries
    <2>3. QED
        BY <2>2
<1>4. CASE answer # None
    <2>1. answer \in {seen.answer : seen \in Observations} \ {None}
        <3>1. [net |-> TRUE, answer |-> answer, priced |-> TRUE] \in Observations
            BY DEF Observations
        <3>2. QED
            BY <1>4, <3>1
    <2>2. Ledger!Write(r)
        BY <1>2, <2>1, EntryOf DEF Ledger!Write, Ledger!Opened, Open, Entries
    <2>3. QED
        BY <2>2, EntryStep
<1>5. QED
    BY <1>3, <1>4

LEMMA KeepEnters ==
    ASSUME StoresTypeOK, NEW r \in Runs, invocations[r] = Open, captures[r] = None,
           Capture(r, files[r]), UNCHANGED <<runs, accountVars, files>>
    PROVE  [Ledger!Next]_Entries
<1>1. /\ \A q \in Runs \ {r} : Entry(q)' = Entry(q)
      /\ Entry(r)' = [Entry(r) EXCEPT !.candidate = files[r]]
    BY DEF StoresTypeOK, Capture, Entry, accountVars
<1>2. CASE files[r] = None
    <2>1. Entry(r)' = Entry(r)
        BY <1>1, <1>2 DEF Entry
    <2>2. Entries' = Entries
        BY <1>1, <2>1 DEF Entries
    <2>3. QED
        BY <2>2
<1>3. CASE files[r] # None
    <2>1. Ledger!Enter(r, [Entries[r] EXCEPT !.candidate = files[r]])
        BY <1>1, EntersOne, EntryOf
    <2>2. Ledger!Keep(r)
        BY <1>3, <2>1, EntryOf DEF Ledger!Keep, Ledger!Opened, Open, Entries
    <2>3. QED
        BY <2>2, EntryStep
<1>4. QED
    BY <1>2, <1>3

LEMMA ObserveEnters ==
    ASSUME StoresTypeOK, NEW r \in Runs, runs[r] = "dispatched", invocations[r] = Open,
           NEW seen \in Observations, files[r] = seen.answer, captures[r] = seen.answer,
           RecordObservation(r, seen), UNCHANGED <<runs, outbox, vaultVars>>
    PROVE  [Ledger!Next]_Entries
<1>1. invocations' = [invocations EXCEPT ![r] = [seen |-> seen, status |-> None]]
    <2>1. invocations' = [invocations EXCEPT ![r] = [invocations[r] EXCEPT !.seen = seen]]
        BY DEF RecordObservation
    <2>2. [invocations[r] EXCEPT !.seen = seen] = [seen |-> seen, status |-> None]
        BY DEF Open
    <2>3. QED
        BY <2>1, <2>2
<1>2. /\ \A q \in Runs \ {r} : Entry(q)' = Entry(q)
      /\ Entry(r)' = [Entry(r) EXCEPT !.account = [seen |-> seen, status |-> None]]
    BY <1>1 DEF StoresTypeOK, Entry, vaultVars
<1>3. Ledger!Enter(r, [Entries[r] EXCEPT !.account = [seen |-> seen, status |-> None]])
    BY <1>2, EntersOne, EntryOf
<1>4. Ledger!Observe(r)
    BY <1>3, EntryOf DEF Ledger!Observe, Ledger!Opened, Open, Entries
<1>5. QED
    BY <1>4, EntryStep

LEMMA SettleEnters ==
    ASSUME StoresTypeOK, NEW r \in Runs, runs[r] = "dispatched", outbox[r] = None,
           NEW seen \in Observations, invocations[r] = [seen |-> seen, status |-> None],
           NEW status, status = (IF seen.answer = "good" THEN "success" ELSE "failure"),
           RecordTerminal(r, status), UNCHANGED <<runs, vaultVars>>
    PROVE  [Ledger!Next]_Entries
<1> DEFINE account == [seen |-> seen, status |-> status]
           post == [status |-> status, seen |-> seen]
           settled == [event |-> runs[r], account |-> account, post |-> post,
                       file |-> files[r], candidate |-> captures[r]]
<1>1. invocations' = [invocations EXCEPT ![r] = account] /\ outbox' = [outbox EXCEPT ![r] = post]
    <2>1. invocations' = [invocations EXCEPT ![r] = [invocations[r] EXCEPT !.status = status]]
        BY DEF RecordTerminal
    <2>2. [invocations[r] EXCEPT !.status = status] = account
        OBVIOUS
    <2>3. outbox' = [outbox EXCEPT ![r] = [status |-> status, seen |-> invocations[r].seen]]
        BY DEF RecordTerminal
    <2>4. invocations[r].seen = seen
        OBVIOUS
    <2>5. QED
        BY <2>1, <2>2, <2>3, <2>4
<1>2. /\ \A q \in Runs \ {r} : Entry(q)' = Entry(q)
      /\ Entry(r)' = settled
    <2>1. runs' = runs /\ files' = files /\ captures' = captures
        BY DEF vaultVars
    <2>2. /\ \A q \in Runs \ {r} : invocations'[q] = invocations[q] /\ outbox'[q] = outbox[q]
          /\ invocations'[r] = account /\ outbox'[r] = post
        BY <1>1 DEF StoresTypeOK
    <2> HIDE DEF account, post
    <2>3. QED
        BY <2>1, <2>2 DEF Entry
<1>3. Ledger!Enter(r, [Entries[r] EXCEPT !.account = account, !.post = post])
    <2>1. Ledger!Enter(r, settled)
        BY <1>2, EntersOne
    <2> HIDE DEF account, post
    <2> DEFINE closed == [Entry(r) EXCEPT !.account = account]
    <2>2. closed
              = [event |-> runs[r], account |-> account, post |-> outbox[r],
                 file |-> files[r], candidate |-> captures[r]]
        BY DEF Entry
    <2>3. [Entry(r) EXCEPT !.account = account, !.post = post] = [closed EXCEPT !.post = post]
        OBVIOUS
    <2> HIDE DEF closed
    <2>4. [closed EXCEPT !.post = post] = settled
        BY <2>2
    <2>5. QED
        BY <2>1, <2>3, <2>4, EntryOf
<1>4. invocations[r] # None /\ seen # None /\ status = Ledger!Worth(seen)
    BY NothingAssumption DEF StoresTypeOK, Invocations, Ledger!Worth
<1>5. Ledger!Settle(r)
    <2>1. /\ Entries[r].event = "dispatched" /\ Entries[r].account # None
          /\ Entries[r].account.seen = seen /\ Entries[r].account.status = None
        BY <1>4, EntryOf
    <2>2. Ledger!Enter(r, [Entries[r] EXCEPT !.account = [seen |-> seen, status |-> Ledger!Worth(seen)],
                                             !.post = [status |-> Ledger!Worth(seen), seen |-> seen]])
        BY <1>3, <1>4
    <2>3. QED
        BY <1>4, <2>1, <2>2 DEF Ledger!Settle, Entries
<1>6. QED
    BY <1>5, EntryStep

LEMMA FinishEnters ==
    ASSUME StoresTypeOK, NEW r \in Runs, runs[r] = "dispatched", NEW status \in Results,
           invocations[r] # None, invocations[r].status = status,
           FinishRun(r, status), UNCHANGED <<accountVars, vaultVars>>
    PROVE  [Ledger!Next]_Entries
<1>1. /\ \A q \in Runs \ {r} : Entry(q)' = Entry(q)
      /\ Entry(r)' = [Entry(r) EXCEPT !.event = status]
    BY DEF StoresTypeOK, FinishRun, Entry, accountVars, vaultVars
<1>2. Ledger!Enter(r, [Entries[r] EXCEPT !.event = status])
    BY <1>1, EntersOne, EntryOf
<1>3. status # None
    BY NothingAssumption
<1>4. Ledger!Finish(r)
    BY <1>2, <1>3, EntryOf DEF Ledger!Finish, Entries
<1>5. QED
    BY <1>4, EntryStep

LEMMA RemoveEnters ==
    ASSUME StoresTypeOK, NEW r \in Runs, captures[r] # None, files[r] # None, Purge(r),
           UNCHANGED <<runs, accountVars, captures>>
    PROVE  [Ledger!Next]_Entries
<1>1. /\ \A q \in Runs \ {r} : Entry(q)' = Entry(q)
      /\ Entry(r)' = [Entry(r) EXCEPT !.file = None]
    BY DEF StoresTypeOK, Purge, Entry, accountVars
<1>2. Ledger!Enter(r, [Entries[r] EXCEPT !.file = None])
    BY <1>1, EntersOne, EntryOf
<1>3. Ledger!Remove(r)
    BY <1>2, EntryOf DEF Ledger!Remove, Entries
<1>4. QED
    BY <1>3, EntryStep

\* invoke, which drives its run through the stores in this order and no other.
LEMMA InvokeWrites ==
    ASSUME InvokeInv, NEW c \in Callers,
           \/ Start(c) \/ Account(c) \/ WriteAnswer(c) \/ CaptureCandidate(c) \/ Observe(c)
           \/ Terminal(c) \/ Finish(c)
    PROVE  [Ledger!Next]_Entries
<1> DEFINE r == Run(c)
           seen == at[c].seen
<1>1. /\ StoresTypeOK /\ Driving(c) /\ Recorded(r) /\ r \in Runs
      /\ Status(seen) = (IF seen.answer = "good" THEN "success" ELSE "failure")
      /\ Status(seen) \in Results
    BY DEF InvokeInv, TypeOK, Callings, Run, Status, Results
<1>2. CASE Start(c)
    <2>1. runs[r] = None /\ StartRun(r) /\ UNCHANGED <<accountVars, vaultVars>>
        BY <1>2 DEF Start, Startable
    <2>2. invocations[r] = None /\ outbox[r] = None /\ files[r] = None /\ captures[r] = None
        BY <1>1, <2>1 DEF Recorded
    <2>3. QED
        BY <1>1, <2>1, <2>2, StartEnters
<1>3. CASE Account(c)
    <2>1. In(c, "account") /\ RecordDispatch(r) /\ UNCHANGED <<runs, outbox, vaultVars>>
        BY <1>3 DEF Account
    <2>2. runs[r] = "dispatched" /\ invocations[r] = None
        BY <1>1, <2>1 DEF Driving, Mid, Inside, In
    <2>3. QED
        BY <1>1, <2>1, <2>2, AccountEnters
<1>4. CASE WriteAnswer(c)
    <2>1. In(c, "file") /\ WriteOnce(r, seen.answer) /\ UNCHANGED <<runs, accountVars, captures>>
        BY <1>4 DEF WriteAnswer
    <2>2. invocations[r] = Open /\ files[r] = None /\ captures[r] = None /\ seen \in Observations
        BY <1>1, <2>1 DEF Driving, In
    <2>3. seen.answer \in Answers \cup {None}
        BY <2>2 DEF Observations
    <2>4. QED
        BY <1>1, <2>1, <2>2, <2>3, WriteEnters
<1>5. CASE CaptureCandidate(c)
    <2>1. In(c, "capture") /\ Capture(r, seen.answer) /\ UNCHANGED <<runs, accountVars, files>>
        BY <1>5 DEF CaptureCandidate
    <2>2. invocations[r] = Open /\ captures[r] = None /\ files[r] = seen.answer
        BY <1>1, <2>1 DEF Driving, In
    <2>3. Capture(r, files[r])
        BY <2>1, <2>2
    <2>4. QED
        BY <1>1, <2>1, <2>2, <2>3, KeepEnters
<1>6. CASE Observe(c)
    <2>1. In(c, "observe") /\ RecordObservation(r, seen) /\ UNCHANGED <<runs, outbox, vaultVars>>
        BY <1>6 DEF Observe
    <2>2. /\ runs[r] = "dispatched" /\ invocations[r] = Open /\ seen \in Observations
          /\ files[r] = seen.answer /\ captures[r] = seen.answer
        BY <1>1, <2>1 DEF Driving, Mid, Inside, In
    <2>3. QED
        BY <1>1, <2>1, <2>2, ObserveEnters
<1>7. CASE Terminal(c)
    <2>1. In(c, "terminal") /\ RecordTerminal(r, Status(seen)) /\ UNCHANGED <<runs, vaultVars>>
        BY <1>7 DEF Terminal
    <2>2. /\ runs[r] = "dispatched" /\ outbox[r] = None /\ seen \in Observations
          /\ invocations[r] = [seen |-> seen, status |-> None]
        BY <1>1, <2>1 DEF Driving, Mid, Inside, In
    <2>3. QED
        BY <1>1, <2>1, <2>2, SettleEnters
<1>8. CASE Finish(c)
    <2>1. In(c, "finish") /\ FinishRun(r, Status(seen)) /\ UNCHANGED <<accountVars, vaultVars>>
        BY <1>8 DEF Finish
    <2>2. runs[r] = "dispatched" /\ invocations[r] = [seen |-> seen, status |-> Status(seen)]
        BY <1>1, <2>1 DEF Driving, Mid, Inside, In
    <2>3. invocations[r] # None /\ invocations[r].status = Status(seen)
        <3>1. invocations[r].status = Status(seen)
            BY <2>2
        <3>2. invocations[r] # None
            BY <1>1, <2>1, <2>2, NothingAssumption DEF Driving, In, Invocations
        <3>3. QED
            BY <3>1, <3>2
    <2>4. QED
        BY <1>1, <2>1, <2>2, <2>3, FinishEnters
<1>9. QED
    BY <1>2, <1>3, <1>4, <1>5, <1>6, <1>7, <1>8

LEMMA InvokeLedgerStep ==
    ASSUME InvokeInv, [Next]_vars
    PROVE  [Ledger!Next]_Entries
<1>1. CASE \E c \in Callers :
               \/ Start(c) \/ Account(c) \/ WriteAnswer(c) \/ CaptureCandidate(c) \/ Observe(c)
               \/ Terminal(c) \/ Finish(c)
    BY <1>1, InvokeWrites
<1>2. ASSUME NEW c \in Callers,
             \/ \E r \in Runs, i \in Refs : Begin(c, r, i)
             \/ Refuse(c) \/ Verify(c) \/ AcquireLease(c) \/ AcquireRefused(c) \/ Reverify(c)
             \/ GiveBack(c) \/ RaiseEarly(c)
      PROVE  UNCHANGED <<runs, accountVars, vaultVars>>
    BY <1>2 DEF Begin, Refuse, Verify, AcquireLease, AcquireRefused, Reverify, GiveBack, RaiseEarly, storeVars
<1>3. ASSUME NEW c \in Callers,
             \/ AdmitProvider(c) \/ Send(c) \/ Unsent(c) \/ \E seen \in Outcomes : Answer(c, seen)
             \/ Close(c) \/ Raise(c) \/ Break(c)
      PROVE  UNCHANGED <<runs, accountVars, vaultVars>>
    BY <1>3 DEF AdmitProvider, Send, Unsent, Answer, Close, Raise, Break, storeVars
<1>4. ASSUME NEW c \in Callers,
             \/ \E swallowed \in BOOLEAN : Settle(c, swallowed)
             \/ Release(c) \/ ReleaseRefused(c) \/ Cleanup(c) \/ CleanupRaises(c) \/ Crash(c) \/ Sweep(c)
      PROVE  UNCHANGED <<runs, accountVars, vaultVars>>
    BY <1>4 DEF Settle, Release, ReleaseRefused, Cleanup, CleanupRaises, Crash, Sweep, storeVars
<1>5. ASSUME Others PROVE UNCHANGED <<runs, accountVars, vaultVars>>
    BY <1>5 DEF Others, Revoke, AdvanceEpoch, Reap, Expire, ExpireLease
<1>6. ASSUME UNCHANGED vars PROVE UNCHANGED <<runs, accountVars, vaultVars>>
    BY <1>6 DEF vars, storeVars
<1>7. CASE UNCHANGED <<runs, accountVars, vaultVars>>
    BY <1>7, NoEntry
<1>8. QED
    BY <1>1, <1>2, <1>3, <1>4, <1>5, <1>6, <1>7 DEF Next

\* Every history of invoke is one of RunLedger: whoever calls, fails, retries or dies,
\* the event, the account and the candidate of a run are written in one order, each once.
THEOREM InvokeKeepsOrder == Spec => RecordsInOrder
<1>1. Init => Ledger!Init
    BY DEF Init, StoresInit, Ledger!Init, Ledger!Nothing, Entry
<1>2. InvokeInv /\ [Next]_vars => [Ledger!Next]_Entries
    BY InvokeLedgerStep
<1>3. QED
    BY <1>1, <1>2, InvokeInvariant, PTL DEF Spec, RecordsInOrder, Ledger!Spec, Entries

\* Of Direct Chat: what is posted is closed.
Posted == \A r \in Runs : outbox[r] # None => invocations[r] # None /\ invocations[r].status # None

\* The other steps of the server write no record of a run.
LEMMA ChatAside ==
    ASSUME [ChatNext]_chatVars,
           ~ \E t \in Threads :
                \/ StartDispatch(t) \/ AccountDispatch(t) \/ WriteReply(t) \/ CaptureReply(t)
                \/ ObserveReply(t) \/ CloseAccount(t) \/ FinishDispatch(t) \/ PurgeNext(t)
    PROVE  UNCHANGED <<runs, accountVars, vaultVars>>
<1>1. ASSUME NEW k \in Conversations,
             \/ Create(k)
             \/ \E archived \in BOOLEAN : Archive(k, archived)
             \/ \E t \in Threads : SendMessage(t, k) \/ Delete(t, k)
      PROVE  UNCHANGED <<runs, accountVars, vaultVars>>
    BY <1>1 DEF Create, Archive, SendMessage, Delete, storeVars
<1>2. ASSUME NEW t \in Threads,
             \/ AppendUser(t) \/ StartTurn(t) \/ Estimate(t) \/ Admit(t) \/ AdmitRefused(t)
             \/ (\E granted \in BOOLEAN : AdmitTurn(t, granted)) \/ RefuseTurn(t)
             \/ Transport(t) \/ NotSent(t) \/ \E seen \in Replies : Reply(t, seen)
      PROVE  UNCHANGED <<runs, accountVars, vaultVars>>
    BY <1>2 DEF AppendUser, StartTurn, Estimate, Admit, AdmitRefused, AdmitTurn, RefuseTurn, Transport,
           NotSent, Reply, storeVars
<1>3. ASSUME NEW t \in Threads,
             \/ CloseTurn(t) \/ SettlePermit(t) \/ GiveLeaseBack(t) \/ StoreFails(t)
             \/ DeleteRows(t) \/ Tombstone(t)
      PROVE  UNCHANGED <<runs, accountVars, vaultVars>>
    BY <1>3 DEF CloseTurn, SettlePermit, GiveLeaseBack, StoreFails, DeleteRows, Tombstone, storeVars
<1>4. ASSUME ServerDies \/ Shutdown \/ (\E i \in Refs : Boot(i)) \/ Elsewhere
      PROVE  UNCHANGED <<runs, accountVars, vaultVars>>
    BY <1>4 DEF ServerDies, Shutdown, Boot, Issue, Elsewhere, AdvanceEpoch, ExpireLease, storeVars
<1>5. ASSUME UNCHANGED chatVars PROVE UNCHANGED <<runs, accountVars, vaultVars>>
    BY <1>5 DEF chatVars, storeVars
<1>6. QED
    BY <1>1, <1>2, <1>3, <1>4, <1>5 DEF ChatNext

\* A thread that sends: in this order, and with nothing posted before the account is closed.
LEMMA ChatWrites ==
    ASSUME ChatInv, Posted, NEW t \in Threads,
           \/ StartDispatch(t) \/ AccountDispatch(t) \/ WriteReply(t) \/ CaptureReply(t)
           \/ ObserveReply(t) \/ CloseAccount(t) \/ FinishDispatch(t)
    PROVE  [Ledger!Next]_Entries /\ Posted'
<1> DEFINE r == RunOf(t)
           seen == thread[t].seen
<1>1. /\ StoresTypeOK /\ Sending(t) /\ r \in Runs
      /\ thread[t].place \in {"start", "account", "file", "capture", "observe", "terminal", "finish"}
      /\ ReplyStatus(t) = (IF seen.answer = "good" THEN "success" ELSE "failure")
      /\ ReplyStatus(t) \in Results
    BY DEF ChatInv, ChatTypeOK, Sending, SendPlaces, StartDispatch, AccountDispatch, WriteReply, CaptureReply,
           ObserveReply, CloseAccount, FinishDispatch, At, ReplyStatus, Results
<1>2. CASE StartDispatch(t)
    <2>1. At(t, "start") /\ runs[r] = None /\ StartRun(r) /\ UNCHANGED <<accountVars, vaultVars>>
        BY <1>2 DEF StartDispatch, Startable
    <2>2. invocations[r] = None /\ files[r] = None /\ captures[r] = None
        BY <1>1, <2>1 DEF Sending, SendPlaces, Blank, At
    <2>3. outbox[r] = None
        BY <1>1, <2>2 DEF Posted
    <2>4. Posted'
        BY <2>1 DEF Posted, accountVars
    <2>5. QED
        BY <1>1, <2>1, <2>2, <2>3, <2>4, StartEnters
<1>3. CASE AccountDispatch(t)
    <2>1. At(t, "account") /\ RecordDispatch(r) /\ UNCHANGED <<runs, outbox, vaultVars>>
        BY <1>3 DEF AccountDispatch
    <2>2. runs[r] = "dispatched" /\ invocations[r] = None
        BY <1>1, <2>1 DEF Sending, SendPlaces, At
    <2>3. Posted'
        BY <1>1, <2>1, <2>2 DEF Posted, RecordDispatch, StoresTypeOK
    <2>4. QED
        BY <1>1, <2>1, <2>2, <2>3, AccountEnters
<1>4. CASE WriteReply(t)
    <2>1. At(t, "file") /\ WriteOnce(r, seen.answer) /\ UNCHANGED <<runs, accountVars, captures>>
        BY <1>4 DEF WriteReply
    <2>2. invocations[r] = Open /\ files[r] = None /\ captures[r] = None /\ seen \in Observations
        BY <1>1, <2>1 DEF Sending, SendPlaces, At
    <2>3. seen.answer \in Answers \cup {None}
        BY <2>2 DEF Observations
    <2>4. Posted'
        BY <2>1 DEF Posted, accountVars
    <2>5. QED
        BY <1>1, <2>1, <2>2, <2>3, <2>4, WriteEnters
<1>5. CASE CaptureReply(t)
    <2>1. At(t, "capture") /\ Capture(r, seen.answer) /\ UNCHANGED <<runs, accountVars, files>>
        BY <1>5 DEF CaptureReply
    <2>2. invocations[r] = Open /\ captures[r] = None /\ files[r] = seen.answer
        BY <1>1, <2>1 DEF Sending, SendPlaces, At
    <2>3. Capture(r, files[r])
        BY <2>1, <2>2
    <2>4. Posted'
        BY <2>1 DEF Posted, accountVars
    <2>5. QED
        BY <1>1, <2>1, <2>2, <2>3, <2>4, KeepEnters
<1>6. CASE ObserveReply(t)
    <2>1. At(t, "observe") /\ RecordObservation(r, seen) /\ UNCHANGED <<runs, outbox, vaultVars>>
        BY <1>6 DEF ObserveReply
    <2>2. /\ runs[r] = "dispatched" /\ invocations[r] = Open /\ seen \in Observations
          /\ files[r] = seen.answer /\ captures[r] = seen.answer
        BY <1>1, <2>1 DEF Sending, SendPlaces, At
    <2>3. outbox[r] = None
        BY <1>1, <2>2 DEF Posted, Open
    <2>4. Posted'
        BY <1>1, <2>1, <2>3 DEF Posted, RecordObservation, StoresTypeOK
    <2>5. QED
        BY <1>1, <2>1, <2>2, <2>4, ObserveEnters
<1>7. CASE CloseAccount(t)
    <2>1. At(t, "terminal") /\ RecordTerminal(r, ReplyStatus(t)) /\ UNCHANGED <<runs, vaultVars>>
        BY <1>7 DEF CloseAccount
    <2>2. /\ runs[r] = "dispatched" /\ seen \in Observations
          /\ invocations[r] = [seen |-> seen, status |-> None]
        BY <1>1, <2>1 DEF Sending, SendPlaces, At
    <2>3. outbox[r] = None
        BY <1>1, <2>2 DEF Posted
    <2>4. Posted'
        <3> DEFINE row == [seen |-> seen, status |-> ReplyStatus(t)]
        <3>1. invocations' = [invocations EXCEPT ![r] = [invocations[r] EXCEPT !.status = ReplyStatus(t)]]
            BY <2>1 DEF RecordTerminal
        <3>2. [invocations[r] EXCEPT !.status = ReplyStatus(t)] = row
            BY <2>2
        <3>3. row \in Invocations /\ row.status = ReplyStatus(t)
            BY <1>1, <2>2 DEF Invocations
        <3>4. row # None /\ row.status # None
            BY <1>1, <3>3, NothingAssumption
        <3> HIDE DEF row
        <3>5. invocations'[r] = row /\ \A q \in Runs \ {r} : invocations'[q] = invocations[q]
            BY <1>1, <3>1, <3>2 DEF StoresTypeOK
        <3>6. \A q \in Runs \ {r} : outbox'[q] = outbox[q]
            BY <1>1, <2>1 DEF RecordTerminal, StoresTypeOK
        <3>7. QED
            BY <3>4, <3>5, <3>6 DEF Posted
    <2>5. QED
        BY <1>1, <2>1, <2>2, <2>3, <2>4, SettleEnters
<1>8. CASE FinishDispatch(t)
    <2>1. At(t, "finish") /\ FinishRun(r, ReplyStatus(t)) /\ UNCHANGED <<accountVars, vaultVars>>
        BY <1>8 DEF FinishDispatch
    <2>2. /\ runs[r] = "dispatched" /\ seen \in Observations
          /\ invocations[r] = [seen |-> seen, status |-> ReplyStatus(t)]
        BY <1>1, <2>1 DEF Sending, SendPlaces, At
    <2>3. invocations[r].status = ReplyStatus(t)
        BY <2>2
    <2>4. invocations[r] # None
        BY <1>1, <2>2, NothingAssumption DEF Invocations
    <2>5. Posted'
        BY <2>1 DEF Posted, accountVars
    <2>6. QED
        BY <1>1, <2>1, <2>2, <2>3, <2>4, <2>5, FinishEnters
<1>9. QED
    BY <1>2, <1>3, <1>4, <1>5, <1>6, <1>7, <1>8

\* A thread that deletes: the bytes of a captured candidate, and nothing else.
LEMMA PurgeWrites ==
    ASSUME ChatInv, Posted, NEW t \in Threads, PurgeNext(t)
    PROVE  [Ledger!Next]_Entries /\ Posted'
<1> DEFINE rest == {r \in Purged(Talk(t)) : captures[r] # None /\ files[r] # None}
<1>1. StoresTypeOK /\ UNCHANGED <<runs, accountVars, captures>>
    BY DEF ChatInv, ChatTypeOK, PurgeNext
<1>2. Posted'
    BY <1>1 DEF Posted, accountVars
<1>3. CASE rest = {}
    <2>1. UNCHANGED <<runs, accountVars, vaultVars>>
        BY <1>1, <1>3 DEF PurgeNext, vaultVars
    <2>2. QED
        BY <1>2, <2>1, NoEntry
<1>4. CASE rest # {}
    <2>1. PICK r \in rest : Purge(r)
        BY <1>4 DEF PurgeNext
    <2>2. r \in Runs /\ captures[r] # None /\ files[r] # None
        BY DEF Purged, Turns
    <2>3. QED
        BY <1>1, <1>2, <2>1, <2>2, RemoveEnters
<1>5. QED
    BY <1>3, <1>4

LEMMA ChatLedgerStep ==
    ASSUME ChatInv, Posted, [ChatNext]_chatVars
    PROVE  [Ledger!Next]_Entries /\ Posted'
<1>1. CASE \E t \in Threads :
               \/ StartDispatch(t) \/ AccountDispatch(t) \/ WriteReply(t) \/ CaptureReply(t)
               \/ ObserveReply(t) \/ CloseAccount(t) \/ FinishDispatch(t) \/ PurgeNext(t)
    BY <1>1, ChatWrites, PurgeWrites
<1>2. ASSUME UNCHANGED <<runs, accountVars, vaultVars>> PROVE [Ledger!Next]_Entries /\ Posted'
    <2>1. Posted'
        BY <1>2 DEF Posted, accountVars
    <2>2. QED
        BY <1>2, <2>1, NoEntry
<1>3. QED
    BY <1>1, <1>2, ChatAside

\* Every history of the Direct Chat server is one of RunLedger too: the records of a run
\* are written in the order of invoke, whatever thread, process or deletion writes them,
\* and only the bytes of a captured answer are ever removed.
THEOREM ChatKeepsOrder == ChatSpec => RecordsInOrder
<1>1. ChatInit => Ledger!Init /\ Posted
    BY DEF ChatInit, StoresInit, Ledger!Init, Ledger!Nothing, Entry, Posted
<1>2. ChatInv /\ Posted /\ [ChatNext]_chatVars => [Ledger!Next]_Entries /\ Posted'
    BY ChatLedgerStep
<1>3. QED
    BY <1>1, <1>2, ChatSound, PTL DEF ChatSpec, RecordsInOrder, Ledger!Spec, Entries
=============================================================================
