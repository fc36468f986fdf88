------------------------------- MODULE DirectChat -------------------------------
(***************************************************************************)
(* The Direct Chat server (direct_runtime.py, direct_store.py and          *)
(* direct_launcher.py) over the stores of the runtime: the transcripts it   *)
(* keeps, the run behind every turn, and the deletion of a conversation.    *)
(*                                                                          *)
(* One server process runs at a time (instance.lock); each request is a     *)
(* thread.  A thread holds the lock of its conversation for as long as it   *)
(* sends or deletes, every call of a store is an action, and the process    *)
(* may die between any two of them.                                         *)
(***************************************************************************)
EXTENDS RuntimeStores, Sequences

CONSTANTS
    Threads,
    Conversations, \* conversation ids (fresh UUIDs)
    LeaseKey,      \* the lease a conversation needs: its own (Grok), or the one of Ollama
    Grok,          \* conversations with the provider that requires admission
    Limit,         \* hard_context_tokens, in messages, of the policy a conversation pins
    Replies,       \* what a provider may be observed to do once it was reached
    MaxArchived,   \* bound: conversations archived or restored
    MaxLapses,     \* bound: leases that run out
    MaxErrors,     \* bound: dead processes, failing stores and fenced authorities, in all
    Gone           \* a deleted conversation

ASSUME ChatAssumption ==
    /\ LeaseKey \in [Conversations -> Resources] /\ Grok \subseteq Conversations
    /\ Limit \in [Conversations -> Nat]
    /\ Replies \subseteq [net : {TRUE}, answer : Answers \cup {None}, priced : BOOLEAN]
    /\ MaxErrors \in Nat /\ MaxLapses \in Nat /\ MaxArchived \in Nat
    /\ None \notin Conversations

VARIABLES
    server,   \* the reference the process was started with, 0 while there is none
    talks,    \* conversations, with their messages
    turns,    \* direct_runs
    thread,   \* each thread: its place and what it knows
    tombs,    \* direct.conversation_deleted events
    asked,    \* the conversation each run was made for, for ever
    spare     \* of the bounds: archivings, expiries and faults to come

talkVars == <<talks, turns, tombs>>
chatVars == <<storeVars, server, talks, turns, thread, tombs, asked, spare>>

TurnStates == {"created", "completed", "refused_before_network", "failed_after_dispatch"}
Messages == [role : {"user", "assistant"}, run : Runs]
Talks == [archived : BOOLEAN, messages : Seq(Messages)]
SendPlaces == {"append", "turn", "estimate", "admit", "kernel", "refuse", "start", "account",
               "transport", "sending", "file", "capture", "observe", "terminal", "finish",
               "close", "settle", "release"}
DeletePlaces == {"purge", "rows", "tomb"}
TurnPermits == {"none", "granted", "dispatched", "finished", "cancelled", "unresolved"}
Requests == [place : {"idle"} \cup SendPlaces \cup DeletePlaces,
             talk : Conversations \cup {None}, run : Runs \cup {None}, token : 0..MaxToken,
             permit : TurnPermits, seen : Observations \cup {None},
             out : TurnStates \cup {"refused", "raised", None}]
Nowhere == [place |-> "idle", talk |-> None, run |-> None, token |-> 0,
            permit |-> "none", seen |-> None, out |-> None]

ASSUME NoTalkAssumption ==
    /\ None \notin Talks /\ None \notin TurnStates
    /\ Gone \notin Talks /\ Gone # None

ChatInit ==
    /\ StoresInit
    /\ server = 1
    /\ talks = [k \in Conversations |-> None]
    /\ turns = [r \in Runs |-> None]
    /\ thread = [t \in Threads |-> Nowhere]
    /\ tombs = {}
    /\ asked = [r \in Runs |-> None]
    /\ spare = [archived |-> MaxArchived, expiries |-> MaxLapses, faults |-> MaxErrors]

At(t, place) == thread[t].place = place
Step(t, place) == thread' = [thread EXCEPT ![t].place = place]
RunOf(t) == thread[t].run
Talk(t) == thread[t].talk
Lease(t) == LeaseKey[thread[t].talk]
ChatFault == spare.faults > 0 /\ spare' = [spare EXCEPT !.faults = @ - 1]

Kept(k) == talks[k] \notin {None, Gone}
\* Bugs: no lock, or one per provider call.
Unlocked_Never(k) == TRUE
\* _conversation_lock: send_message and delete_conversation of one conversation.
Unlocked(k) == \A t \in Threads : ~At(t, "idle") => Talk(t) # k

----------------------------------------------------------------------------
(* Conversations.                                                          *)

Create(k) ==
    /\ server # 0 /\ talks[k] = None
    /\ talks' = [talks EXCEPT ![k] = [archived |-> FALSE, messages |-> <<>>]]
    /\ UNCHANGED <<storeVars, server, turns, thread, tombs, asked, spare>>

\* archive and restore take no lock.
Archive(k, archived) ==
    /\ server # 0 /\ Kept(k) /\ talks[k].archived # archived
    /\ talks' = [talks EXCEPT ![k].archived = archived]
    /\ spare.archived > 0 /\ spare' = [spare EXCEPT !.archived = @ - 1]
    /\ UNCHANGED <<storeVars, server, turns, thread, tombs, asked>>

----------------------------------------------------------------------------
(* send_message.                                                           *)

Fresh == {r \in Runs : asked[r] = None}

SendMessage(t, k) ==
    /\ server # 0 /\ At(t, "idle") /\ Kept(k) /\ Unlocked(k) /\ Fresh # {}
    /\ LET r == CHOOSE r \in Fresh : TRUE IN
        /\ thread' = [thread EXCEPT ![t] = [Nowhere EXCEPT !.place = "append", !.talk = k, !.run = r]]
        /\ asked' = [asked EXCEPT ![r] = k]
    /\ UNCHANGED <<storeVars, server, talkVars, spare>>

Say(k, role, r) ==
    talks' = [talks EXCEPT ![k].messages = Append(@, [role |-> role, run |-> r])]

\* An archived conversation is read-only: the request ends there.
AppendUser(t) ==
    /\ At(t, "append") /\ Kept(Talk(t))
    /\ IF talks[Talk(t)].archived
       THEN Step(t, "idle") /\ UNCHANGED talks
       ELSE Step(t, "turn") /\ Say(Talk(t), "user", RunOf(t))
    /\ UNCHANGED <<storeVars, server, turns, tombs, asked, spare>>

StartTurn(t) ==
    /\ At(t, "turn") /\ turns[RunOf(t)] = None
    /\ turns' = [turns EXCEPT ![RunOf(t)] = "created"]
    /\ Step(t, "estimate")
    /\ UNCHANGED <<storeVars, server, talks, tombs, asked, spare>>

Estimate(t) ==
    /\ At(t, "estimate") /\ Kept(Talk(t))
    /\ Step(t, IF Len(talks[Talk(t)].messages) > Limit[Talk(t)] THEN "refuse" ELSE "admit")
    /\ UNCHANGED <<storeVars, server, talkVars, asked, spare>>

\* AdmissionGate.admit, whose own steps RuntimeInvoke follows.
Admit(t) ==
    /\ At(t, "admit") /\ InForce(server) /\ Available(Lease(t), RunOf(t))
    /\ Acquire(Lease(t), RunOf(t))
    /\ thread' = [thread EXCEPT ![t].place = IF Talk(t) \in Grok THEN "kernel" ELSE "start",
                        ![t].token = leases'[Lease(t)].token]
    /\ UNCHANGED <<authVars, runs, accountVars, vaultVars, server, talkVars, asked, spare>>

AdmitRefused(t) ==
    /\ At(t, "admit") /\ ~(InForce(server) /\ Available(Lease(t), RunOf(t)))
    /\ Step(t, "refuse")
    /\ UNCHANGED <<storeVars, server, talkVars, asked, spare>>

\* try_admit; a request left waiting is cancelled.
AdmitTurn(t, granted) ==
    /\ At(t, "kernel")
    /\ thread' = IF granted THEN [thread EXCEPT ![t].place = "start", ![t].permit = "granted"]
             ELSE [thread EXCEPT ![t].place = "refuse"]
    /\ UNCHANGED <<storeVars, server, talkVars, asked, spare>>

EndTurn(r, state) == turns' = [turns EXCEPT ![r] = state]

\* fail_run, and the lease, if there is one, goes back in the finally block
RefuseTurn(t) ==
    /\ At(t, "refuse") /\ turns[RunOf(t)] = "created"
    /\ EndTurn(RunOf(t), "refused_before_network")
    /\ thread' = [thread EXCEPT ![t].place = IF thread[t].token = 0 THEN "idle" ELSE "release",
                        ![t].out = "refused"]
    /\ UNCHANGED <<storeVars, server, talks, tombs, asked, spare>>

StartDispatch(t) ==
    /\ At(t, "start") /\ Startable(RunOf(t))
    /\ StartRun(RunOf(t))
    /\ Step(t, "account")
    /\ UNCHANGED <<authVars, leaseVars, accountVars, vaultVars, server, talkVars, asked, spare>>

AccountDispatch(t) ==
    /\ At(t, "account")
    /\ RecordDispatch(RunOf(t))
    /\ Step(t, "transport")
    /\ UNCHANGED <<authVars, leaseVars, runs, outbox, vaultVars, server, talkVars, asked, spare>>

Transport(t) ==
    /\ At(t, "transport")
    /\ Talk(t) \in Grok => thread[t].permit = "granted"
    /\ thread' = [thread EXCEPT ![t].place = "sending",
                        ![t].permit = IF Talk(t) \in Grok THEN "dispatched" ELSE @]
    /\ UNCHANGED <<storeVars, server, talkVars, asked, spare>>

\* A bug: only what can be shown is captured.
GoOn_GoodOnly(t, seen) ==
    thread' = [thread EXCEPT ![t].seen = seen, ![t].place = IF seen.answer = "good" THEN "file" ELSE "observe"]
\* Where the turn goes on with an observation.
GoOn(t, seen) ==
    thread' = [thread EXCEPT ![t].seen = seen, ![t].place = IF seen.answer = None THEN "observe" ELSE "file"]

\* The adapter raised before the network; its permit is granted or cancelled.
NotSent(t) ==
    /\ At(t, "transport")
    /\ GoOn(t, PreNetwork)
    /\ UNCHANGED <<storeVars, server, talkVars, asked, spare>>

\* A reply, with or without a validation error, or (without an answer) an exception.
Reply(t, seen) ==
    /\ At(t, "sending")
    /\ GoOn(t, seen)
    /\ UNCHANGED <<storeVars, server, talkVars, asked, spare>>

ReplyStatus(t) == IF thread[t].seen.answer = "good" THEN "success" ELSE "failure"

\* _capture, of an invalid reply too
WriteReply(t) ==
    /\ At(t, "file") /\ Writable(RunOf(t), thread[t].seen.answer)
    /\ WriteOnce(RunOf(t), thread[t].seen.answer)
    /\ Step(t, "capture")
    /\ UNCHANGED <<authVars, leaseVars, runs, accountVars, captures, server, talkVars, asked, spare>>

CaptureReply(t) ==
    /\ At(t, "capture") /\ Capturable(RunOf(t), thread[t].seen.answer)
    /\ Capture(RunOf(t), thread[t].seen.answer)
    /\ Step(t, "observe")
    /\ UNCHANGED <<authVars, leaseVars, runs, accountVars, files, server, talkVars, asked, spare>>

ObserveReply(t) ==
    /\ At(t, "observe") /\ Observable(RunOf(t), thread[t].seen)
    /\ RecordObservation(RunOf(t), thread[t].seen)
    /\ Step(t, "terminal")
    /\ UNCHANGED <<authVars, leaseVars, runs, outbox, vaultVars, server, talkVars, asked, spare>>

CloseAccount(t) ==
    /\ At(t, "terminal") /\ Closable(RunOf(t), ReplyStatus(t), thread[t].seen.priced)
    /\ RecordTerminal(RunOf(t), ReplyStatus(t))
    /\ Step(t, "finish")
    /\ UNCHANGED <<authVars, leaseVars, runs, vaultVars, server, talkVars, asked, spare>>

FinishDispatch(t) ==
    /\ At(t, "finish") /\ Finishable(RunOf(t))
    /\ FinishRun(RunOf(t), ReplyStatus(t))
    /\ Step(t, "close")
    /\ UNCHANGED <<authVars, leaseVars, accountVars, vaultVars, server, talkVars, asked, spare>>

\* A reply without a validation error becomes a message.
Shown(seen) == seen.answer = "good"

\* append_assistant_atomic, or fail_run
CloseTurn(t) ==
    /\ At(t, "close") /\ turns[RunOf(t)] = "created" /\ Kept(Talk(t))
    /\ IF Shown(thread[t].seen)
       THEN EndTurn(RunOf(t), "completed") /\ Say(Talk(t), "assistant", RunOf(t))
       ELSE EndTurn(RunOf(t), "failed_after_dispatch") /\ UNCHANGED talks
    /\ thread' = [thread EXCEPT ![t].place = "settle", ![t].out = turns'[RunOf(t)]]
    /\ UNCHANGED <<storeVars, server, tombs, asked, spare>>

\* The permit, in the try block or in the finally block, where errors are swallowed.
SettlePermit(t) ==
    /\ At(t, "settle")
    /\ thread' = [thread EXCEPT ![t].place = "release",
                        ![t].permit = CASE @ = "granted"    -> "cancelled"
                                        [] @ = "dispatched" ->
                                            IF thread[t].out = "raised" THEN "unresolved" ELSE "finished"
                                        [] OTHER            -> @]
    /\ UNCHANGED <<storeVars, server, talkVars, asked, spare>>

\* A lease that is no longer held raises in place of the result.
GiveLeaseBack(t) ==
    /\ At(t, "release")
    /\ IF Held(Lease(t), RunOf(t), thread[t].token) THEN ReleaseLease(Lease(t)) ELSE UNCHANGED leases
    /\ thread' = [thread EXCEPT ![t] = Nowhere]
    /\ UNCHANGED <<authVars, fencing, runs, accountVars, vaultVars, server, talkVars, asked, spare>>

\* A store fails: before admission the request is over, after it the permit and
\* the lease are given back.  The turn stays as it is.
StoreFails(t) ==
    /\ thread[t].place \in {"append", "turn", "estimate", "admit", "refuse", "kernel", "start", "account",
                        "file", "capture", "observe", "terminal", "finish", "close",
                        "manifest", "purge", "rows", "tomb"}
    /\ thread' = IF thread[t].token = 0 THEN [thread EXCEPT ![t] = Nowhere]
             ELSE [thread EXCEPT ![t].place = "settle", ![t].out = "raised"]
    /\ ChatFault
    /\ UNCHANGED <<storeVars, server, talkVars, asked>>

----------------------------------------------------------------------------
(* delete_conversation.                                                    *)

Turns(k) == {r \in Runs : asked[r] = k /\ turns[r] # None}
\* A bug: only what was shown is purged.
Purged_Shown(k) == {r \in Turns(k) : turns[r] = "completed"}
\* The runs of the manifest, each to be purged from the vault.
Purged(k) == Turns(k)
\* A bug: an interrupted run does not stand in the way.
Deletable_Dispatched(k) == \A r \in Turns(k) : turns[r] = "created" => runs[r] # None
\* Of deletion_manifest and, again, of delete_permanently.
Deletable(k) == \A r \in Turns(k) : turns[r] # "created"

Delete(t, k) ==
    /\ server # 0 /\ At(t, "idle") /\ Kept(k) /\ Unlocked(k) /\ Deletable(k)
    /\ thread' = [thread EXCEPT ![t] = [Nowhere EXCEPT !.place = "purge", !.talk = k]]
    /\ UNCHANGED <<storeVars, server, talkVars, asked, spare>>

\* purge_direct_run, run after run: a crash leaves some of the files.
PurgeNext(t) ==
    LET rest == {r \in Purged(Talk(t)) : captures[r] # None /\ files[r] # None} IN
    /\ At(t, "purge")
    /\ IF rest = {} THEN Step(t, "rows") /\ UNCHANGED files
       ELSE Purge(CHOOSE r \in rest : TRUE) /\ UNCHANGED thread
    /\ UNCHANGED <<authVars, leaseVars, runs, accountVars, captures, server, talkVars, asked, spare>>

DeleteRows(t) ==
    /\ At(t, "rows") /\ Kept(Talk(t)) /\ Deletable(Talk(t))
    /\ talks' = [talks EXCEPT ![Talk(t)] = Gone]
    /\ turns' = [r \in Runs |-> IF r \in Turns(Talk(t)) THEN None ELSE turns[r]]
    /\ Step(t, "tomb")
    /\ UNCHANGED <<storeVars, server, tombs, asked, spare>>

\* The rows are committed; the WAL may be busy, which raises: see StoreFails.
Tombstone(t) ==
    /\ At(t, "tomb")
    /\ tombs' = tombs \cup {Talk(t)}
    /\ thread' = [thread EXCEPT ![t] = Nowhere]
    /\ UNCHANGED <<storeVars, server, talks, turns, asked, spare>>

----------------------------------------------------------------------------
(* The process.                                                            *)

\* It is killed, or the idle monitor shuts it down on a request just accepted.
ServerDies ==
    /\ server # 0
    /\ server' = 0
    /\ thread' = [t \in Threads |-> Nowhere]
    /\ ChatFault
    /\ UNCHANGED <<storeVars, talkVars, asked>>

Unsettled == {r \in Runs : invocations[r] # None /\ invocations[r].status = None}
\* monitor_idle: no request, and no account left open.
Shutdown ==
    /\ server # 0 /\ Unsettled = {}
    /\ \A t \in Threads : At(t, "idle")
    /\ \E i \in Refs : refs[i] = None  \* bound: a next start is possible
    /\ server' = 0
    /\ UNCHANGED <<storeVars, thread, talkVars, asked, spare>>

\* run_direct_chat under instance.lock, with an authority of its own
Boot(i) ==
    /\ server = 0
    /\ Issue(i)
    /\ server' = i
    /\ UNCHANGED <<thread, talkVars, asked, spare>>

Elsewhere ==
    \/ /\ AdvanceEpoch(TRUE) /\ ChatFault
       /\ UNCHANGED <<server, thread, talkVars, asked>>
    \/ /\ \E key \in Resources : ExpireLease(key)
       /\ spare.expiries > 0 /\ spare' = [spare EXCEPT !.expiries = @ - 1]
       /\ UNCHANGED <<server, thread, talkVars, asked>>

ChatNext ==
    \/ \E k \in Conversations :
        \/ Create(k)
        \/ \E archived \in BOOLEAN : Archive(k, archived)
        \/ \E t \in Threads : SendMessage(t, k) \/ Delete(t, k)
    \/ \E t \in Threads :
        \/ AppendUser(t) \/ StartTurn(t) \/ Estimate(t) \/ Admit(t) \/ AdmitRefused(t)
        \/ (\E granted \in BOOLEAN : AdmitTurn(t, granted)) \/ RefuseTurn(t)
        \/ StartDispatch(t) \/ AccountDispatch(t) \/ Transport(t) \/ NotSent(t)
        \/ \E seen \in Replies : Reply(t, seen)
        \/ WriteReply(t) \/ CaptureReply(t) \/ ObserveReply(t) \/ CloseAccount(t) \/ FinishDispatch(t)
        \/ CloseTurn(t) \/ SettlePermit(t) \/ GiveLeaseBack(t) \/ StoreFails(t)
        \/ PurgeNext(t) \/ DeleteRows(t) \/ Tombstone(t)
    \/ ServerDies \/ Shutdown \/ (\E i \in Refs : Boot(i)) \/ Elsewhere

ChatSpec == ChatInit /\ [][ChatNext]_chatVars

----------------------------------------------------------------------------
(* Properties.                                                             *)

ChatTypeOK ==
    /\ StoresTypeOK
    /\ server \in {0} \cup Refs
    /\ talks \in [Conversations -> Talks \cup {None, Gone}]
    /\ turns \in [Runs -> TurnStates \cup {None}]
    /\ thread \in [Threads -> Requests]
    /\ asked \in [Runs -> Conversations \cup {None}]
    /\ tombs \subseteq Conversations

\* Every message the transcript shows as the model's is an answer that was
\* accepted: its turn is completed, its run ended in a terminal success event, its
\* account is closed and the same answer was captured; and a completed turn has one.
ReplyIsBacked ==
    \A k \in Conversations : Kept(k) =>
        \A r \in Runs : asked[r] = k =>
            LET shown == {n \in DOMAIN talks[k].messages :
                            talks[k].messages[n] = [role |-> "assistant", run |-> r]} IN
            /\ turns[r] = "completed" <=> shown # {}
            /\ Cardinality(shown) <= 1
            /\ shown # {} => /\ runs[r] = "success" /\ invocations[r].status = "success"
                             /\ captures[r] = "good" /\ files[r] \in {None, "good"}

\* A reply stands right after the question it answers: no other turn, of another
\* tab or of a process restarted meanwhile, comes in between (_conversation_lock).
ReplyFollowsQuestion ==
    \A k \in Conversations : Kept(k) =>
        \A n \in DOMAIN talks[k].messages : talks[k].messages[n].role = "assistant" =>
            n > 1 /\ talks[k].messages[n - 1] = [role |-> "user", run |-> talks[k].messages[n].run]

\* What a transcript shows as the model's is what was asked and what was accepted.
RepliesSound == ReplyIsBacked /\ ReplyFollowsQuestion

\* Of a deleted conversation no answer stays on disk and no turn in the database,
\* nor does one come back later: not from a run that failed, and not from one that
\* an earlier process was killed in (delete_conversation).
DeletedMeansGone ==
    \A k \in Conversations : talks[k] = Gone =>
        \A r \in Runs : asked[r] = k => files[r] = None /\ turns[r] = None
=============================================================================
