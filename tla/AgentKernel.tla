----------------------------- MODULE AgentKernel -----------------------------
(***************************************************************************)
(* The agent kernel (src/macr_runtime/agent): runs with an event-sourced   *)
(* lifecycle, and the ownership leases under which workers change them.    *)
(*                                                                         *)
(* Every call of AgentService or AgentOwnershipStore is one transaction.   *)
(* What the caller passes to it, it read before: the run's revision and    *)
(* epoch, and the clock.  `know' is that knowledge; other workers' calls,  *)
(* and time, come in between.  The row of a run in agent_runs is a         *)
(* projection of its events and may be lost and rebuilt from them.         *)
(***************************************************************************)
EXTENDS Integers, Sequences, FiniteSets, FiniteSetsExt

CONSTANTS
    Agents,     \* agent run ids
    Workers,    \* processes that call the service
    Serves,     \* the run each worker works on
    OwnerOf,    \* the owner id each worker presents
    Ttl,        \* of an ownership lease
    MaxTime,    \* bound: the clock
    Fragile,    \* bound: the runs whose row may be lost, whose workers may crash
    MaxEvents,  \* bound: events of all runs
    None,
    Conflict    \* a replay that fails

ASSUME KernelAssumption ==
    /\ Serves \in [Workers -> Agents]
    /\ Ttl \in Nat \ {0} /\ MaxTime \in Nat /\ MaxEvents \in Nat
    /\ None # Conflict

VARIABLES
    run,        \* agent_runs: the projection of each run, None when it is lost
    events,     \* agent_events
    lease,      \* agent_ownership
    fencing,    \* agent_fencing_counter
    time,
    know        \* what each worker read, and the permit it holds

kernelVars == <<run, events, lease, fencing, time, know>>

Created == {"created"}
Ownable == {"admitted", "active", "blocked"}
Terminal == {"completed", "failed", "cancelled"}
States == Created \cup Ownable \cup Terminal

\* PHASE_B_TRANSITIONS
Legal(from, to) ==
    to \in CASE from = "created"  -> {"admitted", "cancelled"}
             [] from = "admitted" -> {"active", "failed", "cancelled"}
             [] from = "active"   -> {"blocked", "completed", "failed", "cancelled"}
             [] from = "blocked"  -> {"active", "failed", "cancelled"}
             [] OTHER             -> {}

Bindings == Nat \cup {None}
Projections == [state : States, revision : Nat \ {0}, epoch : Nat, binding : Bindings]
Permits == [token : Nat, epoch : Nat]
Leases == [owner : {OwnerOf[w] : w \in Workers}, token : Nat, epoch : Nat, expires : Nat]
Kinds == {"created", "acquired", "moved", "bound"}
Owners == {OwnerOf[w] : w \in Workers} \cup {None}
Events == [kind : Kinds, to : States, after : Nat \ {0}, epoch : Nat, from : Bindings,
           binding : Bindings, by : Owners]

ASSUME NoneAssumption ==
    /\ None \notin Nat /\ None \notin Permits /\ None \notin Leases
    /\ None \notin Projections /\ Conflict \notin Projections

\* `to' is the state the event moves to, `from' and `binding' the semantic
\* binding before and after; `by' is history: the owner id that wrote it.
NewEvent(kind, new, from, by) ==
    [kind |-> kind, to |-> new.state, after |-> new.revision, epoch |-> new.epoch,
     from |-> from, binding |-> new.binding, by |-> by]

Creation == [state |-> "created", revision |-> 1, epoch |-> 0, binding |-> None]

Continues(p, e) ==
    /\ e.after = p.revision + 1
    /\ e.epoch = IF e.kind = "acquired" THEN p.epoch + 1 ELSE p.epoch
    /\ CASE e.kind = "acquired" -> p.state \in Ownable
         [] e.kind = "moved"    -> Legal(p.state, e.to)
         [] e.kind = "bound"    -> e.from = p.binding
         [] OTHER               -> FALSE

\* One event applied to a projection, with its semantic binding.
ApplyEvent(p, e) ==
    IF p = None /\ e.kind = "created" /\ e.after = 1 /\ e.epoch = 0 THEN Creation
    ELSE IF p \in {None, Conflict} \/ ~Continues(p, e) THEN Conflict
    ELSE [state    |-> IF e.kind = "moved" THEN e.to ELSE p.state,
          revision |-> e.after, epoch |-> e.epoch,
          binding  |-> IF e.kind = "bound" THEN e.binding ELSE p.binding]

Replay(evs) ==
    LET upTo[i \in 0..Len(evs)] == IF i = 0 THEN None ELSE ApplyEvent(upTo[i - 1], evs[i])
    IN  upTo[Len(evs)]

MatchesTail(a) ==
    /\ events[a] # <<>>
    /\ LET tail == events[a][Len(events[a])] IN
       run[a].revision = tail.after /\ run[a].epoch = tail.epoch /\ run[a].state = tail.to

\* What a worker knows: revision and epoch of its run, the clock, its permit.
Ignorant == [revision |-> 0, epoch |-> 0, now |-> 0, permit |-> None]
Knowledge == [revision : Nat, epoch : Nat, now : Nat, permit : Permits \cup {None}]

KernelInit ==
    /\ run = [a \in Agents |-> Creation]
    /\ events = [a \in Agents |-> <<NewEvent("created", Creation, None, None)>>]
    /\ lease = [a \in Agents |-> None]
    /\ fencing = 0
    /\ time = 0
    /\ know = [w \in Workers |-> Ignorant]

----------------------------------------------------------------------------
(* The checks the operations share, and the write they share.              *)

\* The revision and epoch a caller expects are those of the row.
Expected(w) ==
    LET a == Serves[w] IN
    /\ run[a] # None
    /\ MatchesTail(a)
    /\ run[a].revision = know[w].revision
    /\ run[a].epoch = know[w].epoch

\* (Definitions with a suffix are mutants: bugs the runs show the properties to catch.)
Presents_AnyPermit(w) == know[w].permit # None /\ lease[Serves[w]] # None
Presents(w) ==
    LET row == lease[Serves[w]]  permit == know[w].permit IN
    /\ permit # None /\ row # None
    /\ row.token = permit.token
    /\ row.epoch = permit.epoch
    /\ row.owner = OwnerOf[w]
Unexpired(w) == lease[Serves[w]].expires > know[w].now

\* _insert_event and the compare-and-set of the projection, in one transaction.
Write(w, kind, new) ==
    LET a == Serves[w] IN
    /\ MapThenSumSet(LAMBDA b : Len(events[b]), Agents) < MaxEvents
    /\ run' = [run EXCEPT ![a] = new]
    /\ events' = [events EXCEPT ![a] = Append(@, NewEvent(kind, new, run[a].binding, OwnerOf[w]))]

\* The caller of a successful operation has the new projection.
Learns(w, new) == know' = [know EXCEPT ![w].revision = new.revision, ![w].epoch = new.epoch]

Successor(a) == [run[a] EXCEPT !.revision = @ + 1]

----------------------------------------------------------------------------
(* Ownership.                                                              *)

\* A worker reads its run and then the clock.
Look(w) ==
    /\ run[Serves[w]] # None
    /\ know' = [know EXCEPT ![w] = [@ EXCEPT !.revision = run[Serves[w]].revision,
                                             !.epoch = run[Serves[w]].epoch, !.now = time]]
    /\ UNCHANGED <<run, events, lease, fencing, time>>

\* A live lease of the same owner id is handed out again, unchanged.
Reacquire(w) ==
    LET a == Serves[w] IN
    /\ Expected(w)
    /\ run[a].state \in Ownable
    /\ lease[a] # None /\ Unexpired(w)
    /\ lease[a].owner = OwnerOf[w]
    /\ know' = [know EXCEPT ![w].permit = [token |-> lease[a].token, epoch |-> lease[a].epoch]]
    /\ UNCHANGED <<run, events, lease, fencing, time>>

Free(w) == lease[Serves[w]] # None => ~Unexpired(w)

Taken(a) == [Successor(a) EXCEPT !.epoch = @ + 1]

Acquire(w) ==
    LET a == Serves[w]  new == Taken(a) IN
    /\ Expected(w)
    /\ run[a].state \in Ownable
    /\ Free(w)
    /\ Write(w, "acquired", new)
    /\ fencing' = fencing + 1
    /\ lease' = [lease EXCEPT ![a] = [owner |-> OwnerOf[w], token |-> fencing + 1,
                                      epoch |-> new.epoch, expires |-> know[w].now + Ttl]]
    /\ know' = [know EXCEPT ![w] = [revision |-> new.revision, epoch |-> new.epoch, now |-> @.now,
                                    permit |-> [token |-> fencing + 1, epoch |-> new.epoch]]]
    /\ UNCHANGED time

Renew(w) ==
    LET a == Serves[w] IN
    /\ Presents(w) /\ Unexpired(w)
    /\ know[w].now + Ttl > lease[a].expires
    /\ run[a] # None /\ run[a].epoch = know[w].permit.epoch
    /\ lease' = [lease EXCEPT ![a].expires = know[w].now + Ttl]
    /\ know' = [know EXCEPT ![w].revision = run[a].revision]
    /\ UNCHANGED <<run, events, fencing, time>>

\* No expiry check; the epoch stays.
Release(w) ==
    /\ Presents(w)
    /\ lease' = [lease EXCEPT ![Serves[w]] = None]
    /\ know' = [know EXCEPT ![w].permit = None]
    /\ UNCHANGED <<run, events, fencing, time>>

----------------------------------------------------------------------------
(* The lifecycle.                                                          *)

\* admit_agent_run, and cancel_agent_run without a permit.
MoveUnowned(w, to) ==
    LET a == Serves[w]  new == [Successor(a) EXCEPT !.state = to] IN
    /\ Expected(w)
    /\ run[a].state = "created" /\ Legal("created", to)
    /\ lease[a] = None
    /\ Write(w, "moved", new)
    /\ Learns(w, new)
    /\ UNCHANGED <<lease, fencing, time>>

MayMove(w) == Expected(w) /\ Presents(w) /\ Unexpired(w)

\* activate, block, complete, fail and cancel_agent_run under a permit.
MoveOwned(w, to) ==
    LET a == Serves[w]  new == [Successor(a) EXCEPT !.state = to] IN
    /\ MayMove(w)
    /\ run[a].state \in Ownable /\ Legal(run[a].state, to)
    /\ Write(w, "moved", new)
    /\ lease' = IF to \in Terminal THEN [lease EXCEPT ![a] = None] ELSE lease
    /\ Learns(w, new)
    /\ UNCHANGED <<fencing, time>>

----------------------------------------------------------------------------
(* Loss of the projection, its reconstruction, and time.                   *)

\* The row of a run is lost; agent_ownership goes with it.
LoseProjection(a) ==
    /\ a \in Fragile /\ run[a] # None
    /\ run' = [run EXCEPT ![a] = None]
    /\ lease' = [lease EXCEPT ![a] = None]
    /\ UNCHANGED <<events, fencing, time, know>>

Rebuilt_Unbound(a) ==
    IF Replay(events[a]) = Conflict THEN Conflict ELSE [Replay(events[a]) EXCEPT !.binding = None]
Rebuilt(a) == Replay(events[a])

\* observed_at is the caller's clock: it may be any moment up to now.
Rebuild(a, now) ==
    /\ lease[a] # None => lease[a].expires <= now
    /\ Rebuilt(a) # Conflict
    /\ run' = [run EXCEPT ![a] = Rebuilt(a)]
    /\ lease' = [lease EXCEPT ![a] = None]
    /\ UNCHANGED <<events, fencing, time, know>>

\* A worker process dies; its lease stays until it expires.
Crash(w) ==
    /\ Serves[w] \in Fragile /\ know[w] # Ignorant
    /\ know' = [know EXCEPT ![w] = Ignorant]
    /\ UNCHANGED <<run, events, lease, fencing, time>>

Tick ==
    /\ time < MaxTime
    /\ time' = time + 1
    /\ UNCHANGED <<run, events, lease, fencing, know>>

KernelNext ==
    \/ \E w \in Workers :
        \/ Look(w) \/ Acquire(w) \/ Reacquire(w) \/ Renew(w) \/ Release(w) \/ Crash(w)
        \/ \E to \in States : MoveUnowned(w, to) \/ MoveOwned(w, to)
    \/ \E a \in Agents : LoseProjection(a) \/ Rebuild(a, time)
    \/ Tick

KernelSpec == KernelInit /\ [][KernelNext]_kernelVars

----------------------------------------------------------------------------
(* Properties.                                                             *)

KernelTypeOK ==
    /\ run \in [Agents -> Projections \cup {None}]
    /\ lease \in [Agents -> Leases \cup {None}]
    /\ fencing \in Nat /\ time \in 0..MaxTime
    /\ know \in [Workers -> Knowledge]
    /\ events \in [Agents -> Seq(Events)]

\* The projection of a run is what its events replay to, binding included,
\* through every loss, takeover and rebuild (rebuild_projection, agent/events.py).
HistoryIsProjection ==
    \A a \in Agents :
        /\ Replay(events[a]) # Conflict
        /\ run[a] # None => run[a] = Replay(events[a])

Acquisitions(a) == {i \in DOMAIN events[a] : events[a][i].kind = "acquired"}

\* All that is written in an epoch is written by the owner that acquired it: an
\* owner whose lease was taken over changes nothing, whatever it still believes
\* (_require_permit_row, _transition_owned).
OneWriterPerEpoch ==
    \A a \in Agents : \A i \in Acquisitions(a) : \A j \in DOMAIN events[a] :
        events[a][j].epoch = events[a][i].epoch => events[a][j].by = events[a][i].by

\* A lease is for the latest epoch of its run and the newest token handed out for
\* it, so no permit of an earlier epoch fits it (_acquire_ownership).
LeaseIsLatest ==
    \A a \in Agents : lease[a] # None =>
        /\ run[a] # None /\ lease[a].epoch = run[a].epoch
        /\ \A w \in Workers : (Serves[w] = a /\ know[w].permit # None) =>
            /\ know[w].permit.token <= lease[a].token
            /\ know[w].permit.token = lease[a].token <=> know[w].permit.epoch = lease[a].epoch

\* A taken over run is fenced from both sides: by what its history says of an epoch
\* and by the lease and the permits that are about (agent/store.py).
OwnershipIsFenced == OneWriterPerEpoch /\ LeaseIsLatest
=============================================================================
