----------------------------- MODULE AgentProofs -----------------------------
(***************************************************************************)
(* Machine-checked proofs about the agent kernel and the semantic graph    *)
(* that its agents share, for any number of runs, workers and patches.     *)
(***************************************************************************)
EXTENDS SemanticCommit, SequenceTheorems, FiniteSetTheorems, TLAPS

(***************************************************************************)
(* Replay, which is recursive over the log of a run.                       *)
(***************************************************************************)

\* Induction over an initial segment of the naturals, for a set rather than a
\* predicate.  Were k not in S, the numbers just below k that are not in S would be
\* closed under subtracting one, which maps them into themselves without k.
LEMMA SetInduction ==
    ASSUME NEW S, NEW N \in Nat, 0 \in S, \A n \in 0..N : n \in S /\ n < N => n + 1 \in S
    PROVE  0..N \subseteq S
<1> SUFFICES ASSUME NEW k \in 0..N, k \notin S PROVE FALSE
    OBVIOUS
<1> DEFINE D == {m \in 0..k : \A j \in m..k : j \notin S}
           f == [m \in D |-> m - 1]
<1>1. k \in D /\ D \subseteq 0..k /\ \A m \in D : m > 0 /\ m - 1 \in D
    <2>1. k \in D
        OBVIOUS
    <2>2. ASSUME NEW m \in D PROVE m > 0 /\ m - 1 \in D
        <3>1. m \in 0..k /\ m # 0 /\ m \notin S
            OBVIOUS
        <3>2. m - 1 \in 0..N /\ m - 1 \notin S
            BY <3>1
        <3>3. \A j \in (m - 1)..k : j = m - 1 \/ j \in m..k
            BY <3>1
        <3>4. \A j \in (m - 1)..k : j \notin S
            BY <3>2, <3>3
        <3>5. QED
            BY <3>1, <3>4
    <2>3. QED
        BY <2>1, <2>2
<1>2. IsFiniteSet(D)
    <2>1. IsFiniteSet(0..k)
        BY FS_Interval
    <2>2. D \in SUBSET (0..k)
        BY <1>1
    <2>3. QED
        BY ONLY <2>1, <2>2, FS_Subset
<1>3. IsFiniteSet(D \ {k}) /\ Cardinality(D \ {k}) < Cardinality(D)
    <2>1. Cardinality(D) \in Nat
        BY <1>2, FS_CardinalityType
    <2>2. IsFiniteSet(D \ {k}) /\ Cardinality(D \ {k}) = Cardinality(D) - 1
        BY ONLY <1>1, <1>2, FS_RemoveElement
    <2>3. QED
        BY <2>1, <2>2
<1>4. f \in [D -> D \ {k}]
    BY <1>1
<1>5. \E x, y \in D : x # y /\ f[x] = f[y]
    <2> HIDE DEF D, f
    <2>1. QED
        BY <1>2, <1>3, <1>4, FS_PigeonHole
<1>6. QED
    BY <1>1, <1>5

\* upTo of Replay, of length n.
IsReplay(f, evs, n) ==
    f = [i \in 0..n |-> IF i = 0 THEN None ELSE ApplyEvent(f[i - 1], evs[i])]

\* There is one replay of each length, and longer ones extend shorter ones.
LEMMA ReplayExists ==
    ASSUME NEW evs, NEW N \in Nat
    PROVE  \E f : IsReplay(f, evs, N)
<1> DEFINE S == {n \in 0..N : \E f : IsReplay(f, evs, n)}
<1>1. 0 \in S
    <2>1. IsReplay([i \in 0..0 |-> None], evs, 0)
        BY DEF IsReplay
    <2>2. QED
        BY <2>1
<1>2. ASSUME NEW n \in 0..N, n \in S, n < N PROVE n + 1 \in S
    <2>1. PICK f : IsReplay(f, evs, n)
        BY <1>2
    <2> DEFINE g == [i \in 0..(n + 1) |-> IF i <= n THEN f[i] ELSE ApplyEvent(f[n], evs[n + 1])]
    <2>2. \A i \in 0..n : f[i] = IF i = 0 THEN None ELSE ApplyEvent(f[i - 1], evs[i])
        BY <2>1 DEF IsReplay
    <2>3. \A i \in 0..(n + 1) : g[i] = IF i = 0 THEN None ELSE ApplyEvent(g[i - 1], evs[i])
        BY <2>2
    <2>4. IsReplay(g, evs, n + 1)
        BY <2>3 DEF IsReplay
    <2>5. QED
        BY <1>2, <2>4
<1>3. 0..N \subseteq S
    <2> HIDE DEF S
    <2>1. QED
        BY <1>1, <1>2, SetInduction
<1>4. QED
    BY <1>3

\* Replays of two logs agree as far as the logs do.
LEMMA ReplaysAgree ==
    ASSUME NEW evs, NEW more, NEW n \in Nat, NEW m \in Nat, n <= m,
           \A i \in 1..n : more[i] = evs[i],
           NEW f, IsReplay(f, evs, n), NEW g, IsReplay(g, more, m)
    PROVE  \A i \in 0..n : g[i] = f[i]
<1> DEFINE S == {i \in 0..n : g[i] = f[i]}
<1>1. \A i \in 0..n : f[i] = IF i = 0 THEN None ELSE ApplyEvent(f[i - 1], evs[i])
    BY DEF IsReplay
<1>2. \A i \in 0..m : g[i] = IF i = 0 THEN None ELSE ApplyEvent(g[i - 1], more[i])
    BY DEF IsReplay
<1>3. 0 \in S
    BY <1>1, <1>2
<1>4. ASSUME NEW i \in 0..n, i \in S, i < n PROVE i + 1 \in S
    <2>1. g[i + 1] = ApplyEvent(g[i], more[i + 1]) /\ f[i + 1] = ApplyEvent(f[i], evs[i + 1])
        BY <1>1, <1>2, <1>4
    <2>2. QED
        BY <1>4, <2>1
<1>5. 0..n \subseteq S
    <2> HIDE DEF S
    <2>1. QED
        BY <1>3, <1>4, SetInduction
<1>6. QED
    BY <1>5

\* Replay is the last value of the replay that is as long as the log.
LEMMA ReplayIs ==
    ASSUME NEW evs, Len(evs) \in Nat
    PROVE  \E f : IsReplay(f, evs, Len(evs)) /\ Replay(evs) = f[Len(evs)]
<1> DEFINE upTo == CHOOSE f : IsReplay(f, evs, Len(evs))
<1>1. IsReplay(upTo, evs, Len(evs))
    BY ReplayExists
<1>2. Replay(evs) = upTo[Len(evs)]
    BY DEF Replay, IsReplay
<1>3. QED
    BY <1>1, <1>2

\* The log replayed with one more event is that event applied to what it replayed to.
LEMMA ReplayAppend ==
    ASSUME NEW evs, NEW more, NEW n \in Nat, Len(evs) = n, Len(more) = n + 1,
           \A i \in 1..n : more[i] = evs[i]
    PROVE  Replay(more) = ApplyEvent(Replay(evs), more[n + 1])
<1>1. PICK f : IsReplay(f, evs, n) /\ Replay(evs) = f[n]
    BY ReplayIs
<1>2. PICK g : IsReplay(g, more, n + 1) /\ Replay(more) = g[n + 1]
    <2>1. Len(more) \in Nat
        OBVIOUS
    <2>2. QED
        BY <2>1, ReplayIs
<1>3. g[n] = f[n]
    <2>1. /\ n \in Nat /\ n + 1 \in Nat /\ n <= n + 1 /\ n \in 0..n
          /\ \A i \in 1..n : more[i] = evs[i]
        OBVIOUS
    <2>2. \A i \in 0..n : g[i] = f[i]
        BY ONLY <1>1, <1>2, <2>1, ReplaysAgree
    <2>3. QED
        BY <2>1, <2>2
<1>4. g[n + 1] = ApplyEvent(g[n], more[n + 1])
    <2>1. \A i \in 0..(n + 1) : g[i] = IF i = 0 THEN None ELSE ApplyEvent(g[i - 1], more[i])
        BY <1>2 DEF IsReplay
    <2>2. QED
        BY <2>1
<1>5. QED
    BY <1>1, <1>2, <1>3, <1>4

\* A log of one event replays to that event applied to nothing.
LEMMA ReplayFirst ==
    ASSUME NEW evs, Len(evs) = 1
    PROVE  Replay(evs) = ApplyEvent(None, evs[1])
<1>0. Len(evs) \in Nat
    OBVIOUS
<1>1. PICK f : IsReplay(f, evs, Len(evs)) /\ Replay(evs) = f[Len(evs)]
    BY <1>0, ReplayIs
<1>2. \A i \in 0..1 : f[i] = IF i = 0 THEN None ELSE ApplyEvent(f[i - 1], evs[i])
    BY <1>1 DEF IsReplay
<1>3. f[1] = ApplyEvent(f[0], evs[1]) /\ f[0] = None
    BY <1>2
<1>4. QED
    BY <1>1, <1>3

(***************************************************************************)
(* The inductive invariant of the kernel.                                  *)
(***************************************************************************)

\* What the log of a run replays to.
Current(a) == Replay(events[a])

\* The row of a run, while there is one, is what its log replays to.
Projected(a) == Current(a) \in Projections /\ (run[a] # None => run[a] = Current(a))

\* Epochs of a log do not pass that of its replay, and start with the first owner.
EpochsPast(a) ==
    /\ \A j \in DOMAIN events[a] : events[a][j].epoch <= Current(a).epoch
    /\ Current(a).state = "created" => Current(a).epoch = 0
    /\ \A i \in Acquisitions(a) : events[a][i].epoch >= 1

\* The holder of the lease is the owner that acquired its epoch.
HolderAcquired(a) ==
    lease[a] # None =>
        /\ lease[a].token <= fencing
        /\ \A i \in Acquisitions(a) :
            events[a][i].epoch = lease[a].epoch => events[a][i].by = lease[a].owner

\* No permit is of a later epoch than its run, or of a token not handed out yet.
PermitsPast ==
    \A w \in Workers : know[w].permit # None =>
        know[w].permit.token <= fencing /\ know[w].permit.epoch <= Current(Serves[w]).epoch

KernelInv ==
    /\ KernelTypeOK
    /\ \A a \in Agents : Projected(a) /\ EpochsPast(a) /\ HolderAcquired(a)
    /\ PermitsPast
    /\ OneWriterPerEpoch
    /\ LeaseIsLatest

(***************************************************************************)
(* The write that every operation shares.                                  *)
(***************************************************************************)

\* The event of a legal write turns the row it was written for into the new one.
LegalWrite(w, kind, new) ==
    LET a == Serves[w]  e == NewEvent(kind, new, run[a].binding, OwnerOf[w]) IN
    /\ run[a] # None /\ new \in Projections
    /\ Continues(run[a], e)
    /\ kind # "moved" => new.state = run[a].state
    /\ kind # "bound" => new.binding = run[a].binding

\* What a write leaves of the log of its run.
Written(w, kind, new) ==
    LET a == Serves[w]  n == Len(events[a]) IN
    /\ DOMAIN events[a] = 1..n /\ DOMAIN events'[a] = 1..(n + 1)
    /\ events'[a][n + 1] = NewEvent(kind, new, run[a].binding, OwnerOf[w])
    /\ \A i \in 1..n : events'[a][i] = events[a][i]
    /\ Current(a)' = new
    /\ \A b \in Agents \ {a} : events'[b] = events[b] /\ Current(b)' = Current(b)

\* A legal write (_insert_event and the compare-and-set) leaves one more event, and the
\* row it replays to.
LEMMA WriteStep ==
    ASSUME KernelTypeOK, \A a \in Agents : Projected(a),
           NEW w \in Workers, NEW kind \in Kinds, NEW new,
           Write(w, kind, new), LegalWrite(w, kind, new)
    PROVE  /\ run' \in [Agents -> Projections \cup {None}]
           /\ events' \in [Agents -> Seq(Events)]
           /\ \A a \in Agents : Projected(a)'
           /\ Written(w, kind, new)
<1> DEFINE a == Serves[w]
           n == Len(events[a])
           e == NewEvent(kind, new, run[a].binding, OwnerOf[w])
<1>1. a \in Agents /\ events[a] \in Seq(Events) /\ events \in [Agents -> Seq(Events)]
    BY KernelAssumption DEF KernelTypeOK
<1>2. n \in Nat /\ DOMAIN events[a] = 1..n
    BY <1>1, LenProperties
<1>3. run[a] \in Projections /\ run[a] = Current(a) /\ new \in Projections
    BY <1>1 DEF KernelTypeOK, LegalWrite, Projected
<1>4. e \in Events
    <2>1. /\ new.state \in States /\ new.revision \in Nat \ {0} /\ new.epoch \in Nat
          /\ new.binding \in Bindings /\ run[a].binding \in Bindings /\ OwnerOf[w] \in Owners
        BY <1>3 DEF Projections, Owners
    <2>2. QED
        BY <2>1 DEF NewEvent, Events
<1>5. events' = [events EXCEPT ![a] = Append(events[a], e)] /\ run' = [run EXCEPT ![a] = new]
    BY DEF Write
<1>6. /\ Append(events[a], e) \in Seq(Events) /\ Len(Append(events[a], e)) = n + 1
      /\ Append(events[a], e)[n + 1] = e
      /\ \A i \in 1..n : Append(events[a], e)[i] = events[a][i]
    <2> HIDE DEF e, a
    <2>1. QED
        BY <1>1, <1>4, AppendProperties
<1>7. /\ events' \in [Agents -> Seq(Events)] /\ events'[a] = Append(events[a], e)
      /\ \A b \in Agents \ {a} : events'[b] = events[b]
    BY <1>1, <1>5, <1>6
<1>8. DOMAIN events'[a] = 1..(n + 1) /\ Len(events'[a]) = n + 1
    BY <1>2, <1>6, <1>7, LenProperties
<1>9. Replay(events'[a]) = ApplyEvent(Replay(events[a]), e)
    <2>1. /\ events'[a][n + 1] = e /\ Len(events[a]) = n
          /\ \A i \in 1..n : events'[a][i] = events[a][i]
        BY <1>6, <1>7
    <2> HIDE DEF e, n, a
    <2>2. QED
        BY <1>2, <1>8, <2>1, ReplayAppend
<1>10. ApplyEvent(run[a], e) = new
    <2>1. run[a] \notin {None, Conflict}
        BY <1>3, NoneAssumption
    <2>2. Continues(run[a], e) /\ e.kind = kind
        BY DEF LegalWrite, NewEvent
    <2>3. ApplyEvent(run[a], e) =
            [state    |-> IF e.kind = "moved" THEN e.to ELSE run[a].state,
             revision |-> e.after, epoch |-> e.epoch,
             binding  |-> IF e.kind = "bound" THEN e.binding ELSE run[a].binding]
        BY <2>1, <2>2 DEF ApplyEvent
    <2>4. e.to = new.state /\ e.after = new.revision /\ e.epoch = new.epoch /\ e.binding = new.binding
        BY DEF NewEvent
    <2>5. new = [state |-> new.state, revision |-> new.revision, epoch |-> new.epoch,
                 binding |-> new.binding]
        BY <1>3 DEF Projections
    <2>6. QED
        BY <2>2, <2>3, <2>4, <2>5 DEF LegalWrite
<1>11. Current(a)' = new
    BY <1>3, <1>9, <1>10 DEF Current
<1>12. \A b \in Agents \ {a} : Current(b)' = Current(b)
    BY <1>7 DEF Current
<1>13. run' \in [Agents -> Projections \cup {None}]
    BY <1>1, <1>3, <1>5 DEF KernelTypeOK
<1>14. ASSUME NEW b \in Agents PROVE Projected(b)'
    <2>1. CASE b = a
        BY <1>1, <1>3, <1>5, <1>11, <2>1 DEF Projected, KernelTypeOK
    <2>2. CASE b # a
        BY <1>5, <1>12, <2>2 DEF Projected, KernelTypeOK
    <2>3. QED
        BY <2>1, <2>2
<1>15. QED
    BY <1>2, <1>6, <1>7, <1>8, <1>11, <1>12, <1>13, <1>14 DEF Written

\* A write within the epoch of its run, by the holder of the lease or before the
\* first one, keeps what the logs say of epochs and owners.
LEMMA WriteInEpoch ==
    ASSUME KernelInv, NEW w \in Workers, NEW kind \in Kinds \ {"acquired"}, NEW new \in Projections,
           Written(w, kind, new), run[Serves[w]] # None,
           new.epoch = run[Serves[w]].epoch,
           Presents(w) \/ run[Serves[w]].state = "created",
           new.state = "created" => run[Serves[w]].state = "created",
           \A a \in Agents : lease'[a] = lease[a] \/ lease'[a] = None, fencing' = fencing,
           \A v \in Workers : know'[v].permit = know[v].permit
    PROVE  /\ \A a \in Agents : EpochsPast(a)' /\ HolderAcquired(a)'
           /\ PermitsPast'
           /\ OneWriterPerEpoch'
<1> DEFINE a == Serves[w]
           n == Len(events[a])
<1>1. /\ a \in Agents /\ n \in Nat /\ run[a] = Current(a) /\ run[a] \in Projections
      /\ \A b \in Agents : EpochsPast(b) /\ HolderAcquired(b)
    BY KernelAssumption, LenProperties DEF KernelInv, KernelTypeOK, Projected
<1>2. /\ DOMAIN events[a] = 1..n /\ DOMAIN events'[a] = 1..(n + 1)
      /\ \A i \in 1..n : events'[a][i] = events[a][i]
      /\ events'[a][n + 1].kind = kind /\ events'[a][n + 1].epoch = run[a].epoch
      /\ events'[a][n + 1].by = OwnerOf[w]
      /\ Current(a)' = new
    BY DEF Written, NewEvent
<1>3. Acquisitions(a)' = Acquisitions(a)
    BY <1>1, <1>2 DEF Acquisitions
<1>4. \A b \in Agents \ {a} : events'[b] = events[b] /\ Current(b)' = Current(b)
    BY DEF Written
<1>5. \A i \in Acquisitions(a) : i \in 1..n /\ events[a][i].epoch >= 1
    BY <1>1, <1>2 DEF Acquisitions, EpochsPast
<1>6. \A i \in Acquisitions(a) : events[a][i].epoch = run[a].epoch => events[a][i].by = OwnerOf[w]
    <2>1. CASE run[a].state = "created"
        BY <1>1, <1>5, <2>1 DEF EpochsPast
    <2>2. CASE Presents(w)
        BY <1>1, <2>2 DEF Presents, HolderAcquired, KernelInv, LeaseIsLatest
    <2>3. QED
        BY <2>1, <2>2
<1>7. \A j \in 1..n : events[a][j].epoch <= run[a].epoch
    BY <1>1, <1>2 DEF EpochsPast
<1>8. ASSUME NEW b \in Agents PROVE EpochsPast(b)' /\ HolderAcquired(b)'
    <2>1. CASE b = a
        <3>1. run[a].epoch \in Nat
            BY <1>1 DEF Projections
        <3>2. ASSUME NEW j \in 1..(n + 1) PROVE events'[a][j].epoch <= new.epoch
            <4>1. new.epoch = run[a].epoch
                OBVIOUS
            <4>2. CASE j = n + 1
                BY <1>2, <3>1, <4>1, <4>2
            <4>3. CASE j \in 1..n
                BY <1>2, <1>7, <4>1, <4>3
            <4>4. QED
                BY <1>1, <4>2, <4>3
        <3>3. EpochsPast(a)'
            BY <1>1, <1>2, <1>3, <1>5, <3>2 DEF EpochsPast
        <3>4. HolderAcquired(a)'
            <4>1. CASE lease'[a] = None
                BY <4>1 DEF HolderAcquired
            <4>2. CASE lease'[a] = lease[a]
                <5>1. \A i \in Acquisitions(a) : events'[a][i] = events[a][i]
                    BY <1>2, <1>5
                <5>2. HolderAcquired(a)
                    BY <1>1
                <5>3. QED
                    <6>1. fencing' = fencing
                        OBVIOUS
                    <6>2. QED
                        BY ONLY <1>3, <4>2, <5>1, <5>2, <6>1, ZenonT(60) DEF HolderAcquired
            <4>3. QED
                BY <1>1, <4>1, <4>2
        <3>5. QED
            BY <2>1, <3>3, <3>4
    <2>2. CASE b # a
        BY <1>1, <1>4, <2>2 DEF EpochsPast, HolderAcquired, Acquisitions
    <2>3. QED
        BY <2>1, <2>2
<1>9. PermitsPast'
    BY <1>1, <1>2, <1>4, KernelAssumption DEF PermitsPast, KernelInv
<1>10. OneWriterPerEpoch'
    <2>1. ASSUME NEW i \in Acquisitions(a), NEW j \in 1..(n + 1),
                 events'[a][j].epoch = events'[a][i].epoch
          PROVE  events'[a][j].by = events'[a][i].by
        <3>1. CASE j = n + 1
            BY <1>2, <1>5, <1>6, <2>1, <3>1
        <3>2. CASE j \in 1..n
            <4>1. events'[a][j] = events[a][j] /\ events'[a][i] = events[a][i]
                BY <1>2, <1>5, <3>2
            <4>2. j \in DOMAIN events[a] /\ events[a][j].epoch = events[a][i].epoch
                BY <1>2, <2>1, <3>2, <4>1
            <4>3. QED
                BY <1>1, <2>1, <4>1, <4>2 DEF KernelInv, OneWriterPerEpoch
        <3>3. QED
            BY <1>1, <3>1, <3>2
    <2>2. ASSUME NEW b \in Agents \ {a}, NEW i \in Acquisitions(b)', NEW j \in DOMAIN events'[b],
                 events'[b][j].epoch = events'[b][i].epoch
          PROVE  events'[b][j].by = events'[b][i].by
        BY <1>4, <2>2 DEF Acquisitions, KernelInv, OneWriterPerEpoch
    <2>3. ASSUME NEW b \in Agents, NEW i \in Acquisitions(b)', NEW j \in DOMAIN events'[b],
                 events'[b][j].epoch = events'[b][i].epoch
          PROVE  events'[b][j].by = events'[b][i].by
        <3>1. CASE b = a
            <4>1. i \in Acquisitions(a) /\ j \in 1..(n + 1)
                BY <1>2, <1>3, <2>3, <3>1
            <4>2. QED
                BY <2>1, <2>3, <3>1, <4>1
        <3>2. CASE b # a
            BY <2>2, <2>3, <3>2
        <3>3. QED
            BY <3>1, <3>2
    <2>4. QED
        BY <2>3 DEF OneWriterPerEpoch
<1>11. QED
    BY <1>8, <1>9, <1>10

\* After a write within the epoch, a lease that is left is still of the latest one.
LEMMA WriteKeepsLease ==
    ASSUME KernelInv, NEW w \in Workers, NEW new \in Projections,
           run' = [run EXCEPT ![Serves[w]] = new], run[Serves[w]] # None,
           new.epoch = run[Serves[w]].epoch,
           \A a \in Agents : lease'[a] = lease[a] \/ lease'[a] = None,
           \A v \in Workers : know'[v].permit = know[v].permit
    PROVE  LeaseIsLatest'
<1>1. LeaseIsLatest /\ Serves[w] \in Agents /\ run \in [Agents -> Projections \cup {None}]
    BY KernelAssumption DEF KernelInv, KernelTypeOK
<1>2. SUFFICES ASSUME NEW a \in Agents, lease'[a] # None
      PROVE  /\ run'[a] # None /\ lease'[a].epoch = run'[a].epoch
             /\ \A v \in Workers : (Serves[v] = a /\ know'[v].permit # None) =>
                /\ know'[v].permit.token <= lease'[a].token
                /\ know'[v].permit.token = lease'[a].token <=> know'[v].permit.epoch = lease'[a].epoch
    BY DEF LeaseIsLatest
<1>3. lease'[a] = lease[a] /\ lease[a] # None
    BY <1>2
<1>4. run'[a] # None /\ run'[a].epoch = run[a].epoch
    <2>1. CASE a = Serves[w]
        BY <1>1, <2>1, NoneAssumption
    <2>2. CASE a # Serves[w]
        BY <1>1, <1>3, <2>2 DEF LeaseIsLatest
    <2>3. QED
        BY <2>1, <2>2
<1>5. QED
    BY <1>1, <1>3, <1>4 DEF LeaseIsLatest

\* Rows are left, lost with their lease, or replayed; leases only end or are extended;
\* permits are given up or are those of the lease.
RowsReplayed ==
    \A a \in Agents :
        \/ run'[a] \in {run[a], Current(a)}
        \/ run'[a] = None /\ lease'[a] = None
LeasesLast ==
    \A a \in Agents : lease'[a] # None =>
        /\ lease[a] # None
        /\ lease'[a].token = lease[a].token /\ lease'[a].epoch = lease[a].epoch
        /\ lease'[a].owner = lease[a].owner
PermitsLast ==
    \A w \in Workers : know'[w].permit # None =>
        \/ know'[w].permit = know[w].permit
        \/ /\ lease[Serves[w]] # None
           /\ know'[w].permit.token = lease[Serves[w]].token
           /\ know'[w].permit.epoch = lease[Serves[w]].epoch

\* A step that writes no event and does no more than that keeps the invariant.
LEMMA NoEventStep ==
    ASSUME KernelInv, KernelTypeOK', UNCHANGED <<events, fencing>>,
           RowsReplayed, LeasesLast, PermitsLast
    PROVE  KernelInv'
<1> USE DEF RowsReplayed, LeasesLast, PermitsLast
<1>1. /\ KernelTypeOK /\ PermitsPast /\ OneWriterPerEpoch /\ LeaseIsLatest
      /\ \A a \in Agents : Projected(a) /\ EpochsPast(a) /\ HolderAcquired(a)
    BY DEF KernelInv
<1>2. \A a \in Agents : Current(a)' = Current(a) /\ Acquisitions(a)' = Acquisitions(a)
    BY DEF Current, Acquisitions
<1>3. ASSUME NEW a \in Agents PROVE Projected(a)' /\ EpochsPast(a)' /\ HolderAcquired(a)'
    <2>1. Projected(a)'
        BY <1>1, <1>2 DEF Projected
    <2>2. EpochsPast(a)'
        BY <1>1, <1>2 DEF EpochsPast
    <2>3. HolderAcquired(a)'
        BY <1>1, <1>2 DEF HolderAcquired
    <2>4. QED
        BY <2>1, <2>2, <2>3
<1>4. OneWriterPerEpoch'
    BY <1>1, <1>2 DEF OneWriterPerEpoch
<1>5. ASSUME NEW a \in Agents, lease[a] # None
      PROVE  run[a] = Current(a) /\ lease[a].epoch = Current(a).epoch /\ lease[a].token <= fencing
             /\ lease[a].epoch \in Nat /\ lease[a].token \in Nat
    BY <1>1, <1>5 DEF LeaseIsLatest, Projected, HolderAcquired, KernelTypeOK, Leases
<1>6. PermitsPast'
    <2>1. SUFFICES ASSUME NEW w \in Workers, know'[w].permit # None
          PROVE  /\ know'[w].permit.token <= fencing
                 /\ know'[w].permit.epoch <= Current(Serves[w]).epoch
        BY <1>2, KernelAssumption DEF PermitsPast
    <2>2. CASE know'[w].permit = know[w].permit
        BY <1>1, <2>1, <2>2 DEF PermitsPast
    <2>3. CASE know'[w].permit # know[w].permit
        BY <1>5, <2>1, <2>3, KernelAssumption
    <2>4. QED
        BY <2>2, <2>3
<1>7. LeaseIsLatest'
    <2>1. SUFFICES ASSUME NEW a \in Agents, lease'[a] # None
          PROVE  /\ run'[a] # None /\ lease'[a].epoch = run'[a].epoch
                 /\ \A v \in Workers : (Serves[v] = a /\ know'[v].permit # None) =>
                    /\ know'[v].permit.token <= lease'[a].token
                    /\ know'[v].permit.token = lease'[a].token
                            <=> know'[v].permit.epoch = lease'[a].epoch
        BY DEF LeaseIsLatest
    <2>2. lease[a] # None /\ lease'[a].token = lease[a].token /\ lease'[a].epoch = lease[a].epoch
        BY <2>1
    <2>3. run'[a] # None /\ run'[a].epoch = lease[a].epoch
        BY <1>1, <1>5, <2>1, <2>2 DEF LeaseIsLatest
    <2>4. ASSUME NEW v \in Workers, Serves[v] = a, know'[v].permit # None
          PROVE  /\ know'[v].permit.token <= lease[a].token
                 /\ know'[v].permit.token = lease[a].token <=> know'[v].permit.epoch = lease[a].epoch
        <3>1. CASE know'[v].permit = know[v].permit
            BY <1>1, <2>2, <2>4, <3>1 DEF LeaseIsLatest
        <3>2. CASE know'[v].permit # know[v].permit
            BY <1>5, <2>2, <2>4, <3>2
        <3>3. QED
            BY <3>1, <3>2
    <2>5. QED
        BY <2>2, <2>3, <2>4
<1>8. QED
    BY <1>3, <1>4, <1>6, <1>7 DEF KernelInv

(***************************************************************************)
(* The steps of the kernel.                                                *)
(***************************************************************************)

\* What an operation that writes within the epoch needs, and what it then keeps:
\* transitions, and the binding event of the semantic graph.
LEMMA EpochWriteStep ==
    ASSUME KernelInv, NEW w \in Workers, NEW kind \in {"moved", "bound"}, NEW new,
           Write(w, kind, new), LegalWrite(w, kind, new),
           new.epoch = run[Serves[w]].epoch,
           Presents(w) \/ run[Serves[w]].state = "created",
           new.state = "created" => run[Serves[w]].state = "created",
           Learns(w, new), UNCHANGED <<fencing, time>>,
           \A a \in Agents : lease'[a] = lease[a] \/ lease'[a] = None,
           lease' \in [Agents -> Leases \cup {None}]
    PROVE  KernelInv' /\ Written(w, kind, new)
<1>1. KernelTypeOK /\ (\A a \in Agents : Projected(a)) /\ new \in Projections /\ run[Serves[w]] # None
    BY DEF KernelInv, LegalWrite
<1>2. kind \in Kinds /\ kind \in Kinds \ {"acquired"}
    BY DEF Kinds
<1>3. /\ run' \in [Agents -> Projections \cup {None}]
      /\ events' \in [Agents -> Seq(Events)]
      /\ \A a \in Agents : Projected(a)'
      /\ Written(w, kind, new)
    BY <1>1, <1>2, WriteStep
<1>4. know' \in [Workers -> Knowledge] /\ \A v \in Workers : know'[v].permit = know[v].permit
    <2>1. [know[w] EXCEPT !.revision = new.revision, !.epoch = new.epoch] \in Knowledge
        <3>1. know[w] \in Knowledge
            BY <1>1 DEF KernelTypeOK
        <3>2. QED
            BY ONLY <1>1, <3>1 DEF Knowledge, Projections
    <2>2. know' = [know EXCEPT ![w] = [know[w] EXCEPT !.revision = new.revision, !.epoch = new.epoch]]
        BY DEF Learns
    <2>3. QED
        BY <1>1, <2>1, <2>2 DEF KernelTypeOK, Knowledge
<1>5. KernelTypeOK'
    BY <1>1, <1>3, <1>4 DEF KernelTypeOK
<1>6. (\A a \in Agents : EpochsPast(a)' /\ HolderAcquired(a)') /\ PermitsPast' /\ OneWriterPerEpoch'
    BY <1>1, <1>2, <1>3, <1>4, WriteInEpoch
<1>7. LeaseIsLatest'
    BY <1>1, <1>4, WriteKeepsLease DEF Write
<1>8. QED
    BY <1>3, <1>5, <1>6, <1>7 DEF KernelInv

\* The row an event leaves differs from the one before it in what the event is about.
LEMMA SuccessorIs ==
    ASSUME NEW a, run[a] \in Projections
    PROVE  /\ Successor(a) \in Projections /\ Successor(a).revision = run[a].revision + 1
           /\ Successor(a).state = run[a].state /\ Successor(a).epoch = run[a].epoch
           /\ Successor(a).binding = run[a].binding
<1>1. run[a] = [state |-> run[a].state, revision |-> run[a].revision, epoch |-> run[a].epoch,
                binding |-> run[a].binding]
    BY DEF Projections
<1>2. Successor(a) = [state |-> run[a].state, revision |-> run[a].revision + 1,
                      epoch |-> run[a].epoch, binding |-> run[a].binding]
    BY <1>1 DEF Successor
<1>3. run[a].state \in States /\ run[a].revision + 1 \in Nat \ {0} /\ run[a].epoch \in Nat
      /\ run[a].binding \in Bindings
    BY DEF Projections
<1>4. QED
    BY <1>2, <1>3 DEF Projections

\* A transition is a legal write within the epoch.
LEMMA MoveIsLegal ==
    ASSUME KernelInv, NEW w \in Workers, NEW to \in States,
           MoveUnowned(w, to) \/ MoveOwned(w, to)
    PROVE  \E new : /\ Write(w, "moved", new) /\ LegalWrite(w, "moved", new) /\ Learns(w, new)
                    /\ new.epoch = run[Serves[w]].epoch /\ new.state # "created"
<1> DEFINE a == Serves[w]
           p == Successor(a)
           new == [Successor(a) EXCEPT !.state = to]
<1>1. a \in Agents /\ run[a] # None /\ run[a] \in Projections
    BY KernelAssumption DEF KernelInv, KernelTypeOK, MoveUnowned, MoveOwned, MayMove, Expected
<1>2. /\ new \in Projections /\ new.revision = run[a].revision + 1 /\ new.epoch = run[a].epoch
      /\ new.state = to /\ new.binding = run[a].binding
    <2>1. p \in Projections
        BY <1>1, SuccessorIs
    <2>2. [p EXCEPT !.state = to] \in Projections
        BY <2>1 DEF Projections
    <2>3. QED
        BY <1>1, <2>1, <2>2, SuccessorIs DEF Projections
<1>3. Legal(run[a].state, to) /\ Write(w, "moved", new) /\ Learns(w, new)
    BY DEF MoveUnowned, MoveOwned
<1>4. to # "created"
    BY <1>3 DEF Legal
<1>5. LegalWrite(w, "moved", new)
    BY <1>1, <1>2, <1>3 DEF LegalWrite, Continues, NewEvent
<1>6. QED
    BY <1>2, <1>3, <1>4, <1>5

\* Every transition of the lifecycle keeps the invariant.
LEMMA MoveStep ==
    ASSUME KernelInv, NEW w \in Workers, NEW to \in States,
           MoveUnowned(w, to) \/ MoveOwned(w, to)
    PROVE  KernelInv'
<1> DEFINE a == Serves[w]
<1>1. a \in Agents /\ UNCHANGED <<fencing, time>>
    BY KernelAssumption DEF MoveUnowned, MoveOwned
<1>2. PICK new : /\ Write(w, "moved", new) /\ LegalWrite(w, "moved", new) /\ Learns(w, new)
                 /\ new.epoch = run[Serves[w]].epoch /\ new.state # "created"
    BY MoveIsLegal
<1>3. Presents(w) \/ run[a].state = "created"
    BY DEF MoveUnowned, MoveOwned, MayMove
<1>4. /\ lease' \in [Agents -> Leases \cup {None}]
      /\ \A b \in Agents : lease'[b] = lease[b] \/ lease'[b] = None
    BY <1>1 DEF MoveUnowned, MoveOwned, KernelInv, KernelTypeOK
<1>5. QED
    BY <1>1, <1>2, <1>3, <1>4, EpochWriteStep

\* So is an acquisition, except that it starts the next epoch.
LEMMA TakenIsLegal ==
    ASSUME NEW w \in Workers, run[Serves[w]] \in Projections, run[Serves[w]] # None, Acquire(w)
    PROVE  LET a == Serves[w]  new == Taken(a) IN
           /\ LegalWrite(w, "acquired", new)
           /\ new \in Projections /\ new.revision = run[a].revision + 1
           /\ new.epoch = run[a].epoch + 1 /\ new.epoch \in Nat /\ run[a].epoch \in Nat
           /\ new.state = run[a].state /\ new.binding = run[a].binding /\ new.state # "created"
<1> DEFINE a == Serves[w]
           new == Taken(a)
           p == Successor(a)
<1>1. p \in Projections /\ new = [p EXCEPT !.epoch = p.epoch + 1]
    BY SuccessorIs DEF Taken
<1>2. [p EXCEPT !.epoch = p.epoch + 1] \in Projections
    BY <1>1 DEF Projections
<1>3. run[a].state # "created" /\ run[a].state \in Ownable
    BY DEF Acquire, Ownable
<1>4. run[a].epoch \in Nat
    BY DEF Projections
<1>5. /\ new \in Projections /\ new.revision = run[a].revision + 1
      /\ new.epoch = run[a].epoch + 1 /\ new.epoch \in Nat
      /\ new.state = run[a].state /\ new.binding = run[a].binding
    BY <1>1, <1>2, <1>4, SuccessorIs DEF Projections
<1>6. LegalWrite(w, "acquired", new)
    BY <1>3, <1>5 DEF LegalWrite, Continues, NewEvent
<1>7. QED
    BY <1>3, <1>4, <1>5, <1>6

\* A new holder starts an epoch of its own, with a token nobody has.
LEMMA AcquireStep == ASSUME KernelInv, NEW w \in Workers, Acquire(w) PROVE KernelInv'
<1> DEFINE a == Serves[w]
           n == Len(events[a])
           new == Taken(a)
<1>1. /\ a \in Agents /\ run[a] # None /\ run[a] \in Projections /\ run[a] = Current(a) /\ n \in Nat
      /\ KernelTypeOK /\ PermitsPast /\ OneWriterPerEpoch /\ LeaseIsLatest
      /\ \A b \in Agents : Projected(b) /\ EpochsPast(b) /\ HolderAcquired(b)
    BY KernelAssumption, LenProperties DEF KernelInv, KernelTypeOK, Acquire, Expected, Projected
<1>2. /\ new \in Projections
      /\ new.epoch = run[a].epoch + 1 /\ new.epoch \in Nat /\ run[a].epoch \in Nat
      /\ new.state # "created"
    BY <1>1, TakenIsLegal
<1>3. LegalWrite(w, "acquired", new)
    BY <1>1, TakenIsLegal
<1>4. /\ Write(w, "acquired", new) /\ fencing' = fencing + 1 /\ fencing \in Nat /\ UNCHANGED time
      /\ run' = [run EXCEPT ![a] = new]
    BY <1>1 DEF Acquire, Write, KernelTypeOK
<1> DEFINE row == [owner |-> OwnerOf[w], token |-> fencing + 1, epoch |-> new.epoch,
                   expires |-> know[w].now + Ttl]
           it == [revision |-> new.revision, epoch |-> new.epoch, now |-> know[w].now,
                  permit |-> [token |-> fencing + 1, epoch |-> new.epoch]]
<1>5. lease' = [lease EXCEPT ![a] = row] /\ know' = [know EXCEPT ![w] = it]
    BY DEF Acquire
<1>6. row \in Leases /\ it \in Knowledge
    BY <1>1, <1>2, <1>4, KernelAssumption DEF Leases, Knowledge, Permits, Projections, KernelTypeOK
<1>7. /\ run' \in [Agents -> Projections \cup {None}]
      /\ events' \in [Agents -> Seq(Events)]
      /\ \A b \in Agents : Projected(b)'
      /\ Written(w, "acquired", new)
    <2> HIDE DEF new
    <2>1. "acquired" \in Kinds
        BY DEF Kinds
    <2>2. QED
        BY <1>1, <1>3, <1>4, <2>1, WriteStep
<1> HIDE DEF new
<1>8. /\ DOMAIN events[a] = 1..n /\ DOMAIN events'[a] = 1..(n + 1)
      /\ \A i \in 1..n : events'[a][i] = events[a][i]
      /\ events'[a][n + 1].kind = "acquired" /\ events'[a][n + 1].epoch = new.epoch
      /\ events'[a][n + 1].by = OwnerOf[w]
      /\ Current(a)' = new
      /\ \A b \in Agents \ {a} : events'[b] = events[b] /\ Current(b)' = Current(b)
    BY <1>7 DEF Written, NewEvent
<1>9. Acquisitions(a)' = Acquisitions(a) \cup {n + 1} /\ Acquisitions(a) \subseteq 1..n
    BY <1>1, <1>8 DEF Acquisitions
<1>10. \A j \in 1..n : events[a][j].epoch <= run[a].epoch /\ events[a][j].epoch \in Nat
    <2>1. \A j \in 1..n : events[a][j] \in Events
        BY <1>1, <1>8, ElementOfSeq DEF KernelTypeOK
    <2>2. QED
        BY <1>1, <1>8, <2>1 DEF EpochsPast, Events
<1>N. /\ \A j \in 1..n : events'[a][j].epoch < new.epoch /\ events'[a][j].epoch <= new.epoch
      /\ \A j \in 1..(n + 1) : j \in 1..n \/ j = n + 1
      /\ ~ (new.epoch < new.epoch) /\ new.epoch <= new.epoch
    <2>1. new.epoch = run[a].epoch + 1 /\ run[a].epoch \in Nat /\ n \in Nat
        BY <1>1, <1>2
    <2>2. \A j \in 1..n : events'[a][j].epoch \in Nat /\ events'[a][j].epoch <= run[a].epoch
        BY <1>8, <1>10
    <2>3. QED
        BY ONLY <2>1, <2>2
<1>11. lease'[a] = row /\ know'[w] = it /\ \A b \in Agents \ {a} : lease'[b] = lease[b] /\ run'[b] = run[b]
    BY <1>1, <1>4, <1>5 DEF KernelTypeOK
<1>12. \A v \in Workers \ {w} : know'[v] = know[v]
    BY <1>1, <1>5 DEF KernelTypeOK
<1>13. KernelTypeOK'
    BY <1>1, <1>4, <1>5, <1>6, <1>7 DEF KernelTypeOK
<1>14. ASSUME NEW b \in Agents PROVE EpochsPast(b)' /\ HolderAcquired(b)'
    <2>1. CASE b = a
        <3>1. EpochsPast(a)'
            <4>1. \A j \in 1..(n + 1) : events'[a][j].epoch <= new.epoch
                <5>1. events'[a][n + 1].epoch = new.epoch /\ new.epoch \in Nat
                    BY <1>2, <1>8
                <5>2. QED
                    BY ONLY <5>1, <1>N
            <4>2. \A i \in Acquisitions(a)' : events'[a][i].epoch >= 1
                BY <1>1, <1>2, <1>8, <1>9 DEF EpochsPast
            <4>3. QED
                BY <1>2, <1>8, <4>1, <4>2 DEF EpochsPast
        <3>2. HolderAcquired(a)'
            <4>1. \A i \in Acquisitions(a)' : events'[a][i].epoch = new.epoch => i = n + 1
                BY <1>9, <1>N
            <4>2. QED
                BY <1>4, <1>8, <1>11, <4>1 DEF HolderAcquired
        <3>3. QED
            BY <2>1, <3>1, <3>2
    <2>2. CASE b # a
        <3>1. EpochsPast(b)'
            BY <1>1, <1>8, <2>2 DEF EpochsPast, Acquisitions
        <3>2. HolderAcquired(b)'
            <4>1. lease'[b] # None => lease[b].token <= fencing + 1
                BY <1>1, <1>4, <1>11, <2>2 DEF HolderAcquired, KernelTypeOK, Leases
            <4>2. QED
                BY <1>1, <1>4, <1>8, <1>11, <2>2, <4>1 DEF HolderAcquired, Acquisitions
        <3>3. QED
            BY <3>1, <3>2
    <2>3. QED
        BY <2>1, <2>2
<1>15. \A v \in Workers : know[v].permit # None =>
          /\ know[v].permit.token \in Nat /\ know[v].permit.token <= fencing
          /\ know[v].permit.epoch \in Nat /\ know[v].permit.epoch <= Current(Serves[v]).epoch
    BY <1>1 DEF PermitsPast, KernelTypeOK, Knowledge, Permits
<1>16. PermitsPast'
    <2>1. SUFFICES ASSUME NEW v \in Workers, know'[v].permit # None
          PROVE  /\ know'[v].permit.token <= fencing + 1
                 /\ know'[v].permit.epoch <= (Current(Serves[v]))'.epoch
        BY <1>4 DEF PermitsPast
    <2>2. CASE v = w
        BY <1>2, <1>4, <1>8, <1>11, <2>2
    <2>3. CASE v # w /\ Serves[v] = a
        BY <1>1, <1>2, <1>4, <1>8, <1>12, <1>15, <2>1, <2>3
    <2>4. CASE v # w /\ Serves[v] # a
        BY <1>4, <1>8, <1>12, <1>15, <2>1, <2>4, KernelAssumption
    <2>5. QED
        BY <2>2, <2>3, <2>4
<1>17. OneWriterPerEpoch'
    <2>1. ASSUME NEW i \in Acquisitions(a)', NEW j \in 1..(n + 1),
                 events'[a][j].epoch = events'[a][i].epoch
          PROVE  events'[a][j].by = events'[a][i].by
        <3>1. CASE i = n + 1
            BY <1>8, <1>N, <2>1, <3>1
        <3>2. CASE i # n + 1
            <4>1. i \in Acquisitions(a) /\ i \in 1..n
                BY <1>9, <3>2
            <4>2. j \in 1..n
                BY <1>8, <1>N, <2>1, <4>1
            <4>3. events'[a][j] = events[a][j] /\ events'[a][i] = events[a][i]
                BY <1>8, <4>1, <4>2
            <4>4. QED
                BY <1>1, <1>8, <2>1, <4>1, <4>2, <4>3 DEF OneWriterPerEpoch
        <3>3. QED
            BY <3>1, <3>2
    <2>2. ASSUME NEW b \in Agents, NEW i \in Acquisitions(b)', NEW j \in DOMAIN events'[b],
                 events'[b][j].epoch = events'[b][i].epoch
          PROVE  events'[b][j].by = events'[b][i].by
        <3>1. CASE b = a
            BY <1>8, <2>1, <2>2, <3>1
        <3>2. CASE b # a
            <4>1. events'[b] = events[b] /\ i \in Acquisitions(b)
                BY <1>8, <2>2, <3>2 DEF Acquisitions
            <4>2. QED
                BY <1>1, <2>2, <4>1 DEF OneWriterPerEpoch
        <3>3. QED
            BY <3>1, <3>2
    <2>3. QED
        BY <2>2 DEF OneWriterPerEpoch
<1>18. LeaseIsLatest'
    <2>1. SUFFICES ASSUME NEW b \in Agents, lease'[b] # None
          PROVE  /\ run'[b] # None /\ lease'[b].epoch = run'[b].epoch
                 /\ \A v \in Workers : (Serves[v] = b /\ know'[v].permit # None) =>
                    /\ know'[v].permit.token <= lease'[b].token
                    /\ know'[v].permit.token = lease'[b].token
                            <=> know'[v].permit.epoch = lease'[b].epoch
        BY DEF LeaseIsLatest
    <2>2. CASE b = a
        <3>1. run'[a] = new /\ new # None
            BY <1>1, <1>2, <1>4, NoneAssumption DEF KernelTypeOK
        <3>2. ASSUME NEW v \in Workers, Serves[v] = a, know'[v].permit # None
              PROVE  /\ know'[v].permit.token <= fencing + 1
                     /\ know'[v].permit.token = fencing + 1 <=> know'[v].permit.epoch = new.epoch
            <4>1. CASE v = w
                BY <1>4, <1>11, <4>1
            <4>2. CASE v # w
                BY <1>1, <1>2, <1>4, <1>12, <1>15, <3>2, <4>2
            <4>3. QED
                BY <4>1, <4>2
        <3>3. QED
            BY <1>11, <2>2, <3>1, <3>2
    <2>3. CASE b # a
        BY <1>1, <1>11, <1>12, <2>1, <2>3 DEF LeaseIsLatest
    <2>4. QED
        BY <2>2, <2>3
<1>19. QED
    BY <1>7, <1>13, <1>14, <1>16, <1>17, <1>18 DEF KernelInv

\* Every step of the kernel keeps the invariant.
LEMMA KernelStep == KernelInv /\ [KernelNext]_kernelVars => KernelInv'
<1> SUFFICES ASSUME KernelInv, [KernelNext]_kernelVars PROVE KernelInv'
    OBVIOUS
<1>T. KernelTypeOK /\ \A a \in Agents : Projected(a)
    BY DEF KernelInv
<1>0. ASSUME KernelTypeOK', UNCHANGED <<events, fencing, run, lease>>,
             \A w \in Workers : know'[w].permit # None => know'[w].permit = know[w].permit
      PROVE  KernelInv'
    <2>1. RowsReplayed
        BY <1>0 DEF RowsReplayed
    <2>2. LeasesLast
        BY <1>0 DEF LeasesLast
    <2>4. PermitsLast
        BY <1>0 DEF PermitsLast
    <2>5. QED
        BY <1>0, <2>1, <2>2, <2>4, NoEventStep
<1>1. ASSUME NEW w \in Workers, Look(w) \/ Crash(w) PROVE KernelInv'
    <2> DEFINE read == [know[w] EXCEPT !.revision = run[Serves[w]].revision,
                                       !.epoch = run[Serves[w]].epoch, !.now = time]
    <2>1. /\ know' \in [Workers -> Knowledge]
          /\ \A v \in Workers : know'[v].permit # None => know'[v].permit = know[v].permit
        <3>1. CASE Look(w)
            <4>1. run[Serves[w]] \in Projections /\ know[w] \in Knowledge
                BY <1>T, <3>1, KernelAssumption DEF Look, KernelTypeOK
            <4>5. time \in Nat
                BY <1>T DEF KernelTypeOK
            <4>2. read \in Knowledge /\ read.permit = know[w].permit
                BY <4>1, <4>5 DEF Knowledge, Projections
            <4>3. know' = [know EXCEPT ![w] = read]
                BY <3>1 DEF Look
            <4>4. QED
                BY <1>T, <4>2, <4>3 DEF KernelTypeOK
        <3>2. CASE Crash(w)
            BY <1>T, <3>2 DEF Crash, KernelTypeOK, Ignorant, Knowledge
        <3>3. QED
            BY <1>1, <3>1, <3>2
    <2>2. UNCHANGED <<run, events, lease, fencing, time>>
        BY <1>1 DEF Look, Crash
    <2>3. KernelTypeOK'
        BY <1>T, <2>1, <2>2 DEF KernelTypeOK
    <2>4. QED
        BY <1>0, <2>1, <2>2, <2>3
<1>2. ASSUME NEW w \in Workers, Reacquire(w) PROVE KernelInv'
    <2> DEFINE a == Serves[w]
               permit == [token |-> lease[a].token, epoch |-> lease[a].epoch]
    <2>1. a \in Agents /\ lease[a] # None /\ lease[a] \in Leases
        BY <1>T, <1>2, KernelAssumption DEF Reacquire, KernelTypeOK
    <2>2. know' = [know EXCEPT ![w].permit = permit] /\ UNCHANGED <<run, events, lease, fencing, time>>
        BY <1>2 DEF Reacquire
    <2>3. permit \in Permits
        BY <2>1 DEF Leases, Permits
    <2>4. know' \in [Workers -> Knowledge]
        BY <1>T, <2>2, <2>3 DEF KernelTypeOK, Knowledge
    <2>5. KernelTypeOK'
        BY <1>T, <2>2, <2>4 DEF KernelTypeOK
    <2>6. know'[w].permit = permit /\ \A v \in Workers \ {w} : know'[v].permit = know[v].permit
        BY <1>T, <2>2 DEF KernelTypeOK, Knowledge
    <2>7. RowsReplayed /\ LeasesLast
        BY <2>2 DEF RowsReplayed, LeasesLast
    <2>8. PermitsLast
        BY <2>1, <2>6 DEF PermitsLast
    <2>9. QED
        BY <2>2, <2>5, <2>7, <2>8, NoEventStep
<1>3. ASSUME NEW w \in Workers, Renew(w) PROVE KernelInv'
    <2> DEFINE a == Serves[w]
    <2>1. a \in Agents /\ lease[a] # None /\ lease[a] \in Leases /\ run[a] \in Projections
        BY <1>T, <1>3, KernelAssumption DEF Renew, Presents, KernelTypeOK
    <2>2. /\ lease' = [lease EXCEPT ![a].expires = know[w].now + Ttl]
          /\ know' = [know EXCEPT ![w].revision = run[a].revision]
          /\ UNCHANGED <<run, events, fencing, time>>
        BY <1>3 DEF Renew
    <2>3. know[w].now + Ttl \in Nat /\ run[a].revision \in Nat
        BY <1>T, <2>1, KernelAssumption DEF KernelTypeOK, Knowledge, Projections
    <2>4. know' \in [Workers -> Knowledge] /\ \A v \in Workers : know'[v].permit = know[v].permit
        BY <1>T, <2>2, <2>3 DEF KernelTypeOK, Knowledge
    <2>5. /\ lease' \in [Agents -> Leases \cup {None}]
          /\ lease'[a] \in Leases
          /\ lease'[a].token = lease[a].token /\ lease'[a].epoch = lease[a].epoch
          /\ lease'[a].owner = lease[a].owner
          /\ \A b \in Agents \ {a} : lease'[b] = lease[b]
        BY <1>T, <2>1, <2>2, <2>3 DEF KernelTypeOK, Leases
    <2>6. KernelTypeOK'
        BY <1>T, <2>2, <2>4, <2>5 DEF KernelTypeOK
    <2>7. RowsReplayed /\ PermitsLast
        BY <2>2, <2>4 DEF RowsReplayed, PermitsLast
    <2>8. LeasesLast
        BY <2>1, <2>5 DEF LeasesLast
    <2>9. QED
        BY <2>2, <2>6, <2>7, <2>8, NoEventStep
<1>4. ASSUME NEW w \in Workers, Release(w) PROVE KernelInv'
    <2> DEFINE a == Serves[w]
    <2>1. a \in Agents
        BY KernelAssumption
    <2>2. /\ lease' = [lease EXCEPT ![a] = None]
          /\ know' = [know EXCEPT ![w].permit = None]
          /\ UNCHANGED <<run, events, fencing, time>>
        BY <1>4 DEF Release
    <2>3. /\ know' \in [Workers -> Knowledge]
          /\ \A v \in Workers : know'[v].permit # None => know'[v].permit = know[v].permit
        BY <1>T, <2>2 DEF KernelTypeOK, Knowledge
    <2>4. /\ lease' \in [Agents -> Leases \cup {None}]
          /\ \A b \in Agents : lease'[b] # None => lease'[b] = lease[b]
        BY <1>T, <2>1, <2>2 DEF KernelTypeOK
    <2>5. KernelTypeOK'
        BY <1>T, <2>2, <2>3, <2>4 DEF KernelTypeOK
    <2>6. RowsReplayed /\ LeasesLast /\ PermitsLast
        BY <2>2, <2>3, <2>4 DEF RowsReplayed, LeasesLast, PermitsLast
    <2>7. QED
        BY <2>2, <2>5, <2>6, NoEventStep
<1>5. ASSUME NEW a \in Agents, LoseProjection(a) \/ Rebuild(a, time) PROVE KernelInv'
    <2>1. /\ lease' = [lease EXCEPT ![a] = None]
          /\ \/ run' = [run EXCEPT ![a] = None]
             \/ run' = [run EXCEPT ![a] = Current(a)]
          /\ UNCHANGED <<events, fencing, time, know>>
        BY <1>5 DEF LoseProjection, Rebuild, Rebuilt, Current
    <2>2. Current(a) \in Projections
        BY <1>T DEF Projected
    <2>7. /\ lease' \in [Agents -> Leases \cup {None}] /\ lease'[a] = None
          /\ \A b \in Agents \ {a} : lease'[b] = lease[b]
        BY <1>T, <2>1 DEF KernelTypeOK
    <2>8. /\ run' \in [Agents -> Projections \cup {None}] /\ run'[a] \in {None, Current(a)}
          /\ \A b \in Agents \ {a} : run'[b] = run[b]
        <3>1. CASE run' = [run EXCEPT ![a] = None]
            BY <1>T, <3>1 DEF KernelTypeOK
        <3>2. CASE run' = [run EXCEPT ![a] = Current(a)]
            BY <1>T, <2>2, <3>2 DEF KernelTypeOK
        <3>3. QED
            BY <2>1, <3>1, <3>2
    <2>3. KernelTypeOK'
        BY <1>T, <2>1, <2>7, <2>8 DEF KernelTypeOK
    <2>4. RowsReplayed
        BY <2>7, <2>8 DEF RowsReplayed
    <2>5. LeasesLast
        BY <2>7 DEF LeasesLast
    <2>6. PermitsLast
        BY <2>1 DEF PermitsLast
    <2>9. QED
        BY <2>1, <2>3, <2>4, <2>5, <2>6, NoEventStep
<1>6. CASE Tick
    <2>1. UNCHANGED <<run, events, lease, fencing, know>> /\ time' \in 0..MaxTime
        BY <1>T, <1>6, KernelAssumption DEF Tick, KernelTypeOK
    <2>2. KernelTypeOK'
        BY <1>T, <2>1 DEF KernelTypeOK
    <2>3. QED
        BY <1>0, <2>1, <2>2
<1>7. CASE UNCHANGED kernelVars
    <2>1. KernelTypeOK'
        BY <1>T, <1>7 DEF KernelTypeOK, kernelVars
    <2>2. QED
        BY <1>0, <1>7, <2>1 DEF kernelVars
<1>8. QED
    BY <1>1, <1>2, <1>3, <1>4, <1>5, <1>6, <1>7, AcquireStep, MoveStep DEF KernelNext

\* A run that was just created has one event, and nobody owns it.
LEMMA KernelInitially == KernelInit => KernelInv
<1> SUFFICES ASSUME KernelInit PROVE KernelInv
    OBVIOUS
<1> USE DEF KernelInit
<1> DEFINE e == NewEvent("created", Creation, None, None)
<1>1. /\ e \in Events /\ e.kind = "created" /\ e.after = 1 /\ e.epoch = 0
      /\ Creation \in Projections /\ Creation.epoch = 0
    BY DEF NewEvent, Creation, Events, Kinds, States, Created, Ownable, Terminal, Bindings, Owners,
           Projections
<1> HIDE DEF e
<1>2. ASSUME NEW a \in Agents
      PROVE  /\ events[a] = <<e>> /\ Len(events[a]) = 1 /\ DOMAIN events[a] = {1}
             /\ events[a][1] = e /\ run[a] = Creation /\ lease[a] = None
    BY DEF e
<1>3. ASSUME NEW a \in Agents PROVE Current(a) = Creation
    <2>1. Replay(events[a]) = ApplyEvent(None, e)
        BY <1>2, <1>3, ReplayFirst
    <2>2. QED
        BY <1>1, <2>1 DEF Current, ApplyEvent
<1>4. KernelTypeOK
    <2>1. Ignorant \in Knowledge
        BY DEF Ignorant, Knowledge
    <2>2. <<e>> \in Seq(Events)
        BY <1>1
    <2>3. QED
        BY <1>1, <2>1, <2>2, KernelAssumption DEF KernelTypeOK, e
<1>5. \A a \in Agents : Acquisitions(a) = {}
    BY <1>1, <1>2 DEF Acquisitions
<1>6. ASSUME NEW a \in Agents PROVE Projected(a) /\ EpochsPast(a) /\ HolderAcquired(a)
    BY <1>1, <1>2, <1>3, <1>5 DEF Projected, EpochsPast, HolderAcquired
<1>7. PermitsPast /\ OneWriterPerEpoch /\ LeaseIsLatest
    BY <1>2, <1>5 DEF PermitsPast, OneWriterPerEpoch, LeaseIsLatest, Ignorant
<1>8. QED
    BY <1>4, <1>6, <1>7 DEF KernelInv

(***************************************************************************)
(* The theorems about the kernel.                                          *)
(***************************************************************************)

\* The invariant holds in every state of the kernel.
THEOREM KernelInvariant == KernelSpec => []KernelInv
<1>1. QED
    BY KernelInitially, KernelStep, PTL DEF KernelSpec

\* All that is written in an epoch is written by its owner, and leases are of the
\* latest epoch and token, through every crash, takeover, loss and rebuild.
THEOREM OwnershipFenced == KernelSpec => []OwnershipIsFenced
<1>1. KernelInv => OwnershipIsFenced
    BY DEF KernelInv, OwnershipIsFenced
<1>2. QED
    BY <1>1, KernelInvariant, PTL

(***************************************************************************)
(* The inductive invariant of the graph.                                   *)
(***************************************************************************)

\* What an agent is bound to is what it was last bound to, if ever.
BoundAsLogged(a) ==
    /\ Bounds(a) = {} <=> Current(a).binding = None
    /\ Current(a).binding # None => Current(a).binding \in 1..Len(revisions)

\* Each revision but the first is of a patch that was proposed.
Patched ==
    \A i \in 2..Len(revisions) :
        revisions[i].patch \in Patches /\ proposals[revisions[i].patch] # None

GraphInv ==
    /\ GraphTypeOK
    /\ Len(revisions) >= 1
    /\ Patched
    /\ GraphIsChain
    /\ \A a \in Agents : BoundAsLogged(a)
    /\ NoSkippedRevision

AgentInv == KernelInv /\ GraphInv

(***************************************************************************)
(* The steps of the graph.                                                 *)
(***************************************************************************)

\* What a patch compiles to is the content of a graph.
LEMMA CompiledType ==
    ASSUME NEW c \in Contents, NEW p \in Patches
    PROVE  Compiled(c, PatchOf[p]) \in Contents
BY SemanticAssumption DEF Compiled, Over, Contents

\* A step that neither binds an agent nor moves the graph.
LEMMA Unmoved ==
    ASSUME GraphInv, UNCHANGED <<revisions, proposals>>, GraphTypeOK',
           GraphIsChain',
           \A a \in Agents : Bounds(a)' = Bounds(a) /\ (Current(a).binding)' = Current(a).binding
                             /\ \A j \in Bounds(a) : events'[a][j] = events[a][j]
    PROVE  GraphInv'
<1>1. \A a \in Agents : BoundAsLogged(a)'
    BY DEF GraphInv, BoundAsLogged
<1>2. NoSkippedRevision'
    BY DEF GraphInv, NoSkippedRevision
<1>3. QED
    BY <1>1, <1>2 DEF GraphInv, Patched

\* The steps of the kernel leave the graph and what agents are bound to.
LEMMA KernelKeepsGraph ==
    AgentInv /\ KernelNext /\ UNCHANGED graphVars => GraphInv'
<1> SUFFICES ASSUME AgentInv, KernelNext, UNCHANGED graphVars PROVE GraphInv'
    OBVIOUS
<1>1. KernelInv /\ GraphInv /\ KernelTypeOK /\ \A a \in Agents : Projected(a)
    BY DEF AgentInv, KernelInv
<1>2. GraphTypeOK' /\ GraphIsChain' /\ UNCHANGED <<revisions, proposals>>
    BY <1>1 DEF graphVars, GraphInv, GraphTypeOK, GraphIsChain
<1> DEFINE Same(a) == /\ Bounds(a)' = Bounds(a) /\ (Current(a).binding)' = Current(a).binding
                      /\ \A j \in Bounds(a) : events'[a][j] = events[a][j]
<1>3. ASSUME UNCHANGED events, NEW a \in Agents PROVE Same(a)
    BY <1>3 DEF Bounds, Current
<1>4. ASSUME NEW w \in Workers, NEW kind \in Kinds \ {"bound"}, NEW new,
             Write(w, kind, new), LegalWrite(w, kind, new), NEW a \in Agents
      PROVE  Same(a)
    <2>1. Written(w, kind, new) /\ kind # "bound"
        BY <1>1, <1>4, WriteStep
    <2>2. CASE a = Serves[w]
        <3>1. Len(events[a]) \in Nat /\ run[a] = Current(a)
            BY <1>1, <1>4, <2>2, LenProperties DEF KernelTypeOK, LegalWrite, Projected
        <3>2. Current(a)' = new /\ new.binding = run[a].binding
            BY <1>4, <2>1, <2>2 DEF Written, LegalWrite
        <3>3. /\ DOMAIN events[a] = 1..Len(events[a]) /\ DOMAIN events'[a] = 1..(Len(events[a]) + 1)
              /\ events'[a][Len(events[a]) + 1].kind = kind
              /\ \A i \in 1..Len(events[a]) : events'[a][i] = events[a][i]
            BY <2>1, <2>2 DEF Written, NewEvent
        <3>4. Bounds(a)' = Bounds(a)
            BY <2>1, <3>1, <3>3 DEF Bounds
        <3>5. \A j \in Bounds(a) : events'[a][j] = events[a][j]
            BY <3>3 DEF Bounds
        <3>6. QED
            BY <3>1, <3>2, <3>4, <3>5
    <2>3. CASE a # Serves[w]
        BY <2>1, <2>3 DEF Written, Bounds
    <2>4. QED
        BY <2>2, <2>3
<1>5. \A a \in Agents : Same(a)
    <2>1. ASSUME NEW w \in Workers, Acquire(w), NEW a \in Agents PROVE Same(a)
        <3>1. run[Serves[w]] \in Projections /\ run[Serves[w]] # None
            BY <1>1, <2>1, KernelAssumption DEF Acquire, Expected, KernelTypeOK
        <3>2. LegalWrite(w, "acquired", Taken(Serves[w])) /\ Write(w, "acquired", Taken(Serves[w]))
            BY <2>1, <3>1, TakenIsLegal DEF Acquire
        <3>3. QED
            BY <1>4, <3>2 DEF Kinds
    <2>2. ASSUME NEW w \in Workers, NEW to \in States, MoveUnowned(w, to) \/ MoveOwned(w, to),
                 NEW a \in Agents
          PROVE  Same(a)
        <3>1. PICK new : Write(w, "moved", new) /\ LegalWrite(w, "moved", new)
            BY <1>1, <2>2, MoveIsLegal
        <3>2. QED
            BY <1>4, <3>1 DEF Kinds
    <2>3. CASE UNCHANGED events
        BY <1>3, <2>3
    <2>4. QED
        BY <2>1, <2>2, <2>3
           DEF KernelNext, Look, Reacquire, Renew, Release, Crash, LoseProjection, Rebuild, Tick
<1>6. QED
    BY <1>1, <1>2, <1>5, Unmoved

\* A binding event: the agent is bound to the next revision after the one it was bound
\* to, or to the head if it was not bound.
LEMMA BindStep ==
    ASSUME KernelInv, GraphInv, NEW w \in Workers, NEW revision,
           ValidAgent(w), Bind(w, revision),
           Len(revisions') \in Nat, Len(revisions) <= Len(revisions'), revision \in 1..Len(revisions'),
           \/ run[Serves[w]].binding = None
           \/ run[Serves[w]].binding = revision - 1
    PROVE  KernelInv' /\ (\A a \in Agents : BoundAsLogged(a)') /\ NoSkippedRevision'
<1> DEFINE a == Serves[w]
           p == Successor(a)
           new == [p EXCEPT !.binding = revision]
           n == Len(events[a])
<1>1. /\ a \in Agents /\ run[a] # None /\ run[a] \in Projections /\ run[a] = Current(a)
      /\ n \in Nat /\ DOMAIN events[a] = 1..n
      /\ \A b \in Agents : BoundAsLogged(b)
    BY KernelAssumption, LenProperties
       DEF KernelInv, KernelTypeOK, ValidAgent, Expected, Projected, GraphInv
<1>2. revision \in Nat /\ revision \in Bindings /\ revision # None
    BY NoneAssumption DEF Bindings
<1>3. /\ new \in Projections /\ new.revision = run[a].revision + 1 /\ new.epoch = run[a].epoch
      /\ new.state = run[a].state /\ new.binding = revision
    <2>1. p \in Projections
        BY <1>1, SuccessorIs
    <2>2. new \in Projections
        BY <1>2, <2>1 DEF Projections
    <2>3. QED
        BY <1>1, <2>1, <2>2, SuccessorIs DEF Projections
<1>4. LegalWrite(w, "bound", new)
    BY <1>1, <1>3 DEF LegalWrite, Continues, NewEvent
<1>5. /\ Write(w, "bound", new) /\ Learns(w, new) /\ UNCHANGED <<lease, fencing, time>>
      /\ Presents(w)
    BY DEF Bind, ValidAgent
<1> HIDE DEF new
<1>6. KernelInv' /\ Written(w, "bound", new)
    <2>1. /\ \A b \in Agents : lease'[b] = lease[b] \/ lease'[b] = None
          /\ lease' \in [Agents -> Leases \cup {None}]
        BY <1>5 DEF KernelInv, KernelTypeOK
    <2>2. QED
        BY <1>3, <1>4, <1>5, <2>1, EpochWriteStep
<1>7. /\ DOMAIN events'[a] = 1..(n + 1)
      /\ events'[a][n + 1].kind = "bound" /\ events'[a][n + 1].binding = revision
      /\ events'[a][n + 1].from = run[a].binding
      /\ \A i \in 1..n : events'[a][i] = events[a][i]
      /\ Current(a)' = new
      /\ \A b \in Agents \ {a} : events'[b] = events[b] /\ Current(b)' = Current(b)
    <2>1. Written(w, "bound", new)
        BY <1>6
    <2>2. /\ DOMAIN events'[a] = 1..(n + 1)
          /\ events'[a][n + 1] = NewEvent("bound", new, run[a].binding, OwnerOf[w])
          /\ \A i \in 1..n : events'[a][i] = events[a][i]
          /\ Current(a)' = new
          /\ \A b \in Agents \ {a} : events'[b] = events[b] /\ Current(b)' = Current(b)
        BY ONLY <2>1 DEF Written
    <2>3. QED
        BY ONLY <1>3, <2>2 DEF NewEvent
<1>8. Bounds(a)' = Bounds(a) \cup {n + 1} /\ Bounds(a) \subseteq 1..n
    <2>1. n \in Nat /\ DOMAIN events[a] = 1..n
        BY <1>1
    <2>2. 1..(n + 1) = (1..n) \cup {n + 1} /\ n + 1 \notin 1..n
        BY <2>1
    <2>3. QED
        BY ONLY <1>7, <2>1, <2>2 DEF Bounds
<1>9. \A b \in Agents \ {a} : Bounds(b)' = Bounds(b)
    BY <1>7 DEF Bounds
<1>10. Len(revisions) \in Nat
    BY LenProperties DEF GraphInv, GraphTypeOK
<1>11. \A r \in 1..Len(revisions) : r \in 1..Len(revisions')
    BY <1>10
<1>12. ASSUME NEW b \in Agents PROVE BoundAsLogged(b)'
    <2>1. CASE b = a
        BY <1>2, <1>3, <1>7, <1>8, <2>1 DEF BoundAsLogged
    <2>2. CASE b # a
        BY <1>1, <1>7, <1>9, <1>11, <2>2 DEF BoundAsLogged
    <2>3. QED
        BY <2>1, <2>2
<1>13. NoSkippedRevision'
    <2>1. SUFFICES ASSUME NEW b \in Agents, NEW j \in Bounds(b)'
          PROVE  /\ events'[b][j].binding \in 1..Len(revisions')
                 /\ events'[b][j].from =
                        IF \E i \in Bounds(b)' : i < j THEN events'[b][j].binding - 1 ELSE None
        BY DEF NoSkippedRevision
    <2>2. ASSUME j \in Bounds(b)
          PROVE  /\ events[b][j].binding \in 1..Len(revisions')
                 /\ events[b][j].from =
                        IF \E i \in Bounds(b) : i < j THEN events[b][j].binding - 1 ELSE None
        BY <1>11, <2>2 DEF GraphInv, NoSkippedRevision
    <2>3. CASE b # a
        BY <1>7, <1>9, <2>1, <2>2, <2>3
    <2>4. CASE b = a /\ j \in Bounds(a)
        <3>1. (\E i \in Bounds(a)' : i < j) <=> \E i \in Bounds(a) : i < j
            BY <1>1, <1>8, <2>4
        <3>2. events'[a][j] = events[a][j]
            BY <1>7, <1>8, <2>4
        <3>3. QED
            BY <2>2, <2>4, <3>1, <3>2
    <2>5. CASE b = a /\ j = n + 1
        <3>1. (\E i \in Bounds(a)' : i < j) <=> Bounds(a) # {}
            BY <1>1, <1>8, <2>5
        <3>2. Bounds(a) # {} <=> run[a].binding # None
            BY <1>1 DEF BoundAsLogged
        <3>3. run[a].binding # None => run[a].binding = revision - 1
            OBVIOUS
        <3>4. QED
            BY <1>7, <2>5, <3>1, <3>2, <3>3
    <2>6. QED
        BY <1>8, <2>1, <2>3, <2>4, <2>5
<1>14. QED
    BY <1>6, <1>12, <1>13

\* An agent attaches at the head, which is the last revision.
LEMMA AttachStep ==
    ASSUME AgentInv, NEW w \in Workers, NEW revision \in 1..Len(revisions), AttachGraph(w, revision)
    PROVE  AgentInv'
<1>1. KernelInv /\ GraphInv /\ Len(revisions) \in Nat
    BY LenProperties DEF AgentInv, GraphInv, GraphTypeOK
<1>2. /\ ValidAgent(w) /\ Bind(w, revision) /\ run[Serves[w]].binding = None
      /\ UNCHANGED <<head, revisions, proposals, receipts>>
      /\ attached' = [attached EXCEPT ![w] = Receipt(w, revision)]
    BY DEF AttachGraph
<1>3. KernelInv' /\ (\A a \in Agents : BoundAsLogged(a)') /\ NoSkippedRevision'
    BY <1>1, <1>2, BindStep
<1>4. Receipt(w, revision) \in Receipts
    <2>1. know[w] \in Knowledge /\ know[w].permit \in Permits
        BY <1>1, <1>2 DEF KernelInv, KernelTypeOK, ValidAgent, Presents, Knowledge
    <2>2. QED
        BY <1>1, <2>1 DEF Receipt, Receipts, Knowledge, Permits
<1>5. GraphTypeOK'
    BY <1>1, <1>2, <1>4 DEF GraphInv, GraphTypeOK
<1>6. GraphIsChain'
    BY <1>1, <1>2 DEF GraphInv, GraphIsChain
<1>7. QED
    BY <1>1, <1>2, <1>3, <1>5, <1>6 DEF AgentInv, GraphInv, Patched

\* A commit appends the revision its patch was compiled for, and binds its agent to it.
LEMMA CommitStep ==
    ASSUME AgentInv, NEW w \in Workers, NEW p \in Patches, CommitPatch(w, p)
    PROVE  AgentInv'
<1> DEFINE n == Len(revisions)
           new == [content |-> Compiled(head.content, PatchOf[p]), parent |-> head.revision,
                   patch |-> p]
<1>1. KernelInv /\ GraphInv /\ revisions \in Seq(Revisions) /\ n \in Nat /\ DOMAIN revisions = 1..n
    BY LenProperties DEF AgentInv, GraphInv, GraphTypeOK
<1>2. head \in Heads /\ head.revision = n /\ head.content = revisions[n].content /\ n >= 1
    BY <1>1 DEF CommitPatch, BaseIsHead, GraphInv, GraphTypeOK, GraphIsChain
<1>3. /\ ValidAgent(w) /\ Bind(w, n + 1) /\ run[Serves[w]].binding = n
      /\ revisions' = Append(revisions, new)
      /\ head' = [revision |-> n + 1, content |-> new.content]
      /\ proposals' = [proposals EXCEPT ![p].state = "committed"]
      /\ receipts' = [receipts EXCEPT ![<<w, p>>] = Receipt(w, n + 1)]
      /\ UNCHANGED attached
    BY <1>2 DEF CommitPatch, PinnedToHead, WriteCompiled, Settle
<1>4. /\ proposals[p] \in Proposals /\ proposals[p].state = "proposed" /\ proposals[p].base = n
      /\ proposals \in [Patches -> Proposals \cup {None}]
    BY <1>1, <1>2 DEF CommitPatch, Pending, BaseIsHead, GraphInv, GraphTypeOK
<1>5. new \in Revisions /\ new.content \in Contents /\ new.patch = p /\ new.parent = n
      /\ new.content = Compiled(revisions[n].content, PatchOf[p])
    <2>1. head.content \in Contents /\ head.revision \in Nat
        BY <1>2 DEF Heads
    <2>2. Compiled(head.content, PatchOf[p]) \in Contents
        BY <2>1, CompiledType
    <2>3. QED
        BY <1>2, <2>1, <2>2 DEF Revisions
<1> HIDE DEF new
<1>6. /\ revisions' \in Seq(Revisions) /\ Len(revisions') = n + 1
      /\ revisions'[n + 1] = new
      /\ \A i \in 1..n : revisions'[i] = revisions[i]
    BY <1>1, <1>3, <1>5, AppendProperties
<1>7. KernelInv' /\ (\A a \in Agents : BoundAsLogged(a)') /\ NoSkippedRevision'
    <2>1. /\ Len(revisions') \in Nat /\ Len(revisions) <= Len(revisions')
          /\ n + 1 \in 1..Len(revisions') /\ run[Serves[w]].binding = (n + 1) - 1
        BY <1>1, <1>3, <1>6
    <2>2. QED
        BY <1>1, <1>3, <2>1, BindStep
<1>8. /\ proposals' \in [Patches -> Proposals \cup {None}]
      /\ proposals'[p].state = "committed" /\ proposals'[p].base = n
      /\ \A q \in Patches \ {p} : proposals'[q] = proposals[q]
    BY <1>3, <1>4 DEF Proposals
<1>9. GraphTypeOK'
    <2>1. know[w] \in Knowledge /\ know[w].permit \in Permits
        BY <1>1, <1>3 DEF KernelInv, KernelTypeOK, ValidAgent, Presents, Knowledge
    <2>2. Receipt(w, n + 1) \in Receipts
        BY <1>1, <2>1 DEF Receipt, Receipts, Knowledge, Permits
    <2>3. receipts' \in [CommitIds -> Receipts \cup {None}]
        BY <1>1, <1>3, <2>2 DEF GraphInv, GraphTypeOK, CommitIds
    <2>4. head' \in Heads
        BY <1>1, <1>3, <1>5 DEF Heads
    <2>5. QED
        BY <1>1, <1>3, <1>6, <1>8, <2>3, <2>4 DEF GraphInv, GraphTypeOK
<1>10. \A i \in 2..n : /\ revisions[i].patch \in Patches \ {p}
                       /\ proposals'[revisions[i].patch] = proposals[revisions[i].patch]
    <2>1. \A i \in 2..n : /\ revisions[i].patch \in Patches
                          /\ proposals[revisions[i].patch].state = "committed"
        BY <1>1 DEF GraphInv, Patched, GraphIsChain
    <2>2. QED
        BY <1>4, <1>8, <2>1
<1>11. ASSUME NEW i \in 2..(n + 1)
       PROVE  LET r == revisions'[i] IN
              /\ r.patch \in Patches
              /\ r.parent = i - 1 /\ proposals'[r.patch].base = i - 1
              /\ proposals'[r.patch].state = "committed"
              /\ r.content = Compiled(revisions'[i - 1].content, PatchOf[r.patch])
              /\ \A j \in 2..(n + 1) : revisions'[j].patch = r.patch => j = i
    <2>1. CASE i = n + 1
        <3>1. \A j \in 2..(n + 1) : revisions'[j].patch = p => j = n + 1
            BY <1>1, <1>6, <1>10
        <3>2. revisions'[n] = revisions[n] /\ (n + 1) - 1 = n
            BY <1>1, <1>2, <1>6
        <3>3. QED
            BY <1>5, <1>6, <1>8, <2>1, <3>1, <3>2
    <2>2. CASE i \in 2..n
        <3>1. /\ revisions'[i] = revisions[i] /\ revisions'[i - 1] = revisions[i - 1]
              /\ revisions[i].patch \in Patches \ {p}
              /\ proposals'[revisions[i].patch] = proposals[revisions[i].patch]
            BY <1>1, <1>6, <1>10, <2>2
        <3>2. /\ revisions[i].parent = i - 1 /\ proposals[revisions[i].patch].base = i - 1
              /\ proposals[revisions[i].patch].state = "committed"
              /\ revisions[i].content = Compiled(revisions[i - 1].content, PatchOf[revisions[i].patch])
              /\ \A j \in 2..n : revisions[j].patch = revisions[i].patch => j = i
            BY <1>1, <2>2 DEF GraphInv, GraphIsChain
        <3>3. \A j \in 2..(n + 1) : revisions'[j].patch = revisions[i].patch => j = i
            <4>1. revisions'[n + 1].patch # revisions[i].patch
                BY <1>5, <1>6, <3>1
            <4>2. \A j \in 2..n : revisions'[j] = revisions[j]
                BY <1>1, <1>6
            <4>3. \A j \in 2..(n + 1) : j \in 2..n \/ j = n + 1
                BY <1>1
            <4>4. QED
                BY <3>2, <4>1, <4>2, <4>3
        <3>4. QED
            BY <3>1, <3>2, <3>3
    <2>3. QED
        BY <1>1, <2>1, <2>2
<1>12. GraphIsChain'
    <2>1. head' = [revision |-> Len(revisions'), content |-> revisions'[Len(revisions')].content]
        BY <1>3, <1>6
    <2>2. QED
        BY <1>6, <1>11, <2>1 DEF GraphIsChain
<1>13. Len(revisions') >= 1 /\ Patched'
    <2>1. \A i \in 2..n : proposals[revisions[i].patch] # None
        BY <1>1 DEF GraphInv, Patched
    <2>2. proposals'[p] # None
        <3>1. proposals'[p] \in Proposals
            BY <1>3, <1>4 DEF Proposals
        <3>2. QED
            BY <3>1, NothingAssumption
    <2>3. ASSUME NEW i \in 2..(n + 1)
          PROVE  revisions'[i].patch \in Patches /\ proposals'[revisions'[i].patch] # None
        <3>1. CASE i = n + 1
            BY <1>5, <1>6, <2>2, <3>1
        <3>2. CASE i \in 2..n
            BY <1>1, <1>6, <1>10, <2>1, <3>2
        <3>3. QED
            BY <1>1, <3>1, <3>2
    <2>4. QED
        BY <1>1, <1>6, <2>3 DEF Patched
<1>14. QED
    BY <1>7, <1>9, <1>12, <1>13 DEF AgentInv, GraphInv

\* A proposal is new, so no revision is of it; the head is lost, or rebuilt from the last
\* revision.
LEMMA HeadStep ==
    ASSUME AgentInv,
           \/ \E p \in Patches, stale \in BOOLEAN : Propose(p, stale)
           \/ LoseHead \/ RebuildGraphHead
    PROVE  AgentInv'
<1> DEFINE n == Len(revisions)
<1>1. KernelInv /\ GraphInv /\ revisions \in Seq(Revisions) /\ n \in Nat /\ n >= 1
      /\ GraphTypeOK /\ GraphIsChain /\ DOMAIN revisions = 1..n
    BY LenProperties DEF AgentInv, GraphInv, GraphTypeOK
<1>2. UNCHANGED kernelVars /\ UNCHANGED <<revisions, receipts, attached>>
    BY DEF Propose, LoseHead, RebuildGraphHead
<1>3. KernelInv'
    BY <1>1, <1>2, KernelStep
<1>4. (\A a \in Agents : BoundAsLogged(a)') /\ NoSkippedRevision'
    BY <1>1, <1>2
       DEF GraphInv, kernelVars, BoundAsLogged, NoSkippedRevision, Bounds, Current
<1>5. GraphTypeOK' /\ GraphIsChain' /\ Patched'
    <2>1. ASSUME NEW p \in Patches, NEW stale \in BOOLEAN, Propose(p, stale)
          PROVE  GraphTypeOK' /\ GraphIsChain' /\ Patched'
        <3>1. PICK record \in Proposals :
                  /\ proposals[p] = None /\ proposals' = [proposals EXCEPT ![p] = record]
                  /\ UNCHANGED head
            <4>1. head \in Heads
                BY <1>1, <2>1 DEF Propose, GraphTypeOK
            <4>2. /\ [state |-> "proposed", base |-> head.revision,
                      compiled |-> Compiled(head.content, PatchOf[p])] \in Proposals
                  /\ [state |-> "validation_failed", base |-> 0, compiled |-> None] \in Proposals
                BY <4>1, CompiledType DEF Heads, Proposals
            <4>3. QED
                BY <2>1, <4>2 DEF Propose, SaveProposal
        <3>2. GraphTypeOK'
            BY <1>1, <1>2, <3>1 DEF GraphTypeOK
        <3>3. \A i \in 2..n : revisions[i].patch \in Patches \ {p}
            BY <1>1, <3>1 DEF GraphInv, Patched
        <3>4. \A i \in 2..n : proposals'[revisions[i].patch] = proposals[revisions[i].patch]
            BY <1>1, <3>1, <3>3 DEF GraphTypeOK
        <3>5. GraphIsChain'
            <4>1. UNCHANGED <<head, revisions>>
                BY <1>2, <3>1
            <4>2. ASSUME NEW i \in 2..n
                  PROVE  /\ proposals'[revisions[i].patch].base = i - 1
                         /\ proposals'[revisions[i].patch].state = "committed"
                BY <1>1, <3>4 DEF GraphIsChain
            <4>3. QED
                BY <1>1, <4>1, <4>2 DEF GraphIsChain
        <3>6. Patched'
            BY <1>1, <1>2, <3>4 DEF GraphInv, Patched
        <3>7. QED
            BY <3>2, <3>5, <3>6
    <2>2. CASE LoseHead
        BY <1>1, <1>2, <2>2 DEF LoseHead, GraphInv, GraphTypeOK, GraphIsChain, Patched
    <2>3. CASE RebuildGraphHead
        <3>1. revisions[n] \in Revisions
            BY <1>1, ElementOfSeq
        <3>2. /\ head' = [revision |-> n, content |-> revisions[n].content] /\ head' \in Heads
              /\ UNCHANGED proposals
            BY <1>1, <2>3, <3>1 DEF RebuildGraphHead, Revisions, Heads
        <3>3. QED
            BY <1>1, <1>2, <3>2 DEF GraphInv, GraphTypeOK, GraphIsChain, Patched
    <2>4. QED
        BY <2>1, <2>2, <2>3
<1>6. QED
    BY <1>1, <1>2, <1>3, <1>4, <1>5 DEF AgentInv, GraphInv

(***************************************************************************)
(* The beginning of the graph, and the theorems about it.                  *)
(***************************************************************************)

\* Each run has a first worker and a token of its own.
LEMMA FirstOnes ==
    /\ FirstWorker \in [Agents -> Workers] /\ \A a \in Agents : Serves[FirstWorker[a]] = a
    /\ Cardinality(Agents) \in Nat /\ FirstToken \in [Agents -> 1..Cardinality(Agents)]
<1>1. \E f \in [Agents -> Workers] : \A a \in Agents : Serves[f[a]] = a
    <2> DEFINE f == [a \in Agents |-> CHOOSE w \in Workers : Serves[w] = a]
    <2>1. f \in [Agents -> Workers] /\ \A a \in Agents : Serves[f[a]] = a
        BY ServedAssumption
    <2>2. QED
        BY <2>1
<1>2. Cardinality(Agents) \in Nat /\ ExistsBijection(1..Cardinality(Agents), Agents)
    BY ServedAssumption, FS_CardinalityType
<1>3. \E f \in [Agents -> 1..Cardinality(Agents)] : \A a, b \in Agents : f[a] = f[b] => a = b
    <2>1. PICK g \in [1..Cardinality(Agents) -> Agents] :
              \A a \in Agents : \E i \in 1..Cardinality(Agents) : g[i] = a
        BY <1>2 DEF ExistsBijection, Bijection, Surjection
    <2> DEFINE f == [a \in Agents |-> CHOOSE i \in 1..Cardinality(Agents) : g[i] = a]
    <2>2. \A a \in Agents : f[a] \in 1..Cardinality(Agents) /\ g[f[a]] = a
        BY <2>1
    <2>3. f \in [Agents -> 1..Cardinality(Agents)]
        BY <2>2
    <2> HIDE DEF f
    <2>4. QED
        BY <2>2, <2>3
<1>4. QED
    BY <1>1, <1>2, <1>3 DEF FirstWorker, FirstToken

\* The four events that opened a run replay to it.
LEMMA OpenedReplays ==
    ASSUME NEW a \in Agents, NEW log, log = Opened(a)
    PROVE  /\ log \in Seq(Events) /\ DOMAIN log = 1..4 /\ Replay(log) = Active
           /\ \A i \in 1..4 : /\ log[i].kind = "acquired" <=> i = 3
                              /\ log[i].kind # "bound"
                              /\ log[i].epoch = IF i < 3 THEN 0 ELSE 1
                              /\ i >= 3 => log[i].by = OwnerOf[FirstWorker[a]]
<1> DEFINE by == OwnerOf[FirstWorker[a]]
           p2 == [state |-> "admitted", revision |-> 2, epoch |-> 0, binding |-> None]
           p3 == [state |-> "admitted", revision |-> 3, epoch |-> 1, binding |-> None]
           e1 == NewEvent("created", Creation, None, None)
           e2 == NewEvent("moved", p2, None, by)
           e3 == NewEvent("acquired", p3, None, by)
           e4 == NewEvent("moved", Active, None, by)
<1>1. log = <<e1, e2, e3, e4>>
    BY DEF Opened, Active, Creation
<1>2. by \in Owners /\ None \in Owners
    BY FirstOnes DEF Owners
<1>3. /\ e1 \in Events /\ e1.kind = "created" /\ e1.epoch = 0 /\ e1.after = 1
      /\ Creation.state = "created" /\ Creation.revision = 1 /\ Creation.epoch = 0
      /\ Creation.binding = None /\ Creation \in Projections
    BY <1>2 DEF Creation, NewEvent, Events, Kinds, States, Created, Ownable, Terminal, Bindings,
                Projections
<1>4. /\ e2 \in Events /\ e2.kind = "moved" /\ e2.epoch = 0 /\ e2.after = 2 /\ e2.by = by
      /\ e2.to = "admitted"
      /\ p2 \in Projections
    BY <1>2 DEF NewEvent, Events, Kinds, States, Created, Ownable, Terminal, Bindings,
                Projections
<1>5. /\ e3 \in Events /\ e3.kind = "acquired" /\ e3.epoch = 1 /\ e3.after = 3 /\ e3.by = by
      /\ p3 \in Projections
    BY <1>2 DEF NewEvent, Events, Kinds, States, Created, Ownable, Terminal, Bindings,
                Projections
<1>6. /\ e4 \in Events /\ e4.kind = "moved" /\ e4.epoch = 1 /\ e4.after = 4 /\ e4.by = by
      /\ e4.to = "active"
    BY <1>2 DEF Active, NewEvent, Events, Kinds, States, Created, Ownable, Terminal, Bindings
<1> HIDE DEF e1, e2, e3, e4, p2, p3, by
<1>7. ApplyEvent(None, e1) = Creation
    BY <1>3 DEF ApplyEvent
<1>8. ApplyEvent(Creation, e2) = p2
    BY <1>3, <1>4, NoneAssumption DEF ApplyEvent, Continues, Legal, p2
<1>9. ApplyEvent(p2, e3) = p3
    BY <1>4, <1>5, NoneAssumption DEF ApplyEvent, Continues, Ownable, p2, p3
<1>10. ApplyEvent(p3, e4) = Active
    BY <1>5, <1>6, NoneAssumption DEF ApplyEvent, Continues, Legal, Active, p3
<1>11. Len(log) = 4 /\ log[1] = e1 /\ log[2] = e2 /\ log[3] = e3 /\ log[4] = e4
    BY <1>1
<1>12. log \in Seq(Events) /\ DOMAIN log = 1..4
    BY <1>1, <1>3, <1>4, <1>5, <1>6
<1>13. Replay(log) = Active
    <2>0. Len(log) \in Nat
        BY <1>11
    <2>1. PICK f : IsReplay(f, log, 4) /\ Replay(log) = f[4]
        <3>1. \E f : IsReplay(f, log, Len(log)) /\ Replay(log) = f[Len(log)]
            BY <2>0, ReplayIs
        <3>2. QED
            BY <1>11, <3>1
    <2>2. \A i \in 0..4 : f[i] = IF i = 0 THEN None ELSE ApplyEvent(f[i - 1], log[i])
        BY <2>1 DEF IsReplay
    <2>3. f[0] = None
        BY <2>2
    <2>4. f[1] = Creation
        BY <1>7, <1>11, <2>2, <2>3
    <2>5. f[2] = p2
        BY <1>8, <1>11, <2>2, <2>4
    <2>6. f[3] = p3
        BY <1>9, <1>11, <2>2, <2>5
    <2>7. f[4] = Active
        BY <1>10, <1>11, <2>2, <2>6
    <2>8. QED
        BY <2>1, <2>7
<1>14. QED
    BY <1>3, <1>4, <1>5, <1>6, <1>11, <1>12, <1>13 DEF by

\* The graph opens with one revision, and each run in the hands of its first worker.
LEMMA GraphInitially == Init => AgentInv
<1> SUFFICES ASSUME Init PROVE AgentInv
    OBVIOUS
<1> DEFINE n == Cardinality(Agents)
           Permit(a) == [token |-> FirstToken[a], epoch |-> 1]
<1>1. /\ n \in Nat /\ Active \in Projections /\ Active.epoch = 1 /\ Active.state = "active"
      /\ Active.binding = None
    BY FirstOnes DEF Active, Projections, States, Ownable, Bindings
<1>2. ASSUME NEW a \in Agents
      PROVE  /\ FirstToken[a] \in Nat /\ FirstToken[a] <= n /\ Permit(a) \in Permits
             /\ OwnerOf[FirstWorker[a]] \in {OwnerOf[w] : w \in Workers}
    BY <1>1, FirstOnes DEF Permits
<1>3. ASSUME NEW a \in Agents
      PROVE  /\ events[a] \in Seq(Events) /\ DOMAIN events[a] = 1..4 /\ Current(a) = Active
             /\ \A i \in 1..4 : /\ events[a][i].kind = "acquired" <=> i = 3
                                /\ events[a][i].kind # "bound"
                                /\ events[a][i].epoch = IF i < 3 THEN 0 ELSE 1
                                /\ i >= 3 => events[a][i].by = OwnerOf[FirstWorker[a]]
    <2>1. events[a] = Opened(a)
        BY DEF Init
    <2>2. QED
        BY <2>1, OpenedReplays DEF Current
<1>4. ASSUME NEW a \in Agents
      PROVE  /\ run[a] = Active /\ lease[a] \in Leases /\ lease[a].token = FirstToken[a]
             /\ lease[a].epoch = 1 /\ lease[a].owner = OwnerOf[FirstWorker[a]]
             /\ Acquisitions(a) = {3} /\ Bounds(a) = {} /\ events[a][3].epoch = 1
             /\ \A j \in DOMAIN events[a] : events[a][j].epoch <= 1
             /\ \A j \in DOMAIN events[a] :
                    events[a][j].epoch = 1 => events[a][j].by = OwnerOf[FirstWorker[a]]
    <2>1. run[a] = Active /\ lease[a] = [owner |-> OwnerOf[FirstWorker[a]], token |-> FirstToken[a],
                                         epoch |-> 1, expires |-> Ttl]
        BY DEF Init
    <2>2. Acquisitions(a) = {3} /\ Bounds(a) = {}
        BY <1>3 DEF Acquisitions, Bounds
    <2>3. lease[a] \in Leases
        <3>1. FirstToken[a] \in Nat /\ OwnerOf[FirstWorker[a]] \in {OwnerOf[w] : w \in Workers}
            BY <1>2
        <3>2. Ttl \in Nat
            BY KernelAssumption
        <3>3. QED
            BY <2>1, <3>1, <3>2 DEF Leases
    <2>4. 3 \in 1..4 /\ events[a][3].epoch = 1
        BY <1>3
    <2>5. ASSUME NEW j \in DOMAIN events[a]
          PROVE  events[a][j].epoch <= 1
                 /\ (events[a][j].epoch = 1 => events[a][j].by = OwnerOf[FirstWorker[a]])
        <3>1. j \in 1..4
            BY <1>3
        <3>2. CASE j < 3
            BY <1>3, <3>1, <3>2
        <3>3. CASE j >= 3
            BY <1>3, <3>1, <3>3
        <3>4. QED
            BY <3>1, <3>2, <3>3
    <2>6. QED
        BY <2>1, <2>2, <2>3, <2>4, <2>5
<1>5. ASSUME NEW w \in Workers
      PROVE  /\ Serves[w] \in Agents /\ know[w] \in Knowledge
             /\ know[w].permit # None => know[w].permit = Permit(Serves[w])
    <2>1. Serves[w] \in Agents
        BY KernelAssumption
    <2>2. CASE w = FirstWorker[Serves[w]]
        <3>1. know[w] = [revision |-> 4, epoch |-> 1, now |-> 0, permit |-> Permit(Serves[w])]
            BY <2>2 DEF Init
        <3>2. QED
            BY <1>2, <2>1, <3>1 DEF Knowledge
    <2>3. CASE w # FirstWorker[Serves[w]]
        <3>1. know[w] = Ignorant
            BY <2>3 DEF Init
        <3>2. QED
            BY <2>1, <3>1 DEF Knowledge, Ignorant
    <2>4. QED
        BY <2>2, <2>3
<1>6. KernelTypeOK
    <2>1. events \in [Agents -> Seq(Events)]
        BY <1>3 DEF Init
    <2>2. run \in [Agents -> Projections \cup {None}] /\ lease \in [Agents -> Leases \cup {None}]
        BY <1>1, <1>4 DEF Init
    <2>3. know \in [Workers -> Knowledge]
        BY <1>5 DEF Init
    <2>4. fencing \in Nat /\ time \in 0..MaxTime
        BY <1>1, KernelAssumption DEF Init
    <2>5. QED
        BY <2>1, <2>2, <2>3, <2>4 DEF KernelTypeOK
<1>7. fencing = n
    BY DEF Init
<1> HIDE DEF n
<1>8. ASSUME NEW a \in Agents PROVE Projected(a) /\ EpochsPast(a) /\ HolderAcquired(a)
    <2>1. Projected(a)
        BY <1>1, <1>3, <1>4 DEF Projected
    <2>2. EpochsPast(a)
        BY <1>1, <1>3, <1>4 DEF EpochsPast
    <2>3. HolderAcquired(a)
        <3>1. lease[a].token <= fencing /\ lease[a].epoch = 1
            BY <1>2, <1>4, <1>7
        <3>2. events[a][3].by = lease[a].owner
            BY <1>3, <1>4
        <3>3. QED
            BY <1>4, <3>1, <3>2 DEF HolderAcquired
    <2>4. QED
        BY <2>1, <2>2, <2>3
<1>9. PermitsPast
    <2>1. ASSUME NEW w \in Workers, know[w].permit # None
          PROVE  know[w].permit.token <= fencing /\ know[w].permit.epoch <= Current(Serves[w]).epoch
        <3>1. know[w].permit = Permit(Serves[w]) /\ Serves[w] \in Agents
            BY <1>5, <2>1
        <3>2. Current(Serves[w]).epoch = 1 /\ FirstToken[Serves[w]] <= n
            BY <1>1, <1>2, <1>3, <3>1
        <3>3. QED
            BY <1>7, <3>1, <3>2
    <2>2. QED
        BY <2>1 DEF PermitsPast
<1>10. OneWriterPerEpoch
    BY <1>3, <1>4 DEF OneWriterPerEpoch
<1>11. LeaseIsLatest
    <2>1. \A a \in Agents : run[a] # None /\ lease[a].epoch = run[a].epoch
        BY <1>1, <1>4, NoneAssumption
    <2>2. ASSUME NEW a \in Agents, NEW w \in Workers, Serves[w] = a, know[w].permit # None
          PROVE  /\ know[w].permit.token <= lease[a].token
                 /\ know[w].permit.token = lease[a].token <=> know[w].permit.epoch = lease[a].epoch
        <3>1. know[w].permit = Permit(a)
            BY <1>5, <2>2
        <3>2. QED
            BY <1>2, <1>4, <3>1
    <2>3. QED
        BY <2>1, <2>2 DEF LeaseIsLatest
<1>12. GraphTypeOK /\ Len(revisions) = 1
    <2>1. First \in Contents
        BY SemanticAssumption DEF First, Contents
    <2>2. [content |-> First, parent |-> 0, patch |-> None] \in Revisions
        BY <2>1 DEF Revisions
    <2>3. head \in Heads /\ head = [revision |-> 1, content |-> First]
        BY <2>1 DEF Init, Heads
    <2>4. revisions \in Seq(Revisions) /\ Len(revisions) = 1
        BY <2>2 DEF Init
    <2>5. QED
        BY <2>3, <2>4 DEF GraphTypeOK, Init
<1>13. GraphIsChain /\ Patched
    <2>1. head = [revision |-> Len(revisions), content |-> revisions[Len(revisions)].content]
        BY <1>12 DEF Init
    <2>2. 2..Len(revisions) = {}
        BY <1>12
    <2>3. QED
        BY <2>1, <2>2 DEF GraphIsChain, Patched
<1>14. \A a \in Agents : BoundAsLogged(a)
    BY <1>1, <1>3, <1>4 DEF BoundAsLogged
<1>15. NoSkippedRevision
    BY <1>4 DEF NoSkippedRevision
<1>16. QED
    BY <1>6, <1>8, <1>9, <1>10, <1>11, <1>12, <1>13, <1>14, <1>15
       DEF AgentInv, KernelInv, GraphInv

\* Every step of the agents and their graph keeps the invariant.
LEMMA AgentStep == AgentInv /\ [Next]_vars => AgentInv'
<1> SUFFICES ASSUME AgentInv, [Next]_vars PROVE AgentInv'
    OBVIOUS
<1>1. CASE KernelNext /\ UNCHANGED graphVars
    <2>1. KernelInv'
        BY <1>1, KernelStep DEF AgentInv
    <2>2. QED
        BY <1>1, <2>1, KernelKeepsGraph DEF AgentInv
<1>2. ASSUME NEW w \in Workers, NEW revision \in 1..Len(revisions), AttachGraph(w, revision)
      PROVE  AgentInv'
    BY <1>2, AttachStep
<1>3. ASSUME NEW w \in Workers, NEW p \in Patches, CommitPatch(w, p) PROVE AgentInv'
    BY <1>3, CommitStep
<1>4. CASE \/ \E p \in Patches, stale \in BOOLEAN : Propose(p, stale)
           \/ LoseHead \/ RebuildGraphHead
    BY <1>4, HeadStep
<1>5. CASE UNCHANGED vars
    <2>1. UNCHANGED kernelVars /\ UNCHANGED graphVars
        BY <1>5 DEF vars
    <2>2. KernelInv'
        BY <2>1, KernelStep DEF AgentInv
    <2>3. GraphInv'
        <3>1. UNCHANGED <<events, head, revisions, proposals, receipts, attached>>
            BY <2>1 DEF kernelVars, graphVars
        <3>2. GraphTypeOK' /\ GraphIsChain'
            BY <3>1 DEF AgentInv, GraphInv, GraphTypeOK, GraphIsChain
        <3>3. QED
            BY <3>1, <3>2, Unmoved DEF AgentInv, Bounds, Current
    <2>4. QED
        BY <2>2, <2>3 DEF AgentInv
<1>6. QED
    BY <1>1, <1>2, <1>3, <1>4, <1>5 DEF Next, GraphNext

\* The invariant holds in every state of the agents and their graph.
THEOREM AgentInvariant == Spec => []AgentInv
<1>1. QED
    BY GraphInitially, AgentStep, PTL DEF Spec

\* A row is what its log replays to, and the log never fails to replay, through every
\* loss, takeover, binding and rebuild (rebuild_projection): with the graph, and for
\* the kernel from the creation of its runs.
THEOREM HistoryProjected ==
    /\ Spec => []HistoryIsProjection
    /\ KernelSpec => []HistoryIsProjection
<1>1. KernelInv => HistoryIsProjection
    BY NoneAssumption DEF KernelInv, Projected, Current, HistoryIsProjection
<1>2. AgentInv => KernelInv
    BY DEF AgentInv
<1>3. Spec => []HistoryIsProjection
    BY <1>1, <1>2, AgentInvariant, PTL
<1>4. KernelSpec => []HistoryIsProjection
    BY <1>1, KernelInvariant, PTL
<1>5. QED
    BY <1>3, <1>4

\* The owners stay fenced when what they write is a commit to the graph.
THEOREM CommitsFenced == Spec => []OwnershipIsFenced
<1>1. AgentInv => OwnershipIsFenced
    BY DEF AgentInv, KernelInv, OwnershipIsFenced
<1>2. QED
    BY <1>1, AgentInvariant, PTL

\* The graph is one chain of commits, of which no agent skips one it was not bound to.
THEOREM RevisionsOrdered == Spec => []RevisionsInOrder
<1>1. AgentInv => RevisionsInOrder
    BY DEF AgentInv, GraphInv, RevisionsInOrder
<1>2. QED
    BY <1>1, AgentInvariant, PTL
=============================================================================
