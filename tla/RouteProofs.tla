------------------------------- MODULE RouteProofs -------------------------------
(***************************************************************************)
(* Routes to models: what the observatory may conclude of them from its    *)
(* records, and what becomes of the plans that are bound to them.          *)
(*                                                                         *)
(* First the observatory: for any catalogs, evidence, bundles,             *)
(* invalidations and processes, which read the store in several            *)
(* transactions while others append to it, and die.  Then plans and their  *)
(* execution: for any candidates, planning states, authorities, callers    *)
(* and evidence, with every call that fails and every crash.               *)
(***************************************************************************)
EXTENDS Observatory, PlanRuntime, FiniteSetTheorems, SequenceTheorems, WellFoundedInduction, TLAPS

(***************************************************************************)
(* The observatory.  The inductive invariant.                              *)
(***************************************************************************)

Gathered == Items \cup {entry.item : entry \in UNION Manifests}
Statuses == {n.status : n \in Snapshots}
Seen == [route : Routes, of : Snapshots]
Standings == {"untested", "rejected", "stale", "shadow_only", "qualified", "revoked", "suspended"}
Decided == [key : Keys, state : Standings, at : Times, rests : SUBSET Gathered,
            voided : SUBSET Invalidations, known : SUBSET Invalidations]
Views == [observations : SUBSET Seen, evidence : SUBSET Gathered,
          decisions : SUBSET Decided, invalidations : SUBSET Invalidations]
Passports == [subject : Subjects, at : Times, since : Views, view : Views]

\* What a process can be doing.
Ingests == [does : {"ingest"}, of : Snapshots, next : {"row", "batch"}]
Forces == {"untested", "stale", "shadow_only", None}
Evaluations ==
    [does : {"evaluate"}, next : {"evidence", "invalidations", "decide"}, key : Keys, at : Times,
     forced : Forces, unresolved : BOOLEAN, rests : SUBSET Gathered,
     voided : SUBSET Invalidations, known : SUBSET Invalidations]
Builds ==
    [does : {"build"}, next : {"evidence", "decisions", "invalidations"}, subject : Subjects,
     at : Times, view : Views, since : Views]

StoreTypes ==
    /\ files \subseteq Snapshots /\ snapshots \subseteq Snapshots
    /\ routes \subseteq Routes /\ observations \subseteq Seen
    /\ subjects \in [Subjects -> [status : Statuses, first : Snapshots] \cup {None}]
    /\ evidence \subseteq Gathered /\ IsFiniteSet(evidence)
    /\ invalidated \subseteq Invalidations /\ decisions \subseteq Decided

TypeOK ==
    /\ StoreTypes
    /\ job \in [Jobs -> {Idle} \cup Ingests \cup Evaluations \cup Builds]
    /\ cache \subseteq Passports /\ shown \subseteq [asked : Times, passport : Passports]

\* An ingestion is as far as it says: its bytes are there, then its row.
Ingesting(d) ==
    d.does = "ingest" =>
        /\ d.of \in files
        /\ d.next = "batch" => d.of \in snapshots

\* A key was found in the catalog, unless the verdict on it is forced.
Found(k, forced) ==
    /\ forced = None => k.route \in routes /\ subjects[k.subject] # None
    /\ forced = "shadow_only" => /\ subjects[k.subject] # None
                                 /\ subjects[k.subject].status = "unresolved"

\* An evaluation rests on counting evidence of its key, and has read every
\* invalidation that was known when it began.
Evaluating(d) ==
    d.does = "evaluate" =>
        /\ Found(d.key, d.forced)
        /\ d.known \subseteq Visible(invalidated, d.key, d.at)
        /\ d.next # "evidence" => \A i \in d.rests : i \in evidence /\ i.key = d.key /\ Counts(i)
        /\ d.next = "decide" => d.known \subseteq d.voided

\* What a passport knew when its building began is in the store, and its decisions and
\* invalidations are of the keys of its evidence.
SinceSound(p) ==
    /\ p.since.observations \subseteq SeenBy(p.subject, p.at)
    /\ p.since.evidence \subseteq EvidenceOn(p.subject, p.at)
    /\ p.since.decisions \subseteq OfKeys(decisions, p.since.evidence, p.at)
    /\ p.since.invalidations \subseteq OfKeys(invalidated, p.since.evidence, p.at)

\* Each part of the view lies between that and what the store holds now.
SeenWithin(p) ==
    p.since.observations \subseteq p.view.observations
        /\ p.view.observations \subseteq SeenBy(p.subject, p.at)
EvidenceWithin(p) ==
    p.since.evidence \subseteq p.view.evidence
        /\ p.view.evidence \subseteq EvidenceOn(p.subject, p.at)
DecisionsWithin(p) ==
    p.since.decisions \subseteq p.view.decisions
        /\ p.view.decisions \subseteq OfKeys(decisions, EvidenceOn(p.subject, p.at), p.at)
InvalidationsWithin(p) ==
    p.since.invalidations \subseteq p.view.invalidations
        /\ p.view.invalidations \subseteq OfKeys(invalidated, EvidenceOn(p.subject, p.at), p.at)

\* A build has read the parts before its next one.
Building(b) ==
    b.does = "build" =>
        /\ SinceSound(b) /\ SeenWithin(b)
        /\ b.next # "evidence" => EvidenceWithin(b)
        /\ b.next = "invalidations" => DecisionsWithin(b)

Whole(p) == SeenWithin(p) /\ EvidenceWithin(p) /\ DecisionsWithin(p) /\ InvalidationsWithin(p)

\* What QualifiedIsEarned and InvalidationHolds ask of one decision.
Earned(d) ==
    d.state = "qualified" =>
        /\ d.rests \subseteq evidence
        /\ Cardinality({i.trial : i \in d.rests}) = Cardinality(d.rests)
        /\ \A i \in d.rests : /\ i.key = d.key /\ i.kind = "probe_result"
                              /\ i.verdict \in {"success", "failure"}
        /\ ConfidentlyAbove(Successes(d.rests), Cardinality(d.rests))
        /\ subjects[d.key.subject] # None /\ d.key.route \in routes
Heeded(d) ==
    /\ d.known \subseteq d.voided
    /\ (\E v \in d.known : v.reason = "revoked") => d.state = "revoked"
    /\ (d.known # {} /\ SubjectOf[d.key.route] = d.key.subject) =>
          d.state \in {"revoked", "suspended", "stale", "rejected", "untested", "shadow_only"}
    /\ (d.known # {} /\ d.state = "shadow_only") => /\ subjects[d.key.subject] # None
                                                    /\ subjects[d.key.subject].status = "unresolved"

ObservatoryInv ==
    /\ TypeOK
    /\ CapturedFirst
    /\ \A j \in Jobs : Ingesting(job[j]) /\ Evaluating(job[j]) /\ Building(job[j])
    /\ \A d \in decisions : Earned(d) /\ Heeded(d)
    /\ \A p \in cache : Whole(p)
    /\ \A q \in shown : q.passport.at = q.asked /\ Whole(q.passport)

(***************************************************************************)
(* The store only grows.                                                   *)
(***************************************************************************)

\* No row of the store goes away or changes.
Grows ==
    /\ files \subseteq files' /\ snapshots \subseteq snapshots'
    /\ routes \subseteq routes' /\ observations \subseteq observations'
    /\ evidence \subseteq evidence' /\ invalidated \subseteq invalidated'
    /\ decisions \subseteq decisions'
    /\ \A s \in Subjects : subjects[s] # None => subjects'[s] = subjects[s]

\* Whatever a process does, it is of one of the kinds.
LEMMA JobsAre ==
    ASSUME TypeOK, NEW j \in Jobs
    PROVE  /\ job[j] \in {Idle} \cup Ingests \cup Evaluations \cup Builds
           /\ job[j].does = "ingest" => job[j] \in Ingests
           /\ job[j].does = "evaluate" => job[j] \in Evaluations
           /\ job[j].does = "build" => job[j] \in Builds
    BY DEF TypeOK, Idle, Ingests, Evaluations, Builds

\* What is seen, and what decisions and invalidations are found by, grows with the store.
LEMMA ViewsGrow ==
    ASSUME Grows, NEW s, NEW t, NEW items, NEW more, items \subseteq more
    PROVE  /\ SeenBy(s, t) \subseteq SeenBy(s, t)'
           /\ EvidenceOn(s, t) \subseteq EvidenceOn(s, t)'
           /\ OfKeys(decisions, items, t) \subseteq OfKeys(decisions', more, t)
           /\ OfKeys(invalidated, items, t) \subseteq OfKeys(invalidated', more, t)
    BY DEF Grows, SeenBy, EvidenceOn, OfKeys

\* A passport that lay within the store still does.
LEMMA WholeKept ==
    ASSUME Grows, NEW p, Whole(p) PROVE Whole(p)'
<1>1. /\ SeenBy(p.subject, p.at) \subseteq SeenBy(p.subject, p.at)'
      /\ EvidenceOn(p.subject, p.at) \subseteq EvidenceOn(p.subject, p.at)'
    BY ViewsGrow
<1>2. /\ OfKeys(decisions, EvidenceOn(p.subject, p.at), p.at)
            \subseteq OfKeys(decisions', EvidenceOn(p.subject, p.at)', p.at)
      /\ OfKeys(invalidated, EvidenceOn(p.subject, p.at), p.at)
            \subseteq OfKeys(invalidated', EvidenceOn(p.subject, p.at)', p.at)
    BY <1>1, ViewsGrow
<1>3. QED
    BY <1>1, <1>2 DEF Whole, SeenWithin, EvidenceWithin, DecisionsWithin, InvalidationsWithin

\* What holds of a process holds on while the store grows.
LEMMA JobKept ==
    ASSUME TypeOK, Grows, NEW j \in Jobs, job'[j] = job[j],
           Ingesting(job[j]), Evaluating(job[j]), Building(job[j])
    PROVE  Ingesting(job[j])' /\ Evaluating(job[j])' /\ Building(job[j])'
<1> DEFINE d == job[j]
<1>1. Ingesting(job[j])'
    BY DEF Ingesting, Grows
<1>2. Evaluating(job[j])'
    <2> SUFFICES ASSUME d.does = "evaluate"
                 PROVE  /\ Found(d.key, d.forced)'
                        /\ d.known \subseteq Visible(invalidated', d.key, d.at)
                        /\ d.next # "evidence" =>
                              \A i \in d.rests : i \in evidence' /\ i.key = d.key /\ Counts(i)
                        /\ d.next = "decide" => d.known \subseteq d.voided
        BY DEF Evaluating, Found
    <2>1. d.key \in Keys /\ d.key.subject \in Subjects
        BY JobsAre, ObservatoryAssumption DEF Evaluations
    <2>2. Found(d.key, d.forced)'
        BY <2>1 DEF Found, Evaluating, Grows
    <2>3. QED
        BY <2>2 DEF Evaluating, Grows, Visible
<1>3. Building(job[j])'
    <2> SUFFICES ASSUME d.does = "build"
                 PROVE  /\ SinceSound(job[j])' /\ SeenWithin(job[j])'
                        /\ d.next # "evidence" => EvidenceWithin(job[j])'
                        /\ d.next = "invalidations" => DecisionsWithin(job[j])'
        BY DEF Building
    <2>1. /\ SeenBy(d.subject, d.at) \subseteq SeenBy(d.subject, d.at)'
          /\ EvidenceOn(d.subject, d.at) \subseteq EvidenceOn(d.subject, d.at)'
        BY DEF SeenBy, EvidenceOn, Grows
    <2>2. /\ OfKeys(decisions, d.since.evidence, d.at) \subseteq OfKeys(decisions, d.since.evidence, d.at)'
          /\ OfKeys(invalidated, d.since.evidence, d.at) \subseteq OfKeys(invalidated, d.since.evidence, d.at)'
          /\ OfKeys(decisions, EvidenceOn(d.subject, d.at), d.at)
                \subseteq OfKeys(decisions, EvidenceOn(d.subject, d.at), d.at)'
        BY <2>1 DEF OfKeys, Grows
    <2>3. SinceSound(job[j])' /\ SeenWithin(job[j])'
        BY <2>1, <2>2 DEF Building, SinceSound, SeenWithin
    <2>4. (d.next # "evidence" => EvidenceWithin(job[j])')
          /\ (d.next = "invalidations" => DecisionsWithin(job[j])')
        BY <2>1, <2>2 DEF Building, EvidenceWithin, DecisionsWithin
    <2>5. QED
        BY <2>3, <2>4
<1>4. QED
    BY <1>1, <1>2, <1>3

\* A decision that meets what is asked of it goes on to.
LEMMA DecisionKept ==
    ASSUME Grows, NEW d \in Decided
    PROVE  (Earned(d) => Earned(d)') /\ (Heeded(d) => Heeded(d)')
<1>1. d.key.subject \in Subjects
    BY ObservatoryAssumption DEF Decided
<1>2. Earned(d) => Earned(d)'
    BY <1>1 DEF Earned, Grows
<1>3. Heeded(d) => Heeded(d)'
    BY <1>1 DEF Heeded, Grows
<1>4. QED
    BY <1>2, <1>3

\* A step of one process, or of none: what it leaves behind in the store, the cache and
\* the process is sound.
LEMMA StoreStep ==
    ASSUME ObservatoryInv, Grows, StoreTypes', CapturedFirst', NEW set \in SUBSET Jobs,
           job' \in [Jobs -> {Idle} \cup Ingests \cup Evaluations \cup Builds],
           \A i \in Jobs \ set : job'[i] = job[i],
           \A i \in set : Ingesting(job[i])' /\ Evaluating(job[i])' /\ Building(job[i])',
           \A d \in decisions' \ decisions : Earned(d)' /\ Heeded(d)',
           \A p \in cache' \ cache : p \in Passports /\ Whole(p)',
           \A q \in shown' \ shown : /\ q \in [asked : Times, passport : Passports]
                                     /\ q.passport.at = q.asked /\ Whole(q.passport)'
    PROVE  ObservatoryInv'
<1>1. TypeOK'
    BY DEF ObservatoryInv, TypeOK
<1>2. ASSUME NEW i \in Jobs PROVE Ingesting(job[i])' /\ Evaluating(job[i])' /\ Building(job[i])'
    <2>1. CASE i \in set
        BY <2>1
    <2>2. CASE i \notin set
        BY <2>2, JobKept DEF ObservatoryInv
    <2>3. QED
        BY <2>1, <2>2
<1>3. \A d \in decisions : Earned(d) /\ Heeded(d) /\ d \in Decided
    BY DEF ObservatoryInv, TypeOK, StoreTypes
<1>4. \A d \in decisions' : Earned(d)' /\ Heeded(d)'
    BY <1>3, DecisionKept
<1>5. \A p \in cache' : Whole(p)'
    BY WholeKept DEF ObservatoryInv
<1>6. \A q \in shown' : q.passport.at = q.asked /\ Whole(q.passport)'
    BY WholeKept DEF ObservatoryInv
<1>8. QED
    BY <1>1, <1>2, <1>4, <1>5, <1>6 DEF ObservatoryInv

\* The same, for a step of one process.
LEMMA JobStep ==
    ASSUME ObservatoryInv, Grows, StoreTypes', CapturedFirst', NEW j \in Jobs,
           NEW d \in {Idle} \cup Ingests \cup Evaluations \cup Builds, job' = [job EXCEPT ![j] = d],
           Ingesting(job[j])', Evaluating(job[j])', Building(job[j])',
           \A e \in decisions' \ decisions : Earned(e)' /\ Heeded(e)',
           \A p \in cache' \ cache : p \in Passports /\ Whole(p)',
           \A q \in shown' \ shown : /\ q \in [asked : Times, passport : Passports]
                                     /\ q.passport.at = q.asked /\ Whole(q.passport)'
    PROVE  ObservatoryInv'
<1> DEFINE set == {j}
<1>1. /\ job \in [Jobs -> {Idle} \cup Ingests \cup Evaluations \cup Builds]
      /\ set \in SUBSET Jobs
    BY DEF ObservatoryInv, TypeOK
<1>2. job' \in [Jobs -> {Idle} \cup Ingests \cup Evaluations \cup Builds]
    BY <1>1
<1>3. \A i \in Jobs \ set : job'[i] = job[i]
    BY <1>1
<1>4. \A i \in set : Ingesting(job[i])' /\ Evaluating(job[i])' /\ Building(job[i])'
    OBVIOUS
<1> HIDE DEF set
<1>5. QED
    BY <1>1, <1>2, <1>3, <1>4, StoreStep

(***************************************************************************)
(* Ingestion.                                                              *)
(***************************************************************************)

\* The bytes come first, then their row, then what was read from them.
LEMMA IngestStep ==
    ASSUME ObservatoryInv, NEW j \in Jobs,
           (\E n \in Snapshots : Capture(j, n)) \/ Register(j) \/ Discover(j) \/ Die(j)
    PROVE  ObservatoryInv'
<1>1. /\ TypeOK /\ StoreTypes /\ CapturedFirst /\ Ingesting(job[j])
      /\ job \in [Jobs -> {Idle} \cup Ingests \cup Evaluations \cup Builds]
      /\ job[j].does = "ingest" => job[j] \in Ingests
    BY JobsAre DEF ObservatoryInv, TypeOK
<1>2. UNCHANGED <<evidence, invalidated, decisions, cache, shown>>
    BY DEF Capture, Register, Discover, Die, records
<1>3. ASSUME NEW d \in {Idle} \cup Ingests, job' = [job EXCEPT ![j] = d],
             Grows, StoreTypes', CapturedFirst',
             d \in Ingests => d.of \in files' /\ (d.next = "batch" => d.of \in snapshots')
      PROVE  ObservatoryInv'
    <2>1. job'[j] = d
        BY <1>1, <1>3
    <2>2. Ingesting(job[j])' /\ Evaluating(job[j])' /\ Building(job[j])'
        <3>1. /\ d.does # "evaluate" /\ d.does # "build"
              /\ d.does = "ingest" => d \in Ingests
            BY DEF Idle, Ingests
        <3>2. d.does = "ingest" => d.of \in files' /\ (d.next = "batch" => d.of \in snapshots')
            BY <1>3, <3>1
        <3>3. Ingesting(job[j])'
            BY <2>1, <3>2 DEF Ingesting
        <3>4. Evaluating(job[j])'
            BY <2>1, <3>1 DEF Evaluating
        <3>5. Building(job[j])'
            BY <2>1, <3>1 DEF Building
        <3>6. QED
            BY <3>3, <3>4, <3>5
    <2>3. QED
        BY <1>2, <1>3, <2>2, JobStep
<1>4. ASSUME NEW n \in Snapshots, Capture(j, n) PROVE ObservatoryInv'
    <2> DEFINE d == [does |-> "ingest", of |-> n, next |-> "row"]
    <2>1. /\ files' = files \cup {n} /\ job' = [job EXCEPT ![j] = d]
          /\ UNCHANGED <<snapshots, subjects, routes, observations>>
        BY <1>4 DEF Capture, Fetched, Becomes
    <2>2. d \in Ingests /\ d.of = n /\ d.next = "row"
        BY DEF Ingests
    <2> HIDE DEF d
    <2>3. Grows /\ StoreTypes' /\ CapturedFirst'
        BY <1>1, <1>2, <2>1 DEF Grows, StoreTypes, CapturedFirst
    <2>4. QED
        BY <1>3, <2>1, <2>2, <2>3
<1>5. CASE Register(j)
    <2> DEFINE d == [job[j] EXCEPT !.next = "batch"]
               n == job[j].of
    <2>1. /\ job[j] \in Ingests /\ n \in files
          /\ files' = files \cup {n} /\ snapshots' = snapshots \cup {n} /\ job' = [job EXCEPT ![j] = d]
          /\ UNCHANGED <<subjects, routes, observations>>
        BY <1>1, <1>5 DEF Register, Becomes, Ingesting
    <2>2. d \in Ingests /\ d.of = n /\ n \in Snapshots
        BY <2>1 DEF Ingests
    <2> HIDE DEF d, n
    <2>3. Grows /\ StoreTypes' /\ CapturedFirst'
        BY <1>1, <1>2, <2>1, <2>2 DEF Grows, StoreTypes, CapturedFirst
    <2>4. QED
        BY <1>3, <2>1, <2>2, <2>3
<1>6. CASE Discover(j)
    <2> DEFINE n == job[j].of
               row == [status |-> n.status, first |-> n]
    <2>1. /\ n \in Snapshots /\ n \in snapshots /\ job' = [job EXCEPT ![j] = Idle]
          /\ UNCHANGED <<files, snapshots>>
        BY <1>1, <1>6 DEF Discover, Becomes, Ingesting, Ingests
    <2>2. CASE UNCHANGED <<subjects, routes, observations>>
        <3>1. Grows /\ StoreTypes' /\ CapturedFirst'
            BY <1>1, <1>2, <2>1, <2>2 DEF Grows, StoreTypes, CapturedFirst
        <3>2. QED
            BY <1>3, <2>1, <3>1 DEF Idle, Ingests
    <2>3. CASE /\ subjects' = [s \in Subjects |->
                        IF s \in Named(n) /\ subjects[s] = None THEN row ELSE subjects[s]]
               /\ routes' = routes \cup n.routes
               /\ observations' = observations \cup {[route |-> r, of |-> n] : r \in n.routes}
        <3>1. /\ n.routes \subseteq Routes /\ row # None
              /\ row \in [status : Statuses, first : Snapshots] /\ row.first = n
            BY <2>1, ObservatoryAssumption DEF Statuses
        <3>2. \A s \in Subjects : \/ subjects[s] # None /\ subjects'[s] = subjects[s]
                                  \/ subjects[s] = None /\ subjects'[s] \in {row, None}
            BY <2>3
        <3>3. \A r \in n.routes : SubjectOf[r] \in Subjects /\ subjects'[SubjectOf[r]] # None
            BY <2>3, <3>1, ObservatoryAssumption DEF Named
        <3> HIDE DEF row, n
        <3>4. Grows
            BY <1>2, <2>1, <2>3, <3>2 DEF Grows
        <3>5. StoreTypes'
            <4>1. subjects' \in [Subjects -> [status : Statuses, first : Snapshots] \cup {None}]
                BY <1>1, <2>3, <3>1 DEF StoreTypes
            <4>2. observations' \subseteq Seen
                BY <1>1, <2>1, <2>3, <3>1 DEF StoreTypes, Seen
            <4>3. QED
                BY <1>1, <1>2, <2>1, <2>3, <3>1, <4>1, <4>2 DEF StoreTypes
        <3>6. CapturedFirst'
            <4>1. \A s \in Subjects : subjects'[s] # None => subjects'[s].first \in snapshots'
                BY <1>1, <2>1, <3>1, <3>2 DEF CapturedFirst
            <4>2. \A o \in observations' : o.of \in snapshots' /\ o.route \in routes'
                BY <1>1, <2>1, <2>3 DEF CapturedFirst
            <4>3. \A r \in routes : subjects'[SubjectOf[r]] # None
                BY <1>1, <3>2, ObservatoryAssumption DEF CapturedFirst, StoreTypes
            <4>4. QED
                BY <1>1, <2>1, <2>3, <3>3, <4>1, <4>2, <4>3 DEF CapturedFirst
        <3>7. QED
            BY <1>3, <2>1, <3>4, <3>5, <3>6 DEF Idle, Ingests
    <2>4. QED
        BY <1>6, <2>2, <2>3 DEF Discover
<1>7. CASE Die(j)
    <2>1. /\ job' = [job EXCEPT ![j] = Idle]
          /\ UNCHANGED <<files, snapshots, subjects, routes, observations>>
        BY <1>7 DEF Die, Becomes, catalog
    <2>2. Grows /\ StoreTypes' /\ CapturedFirst'
        BY <1>1, <1>2, <2>1 DEF Grows, StoreTypes, CapturedFirst
    <2>3. QED
        BY <1>3, <2>1, <2>2 DEF Idle, Ingests
<1>8. QED
    BY <1>4, <1>5, <1>6, <1>7

(***************************************************************************)
(* Evidence and invalidations.                                             *)
(***************************************************************************)

\* A bundle imports finitely many items.
LEMMA ImportsAreFinite ==
    ASSUME NEW m \in Manifests
    PROVE  LET items == {entry.item : entry \in {e \in m : Importable(e)}} IN
           items \subseteq Gathered /\ IsFiniteSet(items)
<1> DEFINE chosen == {e \in m : Importable(e)}
           items == {entry.item : entry \in chosen}
           f == [e \in chosen |-> e.item]
<1>1. IsFiniteSet(chosen)
    BY ObservatoryAssumption, FS_Subset
<1>2. f \in Surjection(chosen, items)
    BY DEF Surjection
<1>3. IsFiniteSet(items)
    BY <1>1, <1>2, FS_Surjection
<1>4. QED
    BY <1>3 DEF Gathered

\* Evidence and invalidations are appended.
LEMMA AppendStep ==
    ASSUME ObservatoryInv,
           \/ \E i \in Items : RecordEvidence(i)
           \/ \E m \in Manifests : ImportManifest(m)
           \/ \E v \in Invalidations : Invalidate(v)
    PROVE  ObservatoryInv'
<1>1. /\ TypeOK /\ StoreTypes /\ CapturedFirst
      /\ job \in [Jobs -> {Idle} \cup Ingests \cup Evaluations \cup Builds]
    BY DEF ObservatoryInv, TypeOK
<1>2. UNCHANGED <<files, snapshots, subjects, routes, observations, decisions, job, cache, shown>>
    BY DEF RecordEvidence, ImportManifest, Invalidate, catalog
<1> DEFINE Appended ==
               /\ evidence \subseteq evidence' /\ evidence' \subseteq Gathered /\ IsFiniteSet(evidence')
               /\ invalidated \subseteq invalidated' /\ invalidated' \subseteq Invalidations
<1>3. Appended
    <2>1. ASSUME NEW i \in Items, RecordEvidence(i) PROVE Appended
        <3>1. evidence' = evidence \cup {i} /\ invalidated' = invalidated
            BY <2>1 DEF RecordEvidence
        <3>2. IsFiniteSet(evidence')
            BY <1>1, <3>1, FS_AddElement DEF StoreTypes
        <3>3. QED
            BY <1>1, <3>1, <3>2 DEF StoreTypes, Gathered
    <2>2. ASSUME NEW m \in Manifests, ImportManifest(m) PROVE Appended
        <3> DEFINE items == {entry.item : entry \in {e \in m : Importable(e)}}
        <3>1. evidence' = evidence \cup items /\ invalidated' = invalidated
            BY <2>2 DEF ImportManifest
        <3>2. items \subseteq Gathered /\ IsFiniteSet(items)
            BY ImportsAreFinite
        <3> HIDE DEF items
        <3>3. IsFiniteSet(evidence')
            BY <1>1, <3>1, <3>2, FS_Union DEF StoreTypes
        <3>4. QED
            BY <1>1, <3>1, <3>2, <3>3 DEF StoreTypes
    <2>3. ASSUME NEW v \in Invalidations, Invalidate(v) PROVE Appended
        BY <1>1, <2>3 DEF Invalidate, StoreTypes
    <2>4. QED
        BY <2>1, <2>2, <2>3
<1>4. Grows /\ StoreTypes' /\ CapturedFirst'
    BY <1>1, <1>2, <1>3 DEF Grows, StoreTypes, CapturedFirst
<1>5. /\ {} \in SUBSET Jobs /\ \A i \in Jobs \ {} : job'[i] = job[i]
      /\ \A i \in {} : Ingesting(job[i])' /\ Evaluating(job[i])' /\ Building(job[i])'
    BY <1>2
<1>6. /\ \A d \in decisions' \ decisions : Earned(d)' /\ Heeded(d)'
      /\ \A p \in cache' \ cache : p \in Passports /\ Whole(p)'
      /\ \A q \in shown' \ shown : /\ q \in [asked : Times, passport : Passports]
                                   /\ q.passport.at = q.asked /\ Whole(q.passport)'
    BY <1>2
<1>7. QED
    BY <1>1, <1>2, <1>4, <1>5, <1>6, StoreStep

(***************************************************************************)
(* Evaluation.                                                             *)
(***************************************************************************)

\* What the catalog says of a key, when nothing of it forces the verdict.
LEMMA ForcedIs ==
    ASSUME StoreTypes, NEW k \in Keys, NEW probe \in Probes
    PROVE  Forced(k, probe) \in Forces /\ Found(k, Forced(k, probe))
<1>1. k.route \in Routes /\ k.subject \in Subjects
    BY ObservatoryAssumption
<1>2. CASE k.route \notin routes
    BY <1>2, ObservatoryAssumption DEF Forced, Forces, Found
<1>3. CASE k.route \in routes /\ SubjectOf[k.route] # k.subject
    BY <1>3, ObservatoryAssumption DEF Forced, Forces, Found
<1>4. CASE k.route \in routes /\ SubjectOf[k.route] = k.subject /\ subjects[k.subject] = None
    BY <1>4, ObservatoryAssumption DEF Forced, Forces, Found
<1>5. CASE /\ k.route \in routes /\ SubjectOf[k.route] = k.subject /\ subjects[k.subject] # None
           /\ subjects[k.subject].status = "unresolved"
    BY <1>5, ObservatoryAssumption DEF Forced, Forces, Found
<1>6. CASE /\ k.route \in routes /\ SubjectOf[k.route] = k.subject /\ subjects[k.subject] # None
           /\ subjects[k.subject].status # "unresolved"
    <2>1. probe \in {"bound", "changed", "missing"}
        BY ObservatoryAssumption
    <2>2. Forced(k, probe) = CASE probe = "changed" -> "stale" [] probe = "missing" -> "untested"
                               [] OTHER -> None
        BY <1>6 DEF Forced
    <2>3. Forced(k, probe) \in {"stale", "untested", None}
        BY <2>1, <2>2
    <2>4. QED
        BY <1>6, <2>3, ObservatoryAssumption DEF Forces, Found
<1>7. QED
    BY <1>2, <1>3, <1>4, <1>5, <1>6

\* Distinct rests have distinct trials unless one is repeated: they are as many.
LEMMA TrialsAreDistinct ==
    ASSUME NEW rests, IsFiniteSet(rests), ~Repeats(rests)
    PROVE  Cardinality({i.trial : i \in rests}) = Cardinality(rests)
<1> DEFINE trials == {i.trial : i \in rests}
           f == [i \in rests |-> i.trial]
<1>1. f \in Surjection(rests, trials)
    BY DEF Surjection
<1>2. f \in Injection(rests, trials)
    BY DEF Injection, IsInjective, Repeats
<1>3. QED
    BY <1>1, <1>2, FS_Surjection

\* The verdict on an evaluation: qualified only on sound evidence nobody voided and a
\* key found in the catalog, revoked if revoked, on trial after an invalidation only
\* if the catalog forces it.
LEMMA VerdictIs ==
    ASSUME NEW d \in Evaluations
    PROVE  /\ Verdict(d) \in Standings
           /\ Verdict(d) = "qualified" =>
                /\ d.forced = None /\ d.voided = {}
                /\ ~Repeats(d.rests)
                /\ \A i \in d.rests : i.verdict \notin {"conflicting", "outdated", "unlinked"}
                /\ ConfidentlyAbove(Successes(d.rests), Cardinality(d.rests))
           /\ (\E v \in d.voided : v.reason = "revoked") => Verdict(d) = "revoked"
           /\ d.voided # {} => Verdict(d) # "qualified"
           /\ d.voided # {} /\ Verdict(d) = "shadow_only" => d.forced = "shadow_only"
<1> DEFINE a == Supported(d.rests, d.key, d.unresolved)
           b == Aged(a, d.rests, d.at)
           c == Voided(b, d.voided)
<1>1. d.forced \in Forces
    BY DEF Evaluations
<1>2. /\ a \in {"untested", "rejected", "stale", "shadow_only", "qualified"}
      /\ a = "qualified" =>
            /\ ~Repeats(d.rests)
            /\ ~Some(d.rests, "conflicting") /\ ~Some(d.rests, "outdated") /\ ~Some(d.rests, "unlinked")
            /\ ConfidentlyAbove(Successes(d.rests), Cardinality(d.rests))
    BY DEF Supported
<1>3. b \in {a, "stale"}
    BY DEF Aged
<1>4. /\ c \in {b, "stale", "revoked", "suspended"}
      /\ (\E v \in d.voided : v.reason = "revoked") => c = "revoked"
      /\ d.voided # {} => c \in {"revoked", "suspended", "stale", "rejected"}
    BY DEF Voided
<1>5. Verdict(d) = IF d.forced # None /\ c \notin {"rejected", "revoked", "suspended"}
                   THEN d.forced ELSE c
    BY DEF Verdict
<1> HIDE DEF a, b, c
<1>6. Verdict(d) = "qualified" => d.forced = None /\ c = "qualified"
    BY <1>1, <1>5 DEF Forces
<1>7. c = "qualified" => a = "qualified" /\ d.voided = {}
    BY <1>2, <1>3, <1>4
<1>8. ~Some(d.rests, "conflicting") /\ ~Some(d.rests, "outdated") /\ ~Some(d.rests, "unlinked")
      => \A i \in d.rests : i.verdict \notin {"conflicting", "outdated", "unlinked"}
    BY DEF Some
<1>9. Verdict(d) \in Standings
    BY <1>1, <1>2, <1>3, <1>4, <1>5 DEF Forces, Standings
<1>10. (\E v \in d.voided : v.reason = "revoked") => Verdict(d) = "revoked"
    BY <1>4, <1>5
<1>11. d.voided # {} /\ Verdict(d) = "shadow_only" => d.forced = "shadow_only"
    BY <1>4, <1>5
<1>12. QED
    BY <1>2, <1>6, <1>7, <1>8, <1>9, <1>10, <1>11

\* A process reads the store and goes on; the store stays as it is.
LEMMA ReadStep ==
    ASSUME ObservatoryInv, NEW j \in Jobs, UNCHANGED <<catalog, records>>,
           NEW d \in {Idle} \cup Ingests \cup Evaluations \cup Builds, job' = [job EXCEPT ![j] = d],
           Evaluating(job[j])', Building(job[j])', d.does # "ingest",
           \A p \in cache' \ cache : p \in Passports /\ Whole(p)',
           \A q \in shown' \ shown : /\ q \in [asked : Times, passport : Passports]
                                     /\ q.passport.at = q.asked /\ Whole(q.passport)'
    PROVE  ObservatoryInv'
<1>1. UNCHANGED <<files, snapshots, subjects, routes, observations, evidence, invalidated, decisions>>
    BY DEF catalog, records
<1>2. job'[j] = d
    BY DEF ObservatoryInv, TypeOK
<1>3. Ingesting(job[j])'
    BY <1>2 DEF Ingesting
<1>4. Grows /\ StoreTypes' /\ CapturedFirst'
    BY <1>1 DEF ObservatoryInv, TypeOK, Grows, StoreTypes, CapturedFirst
<1>5. \A e \in decisions' \ decisions : Earned(e)' /\ Heeded(e)'
    BY <1>1
<1>6. QED
    BY <1>3, <1>4, <1>5, JobStep

\* An evaluation begins, reads the evidence, then the invalidations.
LEMMA EvaluationStep ==
    ASSUME ObservatoryInv, NEW j \in Jobs,
           \/ \E k \in Keys, t \in Times, probe \in Probes : StartEvaluation(j, k, t, probe)
           \/ ReadEvidence(j) \/ ReadInvalidations(j)
    PROVE  ObservatoryInv'
<1>1. /\ TypeOK /\ StoreTypes /\ Evaluating(job[j])
      /\ job[j].does = "evaluate" => job[j] \in Evaluations
      /\ UNCHANGED <<catalog, records, cache, shown>>
    BY JobsAre DEF ObservatoryInv, TypeOK, StartEvaluation, ReadEvidence, ReadInvalidations
<1>2. UNCHANGED <<routes, subjects, evidence, invalidated>>
    BY <1>1 DEF catalog, records
<1>3. ASSUME NEW d \in Evaluations, job' = [job EXCEPT ![j] = d],
             Found(d.key, d.forced), d.known \subseteq Visible(invalidated, d.key, d.at),
             d.next # "evidence" => \A i \in d.rests : i \in evidence /\ i.key = d.key /\ Counts(i),
             d.next = "decide" => d.known \subseteq d.voided
      PROVE  ObservatoryInv'
    <2>1. job'[j] = d /\ d.does = "evaluate"
        BY <1>1, <1>3 DEF TypeOK, Evaluations
    <2>2. Found(d.key, d.forced)'
        BY <1>2, <1>3 DEF Found
    <2>3. /\ d.known \subseteq Visible(invalidated', d.key, d.at)
          /\ d.next # "evidence" => \A i \in d.rests : i \in evidence' /\ i.key = d.key /\ Counts(i)
        BY <1>2, <1>3
    <2>4. Evaluating(job[j])'
        BY <1>3, <2>1, <2>2, <2>3 DEF Evaluating, Found
    <2>5. Building(job[j])'
        BY <2>1 DEF Building
    <2>6. d.does # "ingest"
        BY <2>1
    <2>7. QED
        BY <1>1, <1>3, <2>4, <2>5, <2>6, ReadStep
<1>4. ASSUME NEW k \in Keys, NEW t \in Times, NEW probe \in Probes, StartEvaluation(j, k, t, probe)
      PROVE  ObservatoryInv'
    <2> DEFINE forced == Forced(k, probe)
               known == Visible(invalidated, k, t)
               doubt == subjects[k.subject] # None /\ subjects[k.subject].status = "unresolved"
               d == [does |-> "evaluate", next |-> "evidence", key |-> k, at |-> t,
                     forced |-> forced, unresolved |-> doubt,
                     rests |-> {}, voided |-> {}, known |-> known]
    <2>1. job' = [job EXCEPT ![j] = d]
        BY <1>4 DEF StartEvaluation, Becomes
    <2>2. forced \in Forces /\ Found(k, forced) /\ doubt \in BOOLEAN
        BY <1>1, ForcedIs
    <2>3. known \subseteq Invalidations
        BY <1>1 DEF StoreTypes, Visible
    <2>4. known = Visible(invalidated, k, t)
        OBVIOUS
    <2> HIDE DEF forced, known, doubt
    <2>5. d \in Evaluations
        BY <2>2, <2>3 DEF Evaluations
    <2>6. d.key = k /\ d.forced = forced /\ d.known = known /\ d.at = t /\ d.next = "evidence"
        OBVIOUS
    <2> HIDE DEF d
    <2>7. QED
        BY <1>3, <2>1, <2>2, <2>4, <2>5, <2>6
<1>5. CASE ReadEvidence(j)
    <2> DEFINE e == job[j]
               rests == {i \in Visible(evidence, e.key, e.at) : Counts(i)}
               d == [e EXCEPT !.next = "invalidations", !.rests = rests]
    <2>1. /\ e \in Evaluations /\ e.next = "evidence" /\ job' = [job EXCEPT ![j] = d]
          /\ Found(e.key, e.forced) /\ e.known \subseteq Visible(invalidated, e.key, e.at)
        BY <1>1, <1>5 DEF ReadEvidence, Becomes, Evaluating
    <2>2. rests \subseteq Gathered /\ \A i \in rests : i \in evidence /\ i.key = e.key /\ Counts(i)
        BY <1>1 DEF StoreTypes, Visible
    <2> HIDE DEF rests
    <2>3. /\ d \in Evaluations /\ d.next = "invalidations" /\ d.rests = rests /\ d.key = e.key
          /\ d.forced = e.forced /\ d.known = e.known /\ d.at = e.at
        BY <2>1, <2>2 DEF Evaluations
    <2> HIDE DEF d
    <2>4. QED
        BY <1>3, <2>1, <2>2, <2>3
<1>6. CASE ReadInvalidations(j)
    <2> DEFINE e == job[j]
               voided == Visible(invalidated, e.key, e.at)
               d == [e EXCEPT !.next = "decide", !.voided = voided]
    <2>1. /\ e \in Evaluations /\ e.next = "invalidations" /\ job' = [job EXCEPT ![j] = d]
          /\ Found(e.key, e.forced) /\ e.known \subseteq voided
          /\ \A i \in e.rests : i \in evidence /\ i.key = e.key /\ Counts(i)
        BY <1>1, <1>6 DEF ReadInvalidations, Becomes, Evaluating
    <2>2. voided \subseteq Invalidations /\ voided = Visible(invalidated, e.key, e.at)
        BY <1>1 DEF StoreTypes, Visible
    <2> HIDE DEF voided
    <2>3. /\ d \in Evaluations /\ d.next = "decide" /\ d.rests = e.rests /\ d.key = e.key
          /\ d.forced = e.forced /\ d.known = e.known /\ d.at = e.at /\ d.voided = voided
        BY <2>1, <2>2 DEF Evaluations
    <2> HIDE DEF d
    <2>4. QED
        BY <1>3, <2>1, <2>2, <2>3
<1>7. QED
    BY <1>4, <1>5, <1>6

\* A decision on what was read is earned, and heeds what was known when it began.
LEMMA DecideStep ==
    ASSUME ObservatoryInv, NEW j \in Jobs, Decide(j) PROVE ObservatoryInv'
<1> DEFINE d == job[j]
           new == [key |-> d.key, state |-> Verdict(d), at |-> d.at, rests |-> d.rests,
                   voided |-> d.voided, known |-> d.known]
<1>1. /\ TypeOK /\ StoreTypes /\ CapturedFirst /\ d \in Evaluations
      /\ Found(d.key, d.forced) /\ d.known \subseteq d.voided
      /\ \A i \in d.rests : i \in evidence /\ i.key = d.key /\ i.kind = "probe_result"
      /\ decisions' = decisions \cup {new} /\ job' = [job EXCEPT ![j] = Idle]
      /\ UNCHANGED <<files, snapshots, subjects, routes, observations, evidence, invalidated, cache, shown>>
    BY JobsAre DEF ObservatoryInv, TypeOK, Decide, Becomes, Evaluating, Counts, catalog
<1>2. new \in Decided
    BY <1>1, VerdictIs DEF Evaluations, Decided
<1>3. PICK e \in Decided :
           /\ e.key = d.key /\ e.state = Verdict(d) /\ e.rests = d.rests /\ e.voided = d.voided
           /\ e.known = d.known /\ decisions' = decisions \cup {e}
    BY <1>1, <1>2
<1> HIDE DEF new
<1>4. Earned(e)
    <2> SUFFICES ASSUME Verdict(d) = "qualified"
                 PROVE  /\ d.rests \subseteq evidence
                        /\ Cardinality({i.trial : i \in d.rests}) = Cardinality(d.rests)
                        /\ \A i \in d.rests : /\ i.key = d.key /\ i.kind = "probe_result"
                                              /\ i.verdict \in {"success", "failure"}
                        /\ ConfidentlyAbove(Successes(d.rests), Cardinality(d.rests))
                        /\ subjects[d.key.subject] # None /\ d.key.route \in routes
        BY <1>3 DEF Earned
    <2>1. /\ d.forced = None /\ ~Repeats(d.rests)
          /\ \A i \in d.rests : i.verdict \notin {"conflicting", "outdated", "unlinked"}
          /\ ConfidentlyAbove(Successes(d.rests), Cardinality(d.rests))
        BY <1>1, VerdictIs
    <2>2. subjects[d.key.subject] # None /\ d.key.route \in routes
        BY <1>1, <2>1 DEF Found
    <2>3. d.rests \subseteq evidence /\ IsFiniteSet(d.rests)
        BY <1>1, FS_Subset DEF StoreTypes
    <2>4. Cardinality({i.trial : i \in d.rests}) = Cardinality(d.rests)
        BY <2>1, <2>3, TrialsAreDistinct
    <2>5. \A i \in d.rests : i.verdict \in Verdicts
        BY <1>1, <2>3, ObservatoryAssumption DEF StoreTypes, Gathered
    <2>6. \A i \in d.rests : i.verdict \in {"success", "failure"}
        BY <2>1, <2>5 DEF Verdicts
    <2>7. QED
        BY <1>1, <2>1, <2>2, <2>3, <2>4, <2>6
<1>5. Heeded(e)
    <2>1. (\E v \in d.known : v.reason = "revoked") => Verdict(d) = "revoked"
        BY <1>1, VerdictIs
    <2>2. d.known # {} => Verdict(d) \in Standings \ {"qualified"}
        BY <1>1, VerdictIs
    <2>3. d.known # {} /\ Verdict(d) = "shadow_only" => d.forced = "shadow_only"
        BY <1>1, VerdictIs
    <2>4. QED
        BY <1>1, <1>3, <2>1, <2>2, <2>3 DEF Heeded, Found, Standings
<1>6. Grows /\ StoreTypes' /\ CapturedFirst'
    BY <1>1, <1>3 DEF Grows, StoreTypes, CapturedFirst
<1>7. Earned(e)' /\ Heeded(e)'
    BY <1>3, <1>4, <1>5, <1>6, DecisionKept
<1>8. job'[j] = Idle /\ Idle.does = "nothing"
    BY <1>1 DEF TypeOK, Idle
<1>9. Ingesting(job[j])' /\ Evaluating(job[j])' /\ Building(job[j])'
    <2>1. Ingesting(job[j])'
        BY <1>8 DEF Ingesting
    <2>2. Evaluating(job[j])'
        BY <1>8 DEF Evaluating
    <2>3. Building(job[j])'
        BY <1>8 DEF Building
    <2>4. QED
        BY <2>1, <2>2, <2>3
<1>10. \A c \in decisions' \ decisions : Earned(c)' /\ Heeded(c)'
    BY <1>3, <1>7
<1>11. QED
    BY <1>1, <1>6, <1>9, <1>10, JobStep

(***************************************************************************)
(* Passports.                                                              *)
(***************************************************************************)

\* What the store shows of a subject at a moment.
LEMMA ViewsAre ==
    ASSUME StoreTypes, NEW s, NEW t
    PROVE  /\ SeenBy(s, t) \in SUBSET Seen /\ EvidenceOn(s, t) \in SUBSET Gathered
           /\ \A items : /\ OfKeys(decisions, items, t) \in SUBSET Decided
                         /\ OfKeys(invalidated, items, t) \in SUBSET Invalidations
    BY DEF StoreTypes, SeenBy, EvidenceOn, OfKeys

\* The building of a passport begins, and gathers the evidence, then the decisions by
\* the keys of that evidence.
LEMMA GatherStep ==
    ASSUME ObservatoryInv, NEW j \in Jobs,
           \/ \E s \in Subjects, t \in Times : StartPassport(j, s, t)
           \/ GatherEvidence(j) \/ GatherDecisions(j)
    PROVE  ObservatoryInv'
<1>1. /\ TypeOK /\ StoreTypes /\ Building(job[j])
      /\ job[j].does = "build" => job[j] \in Builds
      /\ UNCHANGED <<catalog, records, cache, shown>>
    BY JobsAre DEF ObservatoryInv, TypeOK, StartPassport, GatherEvidence, GatherDecisions
<1>2. UNCHANGED <<files, snapshots, subjects, routes, observations, evidence, invalidated, decisions>>
    BY <1>1 DEF catalog, records
<1>3. Grows
    BY <1>2 DEF Grows
<1>4. ASSUME NEW d \in Builds, job' = [job EXCEPT ![j] = d], SinceSound(d), SeenWithin(d),
             d.next # "evidence" => EvidenceWithin(d),
             d.next = "invalidations" => DecisionsWithin(d)
      PROVE  ObservatoryInv'
    <2>1. job'[j] = d /\ d.does = "build"
        BY <1>1, <1>4 DEF TypeOK, Builds
    <2>2. Evaluating(job[j])'
        BY <2>1 DEF Evaluating
    <2>3. Building(job[j])'
        BY <1>2, <1>4, <2>1 DEF Building, SinceSound, SeenWithin, EvidenceWithin, DecisionsWithin,
                                SeenBy, EvidenceOn, OfKeys
    <2>4. d.does # "ingest"
        BY <2>1
    <2>5. QED
        BY <1>1, <1>4, <2>2, <2>3, <2>4, ReadStep
<1>5. ASSUME NEW s \in Subjects, NEW t \in Times, StartPassport(j, s, t) PROVE ObservatoryInv'
    <2> DEFINE v == View(s, t)
               w == [v EXCEPT !.evidence = {}, !.decisions = {}, !.invalidations = {}]
               d == [does |-> "build", next |-> "evidence", subject |-> s, at |-> t,
                     view |-> w, since |-> v]
    <2>1. job' = [job EXCEPT ![j] = d]
        BY <1>5 DEF StartPassport, Becomes
    <2>2. /\ v \in Views /\ v.observations = SeenBy(s, t) /\ v.evidence = EvidenceOn(s, t)
          /\ v.decisions = OfKeys(decisions, EvidenceOn(s, t), t)
          /\ v.invalidations = OfKeys(invalidated, EvidenceOn(s, t), t)
        BY <1>1, ViewsAre DEF View, Views
    <2> HIDE DEF v
    <2>3. w \in Views /\ w.observations = v.observations
        BY <2>2 DEF Views
    <2> HIDE DEF w
    <2>4. /\ d \in Builds /\ d.subject = s /\ d.at = t /\ d.view = w /\ d.since = v
          /\ d.next = "evidence"
        BY <2>2, <2>3 DEF Builds
    <2> HIDE DEF d
    <2>5. SinceSound(d) /\ SeenWithin(d)
        BY <2>2, <2>3, <2>4 DEF SinceSound, SeenWithin
    <2>6. QED
        BY <1>4, <2>1, <2>4, <2>5
<1>6. CASE GatherEvidence(j)
    <2> DEFINE e == job[j]
               items == EvidenceOn(e.subject, e.at)
               w == [e.view EXCEPT !.evidence = items]
               d == [e EXCEPT !.next = "decisions", !.view = w]
    <2>1. /\ e \in Builds /\ SinceSound(e) /\ SeenWithin(e)
        BY <1>1, <1>6 DEF GatherEvidence, Building
    <2>2. job' = [job EXCEPT ![j] = d]
        BY <1>6, <2>1 DEF GatherEvidence, Becomes, Builds
    <2>3. items \in SUBSET Gathered /\ items = EvidenceOn(e.subject, e.at)
        BY <1>1, ViewsAre
    <2> HIDE DEF items
    <2>4. w \in Views /\ w.observations = e.view.observations /\ w.evidence = items
        BY <2>1, <2>3 DEF Builds, Views
    <2> HIDE DEF w
    <2>5. /\ d \in Builds /\ d.subject = e.subject /\ d.at = e.at /\ d.view = w /\ d.since = e.since
          /\ d.next = "decisions"
        BY <2>1, <2>4 DEF Builds
    <2> HIDE DEF d
    <2>6. SinceSound(d) /\ SeenWithin(d) /\ EvidenceWithin(d)
        BY <2>1, <2>3, <2>4, <2>5 DEF SinceSound, SeenWithin, EvidenceWithin
    <2>7. QED
        BY <1>4, <2>2, <2>5, <2>6
<1>7. CASE GatherDecisions(j)
    <2> DEFINE e == job[j]
               found == OfKeys(decisions, e.view.evidence, e.at)
               w == [e.view EXCEPT !.decisions = found]
               d == [e EXCEPT !.next = "invalidations", !.view = w]
    <2>1. /\ e \in Builds /\ SinceSound(e) /\ SeenWithin(e) /\ EvidenceWithin(e)
        BY <1>1, <1>7 DEF GatherDecisions, Building
    <2>2. job' = [job EXCEPT ![j] = d]
        BY <1>7, <2>1 DEF GatherDecisions, Becomes, Builds
    <2>3. /\ found \in SUBSET Decided
          /\ e.since.decisions \subseteq found
          /\ found \subseteq OfKeys(decisions, EvidenceOn(e.subject, e.at), e.at)
        <3>1. found \in SUBSET Decided
            BY <1>1, ViewsAre
        <3>2. /\ e.since.evidence \subseteq e.view.evidence
              /\ e.view.evidence \subseteq EvidenceOn(e.subject, e.at)
              /\ e.since.decisions \subseteq OfKeys(decisions, e.since.evidence, e.at)
            BY <2>1 DEF EvidenceWithin, SinceSound
        <3>3. OfKeys(decisions, e.since.evidence, e.at) \subseteq found
            BY <3>2 DEF OfKeys
        <3>4. found \subseteq OfKeys(decisions, EvidenceOn(e.subject, e.at), e.at)
            BY <3>2 DEF OfKeys
        <3>5. QED
            BY <3>1, <3>2, <3>3, <3>4
    <2> HIDE DEF found
    <2>4. /\ w \in Views /\ w.observations = e.view.observations /\ w.evidence = e.view.evidence
          /\ w.decisions = found
        BY <2>1, <2>3 DEF Builds, Views
    <2> HIDE DEF w
    <2>5. /\ d \in Builds /\ d.subject = e.subject /\ d.at = e.at /\ d.view = w /\ d.since = e.since
          /\ d.next = "invalidations"
        BY <2>1, <2>4 DEF Builds
    <2> HIDE DEF d
    <2>6. SinceSound(d) /\ SeenWithin(d) /\ EvidenceWithin(d) /\ DecisionsWithin(d)
        BY <2>1, <2>3, <2>4, <2>5 DEF SinceSound, SeenWithin, EvidenceWithin, DecisionsWithin
    <2>7. QED
        BY <1>4, <2>2, <2>5, <2>6
<1>8. QED
    BY <1>5, <1>6, <1>7

\* A passport is issued with the invalidations of the keys of its evidence, kept in the
\* cache for its subject and moment, and shown.
LEMMA IssueStep ==
    ASSUME ObservatoryInv, NEW j \in Jobs, IssuePassport(j) PROVE ObservatoryInv'
<1> DEFINE b == job[j]
           found == OfKeys(invalidated, b.view.evidence, b.at)
           w == [b.view EXCEPT !.invalidations = found]
           new == [subject |-> b.subject, at |-> b.at, since |-> b.since, view |-> w]
<1>1. /\ TypeOK /\ StoreTypes /\ b \in Builds
      /\ SinceSound(b) /\ SeenWithin(b) /\ EvidenceWithin(b) /\ DecisionsWithin(b)
      /\ job' = [job EXCEPT ![j] = Idle]
      /\ cache' = {q \in cache : ~IsFor(q, b.subject, b.at)} \cup {new}
      /\ shown' = shown \cup {Asked(new, b.at)}
      /\ UNCHANGED <<catalog, records>>
    BY JobsAre DEF ObservatoryInv, TypeOK, IssuePassport, Becomes, Building
<1>2. /\ found \in SUBSET Invalidations
      /\ b.since.invalidations \subseteq found
      /\ found \subseteq OfKeys(invalidated, EvidenceOn(b.subject, b.at), b.at)
    <2>1. found \in SUBSET Invalidations
        BY <1>1, ViewsAre
    <2>2. /\ b.since.evidence \subseteq b.view.evidence
          /\ b.view.evidence \subseteq EvidenceOn(b.subject, b.at)
          /\ b.since.invalidations \subseteq OfKeys(invalidated, b.since.evidence, b.at)
        BY <1>1 DEF EvidenceWithin, SinceSound
    <2>3. OfKeys(invalidated, b.since.evidence, b.at) \subseteq found
        BY <2>2 DEF OfKeys
    <2>4. found \subseteq OfKeys(invalidated, EvidenceOn(b.subject, b.at), b.at)
        BY <2>2 DEF OfKeys
    <2>5. QED
        BY <2>1, <2>2, <2>3, <2>4
<1> HIDE DEF found
<1>3. /\ w \in Views /\ w.observations = b.view.observations /\ w.evidence = b.view.evidence
      /\ w.decisions = b.view.decisions /\ w.invalidations = found
    BY <1>1, <1>2 DEF Builds, Views
<1> HIDE DEF w
<1>4. new \in Passports
    BY <1>1, <1>3 DEF Builds, Passports
<1>5. PICK p \in Passports :
           /\ p.subject = b.subject /\ p.at = b.at /\ p.since = b.since /\ p.view = w
           /\ cache' = {q \in cache : ~IsFor(q, b.subject, b.at)} \cup {p}
           /\ shown' = shown \cup {Asked(p, p.at)}
    BY <1>1, <1>4
<1> HIDE DEF new
<1>6. Whole(p)
    <2>1. SeenWithin(p) /\ EvidenceWithin(p) /\ DecisionsWithin(p)
        BY <1>1, <1>3, <1>5 DEF SeenWithin, EvidenceWithin, DecisionsWithin
    <2>2. InvalidationsWithin(p)
        BY <1>2, <1>3, <1>5 DEF InvalidationsWithin
    <2>3. QED
        BY <2>1, <2>2 DEF Whole
<1>7. Whole(p)'
    <2>1. Grows
        BY <1>1 DEF Grows, catalog, records
    <2>2. QED
        BY <1>6, <2>1, WholeKept
<1>8. \A q \in cache' \ cache : q \in Passports /\ Whole(q)'
    BY <1>5, <1>7
<1>9. \A q \in shown' \ shown : /\ q \in [asked : Times, passport : Passports]
                                /\ q.passport.at = q.asked /\ Whole(q.passport)'
    <2>1. p.at \in Times
        BY DEF Passports
    <2>2. PICK a \in [asked : Times, passport : Passports] : a = Asked(p, p.at)
        BY <2>1 DEF Asked
    <2>3. a.asked = p.at /\ a.passport = p
        BY <2>2 DEF Asked
    <2>4. shown' = shown \cup {a}
        BY <1>5, <2>2
    <2>5. Whole(a.passport)'
        BY <1>7, <2>3
    <2>6. QED
        BY <2>3, <2>4, <2>5
<1>10. job'[j] = Idle /\ Idle.does = "nothing"
    BY <1>1 DEF TypeOK, Idle
<1>11. Evaluating(job[j])'
    BY <1>10 DEF Evaluating
<1>12. Building(job[j])'
    BY <1>10 DEF Building
<1>13. QED
    BY <1>1, <1>8, <1>9, <1>10, <1>11, <1>12, ReadStep

\* A passport of the cache is shown again for its own moment, or the cache forgets some.
LEMMA CacheStep ==
    ASSUME ObservatoryInv,
           \/ \E s \in Subjects, t \in Times : ShowCached(s, t)
           \/ \E s \in Subjects : ClearCache(s)
    PROVE  ObservatoryInv'
<1>1. /\ TypeOK /\ CapturedFirst /\ \A p \in cache : p \in Passports /\ Whole(p)
      /\ UNCHANGED <<catalog, records, job>> /\ cache' \subseteq cache
    BY DEF ObservatoryInv, TypeOK, ShowCached, ClearCache
<1>2. UNCHANGED <<files, snapshots, subjects, routes, observations, evidence, invalidated, decisions>>
    BY <1>1 DEF catalog, records
<1>3. Grows /\ StoreTypes' /\ CapturedFirst'
    BY <1>1, <1>2 DEF Grows, TypeOK, StoreTypes, CapturedFirst
<1>4. \A q \in shown' \ shown : /\ q \in [asked : Times, passport : Passports]
                                /\ q.passport.at = q.asked /\ Whole(q.passport)'
    <2>1. ASSUME NEW s \in Subjects, NEW t \in Times, ShowCached(s, t), NEW q \in shown' \ shown
          PROVE  /\ q \in [asked : Times, passport : Passports]
                 /\ q.passport.at = q.asked /\ Whole(q.passport)'
        <3>1. PICK p \in cache : p.at = t /\ shown' = shown \cup {Asked(p, t)}
            BY <2>1 DEF ShowCached, IsFor
        <3>2. q = Asked(p, t)
            BY <2>1, <3>1
        <3>3. q \in [asked : Times, passport : Passports] /\ q.asked = t /\ q.passport = p
            BY <1>1, <3>2 DEF Asked
        <3>4. Whole(p)'
            BY <1>1, <1>3, WholeKept
        <3>5. QED
            BY <3>1, <3>3, <3>4
    <2>2. ASSUME NEW s \in Subjects, ClearCache(s) PROVE shown' = shown
        BY <2>2 DEF ClearCache
    <2>3. QED
        BY <2>1, <2>2
<1>5. /\ {} \in SUBSET Jobs /\ \A i \in Jobs \ {} : job'[i] = job[i]
      /\ \A i \in {} : Ingesting(job[i])' /\ Evaluating(job[i])' /\ Building(job[i])'
      /\ job' \in [Jobs -> {Idle} \cup Ingests \cup Evaluations \cup Builds]
    BY <1>1 DEF TypeOK
<1>6. /\ \A d \in decisions' \ decisions : Earned(d)' /\ Heeded(d)'
      /\ \A p \in cache' \ cache : p \in Passports /\ Whole(p)'
    BY <1>1, <1>2
<1>7. QED
    BY <1>3, <1>4, <1>5, <1>6, StoreStep

(***************************************************************************)
(* The theorems.                                                           *)
(***************************************************************************)

\* The invariant holds of the empty observatory.
LEMMA ObservatoryInitially == Init => ObservatoryInv
<1> SUFFICES ASSUME Init PROVE ObservatoryInv
    OBVIOUS
<1>1. /\ files = {} /\ snapshots = {} /\ routes = {} /\ observations = {}
      /\ subjects = [s \in Subjects |-> None]
      /\ evidence = {} /\ invalidated = {} /\ decisions = {}
      /\ job = [j \in Jobs |-> Idle] /\ cache = {} /\ shown = {}
    BY DEF Init
<1>2. IsFiniteSet(evidence)
    BY <1>1, FS_EmptySet
<1>3. TypeOK
    BY <1>1, <1>2 DEF TypeOK, StoreTypes
<1>4. CapturedFirst
    BY <1>1 DEF CapturedFirst
<1>5. ASSUME NEW j \in Jobs PROVE Ingesting(job[j]) /\ Evaluating(job[j]) /\ Building(job[j])
    <2>1. job[j].does = "nothing"
        BY <1>1 DEF Idle
    <2>2. QED
        BY <2>1 DEF Ingesting, Evaluating, Building
<1>6. QED
    BY <1>1, <1>3, <1>4, <1>5 DEF ObservatoryInv

\* Every step of a process, of the store and of the cache keeps it.
LEMMA ObservatoryStep == ObservatoryInv /\ [Next]_vars => ObservatoryInv'
<1> SUFFICES ASSUME ObservatoryInv, [Next]_vars PROVE ObservatoryInv'
    OBVIOUS
<1>1. ASSUME NEW j \in Jobs,
             (\E n \in Snapshots : Capture(j, n)) \/ Register(j) \/ Discover(j) \/ Die(j)
      PROVE  ObservatoryInv'
    BY <1>1, IngestStep
<1>2. ASSUME NEW j \in Jobs,
             \/ \E k \in Keys, t \in Times, probe \in Probes : StartEvaluation(j, k, t, probe)
             \/ ReadEvidence(j) \/ ReadInvalidations(j)
      PROVE  ObservatoryInv'
    BY <1>2, EvaluationStep
<1>3. ASSUME NEW j \in Jobs, Decide(j) PROVE ObservatoryInv'
    BY <1>3, DecideStep
<1>4. ASSUME NEW j \in Jobs,
             \/ \E s \in Subjects, t \in Times : StartPassport(j, s, t)
             \/ GatherEvidence(j) \/ GatherDecisions(j)
      PROVE  ObservatoryInv'
    BY <1>4, GatherStep
<1>5. ASSUME NEW j \in Jobs, IssuePassport(j) PROVE ObservatoryInv'
    BY <1>5, IssueStep
<1>6. CASE \/ \E i \in Items : RecordEvidence(i)
           \/ \E m \in Manifests : ImportManifest(m)
           \/ \E v \in Invalidations : Invalidate(v)
    BY <1>6, AppendStep
<1>7. CASE \/ \E s \in Subjects, t \in Times : ShowCached(s, t)
           \/ \E s \in Subjects : ClearCache(s)
    BY <1>7, CacheStep
<1>8. CASE UNCHANGED vars
    <2>1. UNCHANGED <<files, snapshots, subjects, routes, observations, evidence, invalidated,
                      decisions, job, cache, shown>>
        BY <1>8 DEF vars, catalog, records
    <2>2. Grows /\ StoreTypes' /\ CapturedFirst'
        BY <2>1 DEF ObservatoryInv, TypeOK, Grows, StoreTypes, CapturedFirst
    <2>3. /\ {} \in SUBSET Jobs /\ \A i \in Jobs \ {} : job'[i] = job[i]
          /\ \A i \in {} : Ingesting(job[i])' /\ Evaluating(job[i])' /\ Building(job[i])'
          /\ job' \in [Jobs -> {Idle} \cup Ingests \cup Evaluations \cup Builds]
        BY <2>1 DEF ObservatoryInv, TypeOK
    <2>4. /\ \A d \in decisions' \ decisions : Earned(d)' /\ Heeded(d)'
          /\ \A p \in cache' \ cache : p \in Passports /\ Whole(p)'
          /\ \A q \in shown' \ shown : /\ q \in [asked : Times, passport : Passports]
                                       /\ q.passport.at = q.asked /\ Whole(q.passport)'
        BY <2>1
    <2>5. QED
        BY <2>2, <2>3, <2>4, StoreStep
<1>9. QED
    BY <1>1, <1>2, <1>3, <1>4, <1>5, <1>6, <1>7, <1>8 DEF Next

\* The invariant holds in every state of the observatory.
THEOREM ObservatoryInvariant == Spec => []ObservatoryInv
<1>1. QED
    BY ObservatoryInitially, ObservatoryStep, PTL DEF Spec

\* The tables, the processes, the cache and what was shown keep their types.
THEOREM ObservatoryTypes == Spec => []TypeOK
<1>1. ObservatoryInv => TypeOK
    BY DEF ObservatoryInv
<1>2. QED
    BY <1>1, ObservatoryInvariant, PTL

\* What is known of a model can be traced to catalogs whose bytes are on disk, whenever
\* a process dies (ModelObservatory.ingest).
THEOREM AllCapturedFirst == Spec => []CapturedFirst
<1>1. ObservatoryInv => CapturedFirst
    BY DEF ObservatoryInv
<1>2. QED
    BY <1>1, ObservatoryInvariant, PTL

\* A qualified decision rests on enough recorded, distinct and undoubted probe results
\* of its key (QualificationEngine.evaluate).
THEOREM QualificationsAreEarned == Spec => []QualifiedIsEarned
<1>1. ObservatoryInv => QualifiedIsEarned
    BY DEF ObservatoryInv, Earned, QualifiedIsEarned
<1>2. QED
    BY <1>1, ObservatoryInvariant, PTL

\* An evaluation that began after an invalidation heeds it, whatever is appended before
\* it decides (QualificationEngine.evaluate).
THEOREM InvalidationsHold == Spec => []InvalidationHolds
<1>1. ObservatoryInv => InvalidationHolds
    BY DEF ObservatoryInv, Heeded, InvalidationHolds
<1>2. QED
    BY <1>1, ObservatoryInvariant, PTL

\* A passport shows what the store held when its building began and nothing it does not
\* hold now (ModelPassportProjector.build).
THEOREM PassportsAreBounded == Spec => []PassportBounded
<1>1. ObservatoryInv => PassportBounded
    <2> SUFFICES ASSUME ObservatoryInv, NEW q \in shown,
                        NEW part \in DOMAIN View(q.passport.subject, q.asked)
                 PROVE  /\ q.passport.since[part] \subseteq q.passport.view[part]
                        /\ q.passport.view[part] \subseteq View(q.passport.subject, q.asked)[part]
        BY DEF PassportBounded
    <2>1. q.passport.at = q.asked /\ Whole(q.passport)
        BY DEF ObservatoryInv
    <2>2. part \in {"observations", "evidence", "decisions", "invalidations"}
        BY DEF View
    <2>3. CASE part = "observations"
        BY <2>1, <2>3 DEF Whole, SeenWithin, View
    <2>4. CASE part = "evidence"
        BY <2>1, <2>4 DEF Whole, EvidenceWithin, View
    <2>5. CASE part = "decisions"
        BY <2>1, <2>5 DEF Whole, DecisionsWithin, View
    <2>6. CASE part = "invalidations"
        BY <2>1, <2>6 DEF Whole, InvalidationsWithin, View
    <2>7. QED
        BY <2>2, <2>3, <2>4, <2>5, <2>6
<1>2. QED
    BY <1>1, ObservatoryInvariant, PTL

(***************************************************************************)
(* Plans and their execution.  The inductive invariant.                    *)
(***************************************************************************)

\* The routes that failed before this revision.
Failed(p) == {p.fallbacks[i].from : i \in DOMAIN p.fallbacks}

\* A revision takes one route out of the eligible ones and adds it to the failed.
PlanSound(p) ==
    /\ p \in Plans
    /\ p.bound \in p.eligible /\ p.eligible \subseteq Allowed(p.input, p.state)
    /\ p.eligible \cap Failed(p) = {}
    /\ p.revision = p.input.revision + Len(p.fallbacks)
    /\ Cardinality(p.eligible) + Len(p.fallbacks) <= Cardinality(Allowed(p.input, p.state))

Places == {"idle", "invoke", "terminal", "verify", "production", "verification", "event", "lookup",
           "salvage", "failed"}
Hosting == [place : Places, run : Runs \cup {Null}, ref : Refs \cup {Null}, report : Reports,
            persisted : {"complete", "failed"}, dispatched : BOOLEAN, captured : Told, read : BOOLEAN]

ExecutionTypes ==
    /\ runs \in [Runs -> RunRecords \cup {Null}]
    /\ books \in [Evidence -> Amounts \cup {Null}]
    /\ at \in [Hosts -> Hosting]
    /\ results \in [Runs -> Outcomes \cup {Null}]

\* Each run has one caller.
OneHost == \A h, g \in Hosts : (~In(h, "idle") /\ ~In(g, "idle") /\ Run(h) = Run(g)) => h = g

\* What the stores know of a run grows level by level.
RecordSound(r) ==
    runs[r] # Null =>
        /\ runs[r].completed => runs[r].accounted
        /\ runs[r].called => runs[r].requested

\* What a caller of execute knows of its run, place by place.
HostSound(h) ==
    LET r == Run(h)  place == at[h].place IN
    place # "idle" =>
        /\ r \in Runs /\ runs[r] # Null /\ results[r] = Null
        /\ place = "invoke" => ~runs[r].accounted /\ runs[r].closing = Null
        /\ place \in {"invoke", "terminal"} => at[h].captured = Null
        /\ place \in {"invoke", "terminal", "verify", "lookup", "salvage", "failed"} => at[h].report = "not_run"
        /\ place \in {"terminal", "verify", "production", "verification", "event"} => runs[r].completed
        /\ place = "verify" => runs[r].captured = "good"
        /\ place \in {"verify", "production", "verification", "event"} => at[h].captured = runs[r].captured
        /\ at[h].report # "not_run" => runs[r].captured = "good" /\ runs[r].completed
        /\ place \in {"verification", "event"} /\ at[h].persisted = "complete" /\ runs[r].cost # Null =>
               Row(r, "production", runs[r].cost) \in costs
        /\ place = "event" /\ at[h].persisted = "complete" /\ at[h].report # "not_run" =>
               Row(r, "verification", 0) \in costs
        /\ place \in {"lookup", "salvage", "failed"} => at[h].persisted = "failed"
        /\ place \in {"salvage", "failed"} =>
               /\ at[h].captured \in {runs[r].captured, Null}
               /\ at[h].dispatched = (at[h].read /\ runs[r].requested)

\* A row of plan_costs is one of its run, and there is one of each class.
ChargeSound(c) ==
    /\ c.run \in Runs /\ runs[c.run] # Null /\ runs[c.run].accounted
    /\ c.class \in {"production", "verification"}
    /\ c = Row(c.run, c.class, IF c.class = "production" THEN runs[c.run].cost ELSE 0)

BookSound(e) ==
    books[e] # Null /\ e.run # Null => runs[e.run] # Null /\ runs[e.run].accounted

\* What ResultIsBacked says of one run.
ResultSound(r) ==
    results[r] # Null =>
        LET result == results[r] IN
        /\ result.persisted = "complete" =>
            /\ runs[r].completed /\ runs[r].closing = "verification_completed"
            /\ runs[r].cost # Null => Row(r, "production", runs[r].cost) \in costs
            /\ result.report # "not_run" => Row(r, "verification", 0) \in costs
        /\ result.report # "not_run" => runs[r].captured = "good" /\ runs[r].completed
        /\ result.captured \in {runs[r].captured, Null}
        /\ result.provider = "not_dispatched" /\ result.read => ~runs[r].called
        /\ result.provider = "unknown_after_dispatch" => result.persisted = "failed"

OneOfEach == \A c, d \in costs : c.run = d.run /\ c.class = d.class => c = d

ExecutionInv ==
    /\ ExecutionTypes
    /\ OneHost
    /\ \A r \in Runs : RecordSound(r) /\ ResultSound(r) /\ (results[r] # Null => runs[r] # Null)
    /\ \A h \in Hosts : HostSound(h)
    /\ \A c \in costs : ChargeSound(c)
    /\ OneOfEach
    /\ \A e \in Evidence : BookSound(e)

PlanInv == (\A p \in plans : PlanSound(p)) /\ ExecutionInv

(***************************************************************************)
(* The rank.                                                               *)
(***************************************************************************)

Ranked(k) == \A i \in 1..5 : k[i] \in Int

LEMMA BeforeIsTransitive ==
    ASSUME NEW k, NEW l, NEW m, Ranked(k), Ranked(l), Ranked(m), Before(k, l), Before(l, m)
    PROVE  Before(k, m)
<1>1. PICK i \in 1..5 : k[i] < l[i] /\ \A n \in 1..(i - 1) : k[n] = l[n]
    BY DEF Before
<1>2. PICK j \in 1..5 : l[j] < m[j] /\ \A n \in 1..(j - 1) : l[n] = m[n]
    BY DEF Before
<1>3. CASE i <= j
    <2>1. k[i] < m[i]
        BY <1>1, <1>2, <1>3 DEF Ranked
    <2>2. \A n \in 1..(i - 1) : k[n] = m[n]
        BY <1>1, <1>2, <1>3
    <2>3. QED
        BY <2>1, <2>2 DEF Before
<1>4. CASE j < i
    <2>1. k[j] < m[j]
        BY <1>1, <1>2, <1>4 DEF Ranked
    <2>2. \A n \in 1..(j - 1) : k[n] = m[n]
        BY <1>1, <1>2, <1>4
    <2>3. QED
        BY <2>1, <2>2 DEF Before
<1>5. QED
    BY <1>3, <1>4

LEMMA BeforeIsTotal ==
    ASSUME NEW k, NEW l, Ranked(k), Ranked(l), k[5] # l[5]
    PROVE  Before(k, l) \/ Before(l, k)
<1>1. PICK i \in 1..5 : k[i] # l[i] /\ \A n \in 1..(i - 1) : k[n] = l[n]
    <2>1. CASE k[1] # l[1]
        BY <2>1
    <2>2. CASE k[1] = l[1] /\ k[2] # l[2]
        BY <2>2
    <2>3. CASE k[1] = l[1] /\ k[2] = l[2] /\ k[3] # l[3]
        BY <2>3
    <2>4. CASE k[1] = l[1] /\ k[2] = l[2] /\ k[3] = l[3] /\ k[4] # l[4]
        BY <2>4
    <2>5. CASE k[1] = l[1] /\ k[2] = l[2] /\ k[3] = l[3] /\ k[4] = l[4]
        BY <2>5
    <2>6. QED
        BY <2>1, <2>2, <2>3, <2>4, <2>5
<1>2. k[i] < l[i] \/ l[i] < k[i]
    BY <1>1 DEF Ranked
<1>3. QED
    BY <1>1, <1>2 DEF Before

\* A route with a price has a rank, and no other route has the same one.
LEMMA RankKeys ==
    ASSUME NEW s \in StateNames, NEW r \in Listed(s), States[s][r].cost # Null
    PROVE  Ranked(RankKey(s, r)) /\ RankKey(s, r)[5] = RouteNo[r] /\ RouteNo[r] \in Nat
<1> DEFINE c == States[s][r]
<1>1. /\ c \in Candidates /\ c.cost \in Nat /\ c.utility \in Nat /\ c.latency \in Nat
      /\ c.freshness \in Nat /\ RouteNo[r] \in Nat
    BY PlansAssumption DEF Listed, Candidates
<1> HIDE DEF c
<1>2. RankKey(s, r) = <<-c.utility, c.cost, c.latency, -c.freshness, RouteNo[r]>>
    BY DEF RankKey, c
<1>3. QED
    BY <1>1, <1>2 DEF Ranked

IsBest(s, among, r) == r \in among /\ \A q \in among \ {r} : Before(RankKey(s, r), RankKey(s, q))

\* However many candidates tie, exactly one is best: the last tie-break is the digest of
\* the route (_rank_key).
THEOREM BestExists ==
    ASSUME NEW s \in StateNames, NEW among \in SUBSET Listed(s), among # {},
           \A r \in among : States[s][r].cost # Null
    PROVE  IsBest(s, among, Best(s, among))
<1> DEFINE Bad == {T \in SUBSET among : T # {} /\ ~ \E r \in T : IsBest(s, T, r)}
<1>1. IsFiniteSet(among)
    BY PlansAssumption, FS_Subset DEF Listed
<1>2. Bad = {}
    <2>1. SUFFICES ASSUME Bad # {} PROVE FALSE
        OBVIOUS
    <2>2. Bad \subseteq FiniteSubsetsOf(among)
        BY <1>1, FS_Subset DEF FiniteSubsetsOf
    <2>3. PICK T \in Bad : \A U \in Bad : ~(<<U, T>> \in StrictSubsetOrdering(among))
        <3>1. IsWellFoundedOn(StrictSubsetOrdering(among), FiniteSubsetsOf(among))
            BY FS_StrictSubsetOrderingWellFounded
        <3> HIDE DEF Bad
        <3>2. QED
            BY <2>1, <2>2, <3>1, WFMin
    <2>4. PICK x \in T : TRUE
        BY <2>3
    <2> DEFINE rest == T \ {x}
    <2>5. rest \notin Bad
        <3>1. <<rest, T>> \in StrictSubsetOrdering(among)
            BY <2>3, <2>4 DEF StrictSubsetOrdering
        <3> HIDE DEF Bad
        <3>2. QED
            BY <2>3, <3>1
    <2>6. rest # {}
        <3>1. SUFFICES ASSUME rest = {} PROVE FALSE
            OBVIOUS
        <3>2. IsBest(s, T, x)
            BY <2>4, <3>1 DEF IsBest
        <3>3. QED
            BY <2>3, <2>4, <3>2
    <2>7. PICK m \in rest : IsBest(s, rest, m)
        BY <2>3, <2>5, <2>6
    <2>8. \A r \in T : Ranked(RankKey(s, r)) /\ RankKey(s, r)[5] = RouteNo[r] /\ r \in PlanRoutes
        BY <2>3, RankKeys DEF Listed
    <2>9. Before(RankKey(s, x), RankKey(s, m)) \/ Before(RankKey(s, m), RankKey(s, x))
        <3>1. RankKey(s, x)[5] # RankKey(s, m)[5]
            BY <2>4, <2>7, <2>8, PlansAssumption
        <3>2. QED
            BY <2>4, <2>7, <2>8, <3>1, BeforeIsTotal
    <2>10. CASE Before(RankKey(s, x), RankKey(s, m))
        <3>1. ASSUME NEW q \in T \ {x} PROVE Before(RankKey(s, x), RankKey(s, q))
            <4>1. CASE q = m
                BY <2>10, <4>1
            <4>2. CASE q # m
                <5>1. Before(RankKey(s, m), RankKey(s, q))
                    BY <2>7, <3>1, <4>2 DEF IsBest
                <5>2. QED
                    BY <2>4, <2>7, <2>8, <2>10, <3>1, <5>1, BeforeIsTransitive
            <4>3. QED
                BY <4>1, <4>2
        <3>2. QED
            BY <2>3, <2>4, <3>1 DEF IsBest
    <2>11. CASE Before(RankKey(s, m), RankKey(s, x))
        <3>1. \A q \in T \ {m} : Before(RankKey(s, m), RankKey(s, q))
            BY <2>7, <2>11 DEF IsBest
        <3>2. QED
            BY <2>3, <2>7, <3>1 DEF IsBest
    <2>12. QED
        BY <2>9, <2>10, <2>11
<1>3. \E r \in among : IsBest(s, among, r)
    BY <1>2
<1>4. QED
    BY <1>3 DEF Best, IsBest

(***************************************************************************)
(* The planner.                                                            *)
(***************************************************************************)

\* What _eligibility notes against a candidate is a sequence of reasons.
LEMMA FailingIs ==
    ASSUME NEW input \in Inputs, NEW c \in Candidates
    PROVE  /\ Failing(input, c) \in Seq(ExclusionReason)
           /\ c.cost = Null => Failing(input, c) # <<>>
<1> DEFINE budget == IF c.cost = Null THEN <<"budget_unassessable">>
                     ELSE IF input.mode = "enforce" /\ c.cost > input.max THEN <<"budget_denied">> ELSE <<>>
<1>1. budget \in Seq(ExclusionReason)
    <2>1. "budget_unassessable" \in ExclusionReason /\ "budget_denied" \in ExclusionReason
        BY DEF ExclusionReason
    <2>2. QED
        BY <2>1
<1>2. c.fails \in Seq(ExclusionReason)
    BY DEF Candidates
<1>3. Failing(input, c) = c.fails \o budget
    BY DEF Failing
<1>4. /\ Failing(input, c) \in Seq(ExclusionReason)
      /\ Len(Failing(input, c)) = Len(c.fails) + Len(budget)
    <2> HIDE DEF budget
    <2>1. QED
        BY <1>1, <1>2, <1>3, ConcatProperties
<1>5. ASSUME c.cost = Null PROVE Len(Failing(input, c)) # 0
    <2>1. Len(budget) = 1
        <3>1. budget = <<"budget_unassessable">>
            BY <1>5
        <3> HIDE DEF budget
        <3>2. QED
            BY <3>1
    <2>2. Len(c.fails) \in Nat
        BY <1>2, LenProperties
    <2> HIDE DEF budget
    <2>3. QED
        BY <1>4, <2>1, <2>2
<1>6. QED
    <2>1. Len(<<>>) = 0
        OBVIOUS
    <2>2. QED
        BY <1>4, <1>5, <2>1

LEMMA AllowedAre ==
    ASSUME NEW input \in Inputs, NEW s \in StateNames
    PROVE  /\ Allowed(input, s) \subseteq Listed(s) /\ Allowed(input, s) \subseteq PlanRoutes
           /\ IsFiniteSet(Allowed(input, s))
           /\ \A r \in Allowed(input, s) : States[s][r].cost \in Nat
<1>1. Allowed(input, s) = {r \in Listed(s) : Failing(input, States[s][r]) = <<>>}
    BY DEF Allowed
<1>2. Allowed(input, s) \subseteq Listed(s) /\ Allowed(input, s) \subseteq PlanRoutes
    BY <1>1 DEF Listed
<1>3. IsFiniteSet(Allowed(input, s))
    BY <1>2, PlansAssumption, FS_Subset
<1>4. ASSUME NEW r \in Allowed(input, s) PROVE States[s][r].cost \in Nat
    <2>1. States[s][r] \in Candidates /\ Failing(input, States[s][r]) = <<>>
        BY <1>1, <1>4, PlansAssumption DEF Listed
    <2>2. States[s][r].cost # Null
        BY <2>1, FailingIs
    <2>3. QED
        BY <2>1, <2>2 DEF Candidates
<1>5. QED
    BY <1>2, <1>3, <1>4

\* Whatever is excluded has a reason.
LEMMA ExcludedAre ==
    ASSUME NEW input \in Inputs, NEW s \in StateNames
    PROVE  Excluded(input, s) \in SUBSET [route : PlanRoutes, reason : ExclusionReason]
<1>1. ASSUME NEW r \in Listed(s) \ Allowed(input, s)
      PROVE  r \in PlanRoutes /\ Head(Failing(input, States[s][r])) \in ExclusionReason
    <2>1. r \in PlanRoutes /\ States[s][r] \in Candidates /\ Failing(input, States[s][r]) # <<>>
        BY <1>1, PlansAssumption DEF Allowed, Listed
    <2>2. Failing(input, States[s][r]) \in Seq(ExclusionReason)
        BY <2>1, FailingIs
    <2>3. QED
        BY <2>1, <2>2, HeadTailProperties
<1>2. QED
    BY <1>1 DEF Excluded

\* The first plan of a task.
LEMMA PlanStep ==
    ASSUME \A p \in plans : PlanSound(p), NEW input \in Inputs, NEW s \in StateNames, Plan(input, s)
    PROVE  \A p \in plans' : PlanSound(p)
<1> DEFINE allowed == Allowed(input, s)
           chosen == Best(s, allowed)
           p == [revision |-> input.revision, mode |-> "shadow_only", input |-> input, state |-> s,
                 bound |-> chosen, eligible |-> allowed, excluded |-> Excluded(input, s),
                 cost |-> States[s][chosen].cost,
                 warned |-> Warned(input, States[s][chosen].cost), fallbacks |-> <<>>]
<1>1. /\ allowed # {} /\ allowed \subseteq PlanRoutes /\ IsFiniteSet(allowed) /\ allowed \subseteq Listed(s)
      /\ \A r \in allowed : States[s][r].cost \in Nat
    BY AllowedAre DEF Plan
<1>2. WellFormed(p) /\ plans' = plans \cup {p}
    BY DEF Plan, Compile
<1>3. chosen \in allowed
    BY <1>2 DEF WellFormed
<1>4. States[s][chosen].cost \in Nat
    BY <1>1, <1>3
<1>5. Excluded(input, s) \in SUBSET [route : PlanRoutes, reason : ExclusionReason]
    BY ExcludedAre
<1>6. Warned(input, States[s][chosen].cost) \in BOOLEAN
    BY DEF Warned
<1>7. <<>> \in Seq(Fallbacks) /\ Len(<<>>) = 0 /\ DOMAIN <<>> = {}
    OBVIOUS
<1> HIDE DEF allowed, chosen
<1>8. p \in Plans
    <2>1. input.revision \in Nat
        BY PlansAssumption
    <2>2. QED
        BY <2>1, <1>1, <1>3, <1>4, <1>5, <1>6, <1>7 DEF Plans
<1>9. PlanSound(p)
    <2>1. p.eligible = Allowed(p.input, p.state) /\ p.bound \in p.eligible
        BY <1>3 DEF allowed
    <2>2. Failed(p) = {}
        BY <1>7 DEF Failed
    <2>3. Cardinality(p.eligible) \in Nat
        BY <1>1, FS_CardinalityType
    <2>4. p.revision = p.input.revision + Len(p.fallbacks) /\ Len(p.fallbacks) = 0
        <3>1. p.revision = input.revision /\ p.input = input /\ Len(p.fallbacks) = 0
            BY <1>7
        <3>2. input.revision \in Nat
            BY PlansAssumption
        <3> HIDE DEF p
        <3>3. QED
            BY <3>1, <3>2
    <2> HIDE DEF p
    <2>5. QED
        BY <1>8, <2>1, <2>2, <2>3, <2>4 DEF PlanSound
<1>10. QED
    BY <1>2, <1>9

\* A revision.
LEMMA ReviseStep ==
    ASSUME \A p \in plans : PlanSound(p), NEW p \in plans, NEW s \in StateNames, NEW why \in Failures,
           Revise(p, why, s)
    PROVE  \A q \in plans' : PlanSound(q)
<1> DEFINE left == p.eligible \ {p.bound}
           remaining == left \cap Listed(s)
           chosen == Best(s, remaining)
           fallback == [reason |-> why, from |-> p.bound, to |-> chosen]
           failing == {[route |-> r, reason |-> "provider_unavailable"] : r \in {p.bound}}
           cost == States[s][chosen].cost
           warned == Warned(p.input, cost)
           q == [p EXCEPT !.revision = @ + 1, !.mode = "shadow_only", !.bound = chosen, !.eligible = left,
                          !.excluded = @ \cup failing, !.cost = cost, !.warned = warned,
                          !.fallbacks = Append(@, fallback)]
<1>1. /\ p \in Plans /\ p.bound \in p.eligible /\ p.eligible \subseteq Allowed(p.input, p.state)
      /\ p.eligible \cap Failed(p) = {} /\ p.revision = p.input.revision + Len(p.fallbacks)
      /\ Cardinality(p.eligible) + Len(p.fallbacks) <= Cardinality(Allowed(p.input, p.state))
    BY DEF PlanSound
<1>2. /\ remaining # {} /\ \A r \in remaining : States[s][r].cost # Null
      /\ WellFormed(q) /\ plans' = plans \cup {q}
    BY DEF Revise, Compile, Dropped
<1>3. chosen \in remaining
    BY <1>2, BestExists DEF IsBest
<1>4. chosen \in left /\ chosen \in PlanRoutes /\ cost \in Nat
    BY <1>2, <1>3, PlansAssumption DEF Listed, Candidates
<1>5. fallback \in Fallbacks /\ fallback.from = p.bound
    BY <1>1, <1>4 DEF Fallbacks, Plans
<1>6. failing \subseteq [route : PlanRoutes, reason : ExclusionReason]
    <2>1. "provider_unavailable" \in ExclusionReason
        BY DEF ExclusionReason
    <2>2. QED
        BY <1>1, <2>1 DEF Plans
<1>7. warned \in BOOLEAN
    BY DEF Warned
<1>8. /\ IsFiniteSet(p.eligible) /\ left \subseteq p.eligible /\ Cardinality(left) = Cardinality(p.eligible) - 1
      /\ Cardinality(p.eligible) \in Nat
    <2>1. IsFiniteSet(p.eligible)
        BY <1>1, PlansAssumption, FS_Subset DEF Plans
    <2>2. QED
        BY <1>1, <2>1, FS_RemoveElement, FS_CardinalityType
<1> DEFINE old == p.fallbacks
           new == Append(old, fallback)
<1>9. /\ old \in Seq(Fallbacks) /\ new \in Seq(Fallbacks) /\ Len(new) = Len(old) + 1 /\ Len(old) \in Nat
      /\ \A i \in 1..Len(old) : new[i] = old[i]
      /\ new[Len(old) + 1] = fallback
      /\ DOMAIN old = 1..Len(old) /\ DOMAIN new = 1..Len(old) + 1
    <2>1. old \in Seq(Fallbacks)
        BY <1>1 DEF Plans
    <2> HIDE DEF old, fallback
    <2>2. QED
        BY <1>5, <2>1, AppendProperties, LenProperties
<1>10. /\ q.revision = p.revision + 1 /\ q.bound = chosen /\ q.eligible = left
       /\ q.input = p.input /\ q.state = p.state /\ q.fallbacks = new
    BY <1>1 DEF Plans
<1>11. q \in Plans
    <2> HIDE DEF left, remaining, chosen, fallback, failing, cost, warned
    <2>1. left \in SUBSET PlanRoutes
        BY <1>1 DEF Plans, left
    <2>2. p.excluded \cup failing \in SUBSET [route : PlanRoutes, reason : ExclusionReason]
        BY <1>1, <1>6 DEF Plans
    <2> HIDE DEF new, old
    <2>3. Append(p.fallbacks, fallback) \in Seq(Fallbacks)
        BY <1>9 DEF new, old
    <2>4. p \in Plans /\ p.revision + 1 \in Nat
        BY <1>1 DEF Plans
    <2> DEFINE excluded == p.excluded \cup failing
               fallbacks == Append(p.fallbacks, fallback)
    <2>5. /\ excluded \in SUBSET [route : PlanRoutes, reason : ExclusionReason]
          /\ fallbacks \in Seq(Fallbacks)
          /\ q = [p EXCEPT !.revision = p.revision + 1, !.mode = "shadow_only", !.bound = chosen,
                          !.eligible = left, !.excluded = excluded, !.cost = cost, !.warned = warned,
                          !.fallbacks = fallbacks]
        BY <2>2, <2>3
    <2> HIDE DEF excluded, fallbacks, q
    <2>6. QED
        BY <1>4, <1>7, <2>1, <2>4, <2>5 DEF Plans
<1> HIDE DEF q
<1>12. Failed(q) \subseteq Failed(p) \cup {p.bound}
    <2>1. SUFFICES ASSUME NEW i \in DOMAIN new PROVE new[i].from \in Failed(p) \cup {p.bound}
        BY <1>10 DEF Failed
    <2>2. CASE i = Len(old) + 1
        <3> HIDE DEF new, old, fallback
        <3>1. QED
            BY <1>5, <1>9, <2>2
    <2>3. CASE i \in DOMAIN old
        <3>1. old[i].from \in Failed(p)
            BY <2>3 DEF Failed
        <3> HIDE DEF new, old, fallback
        <3>2. QED
            BY <1>9, <2>3, <3>1
    <2>4. i \in DOMAIN old \/ i = Len(old) + 1
        <3> HIDE DEF new, old, fallback
        <3>1. QED
            BY <1>9, <2>1
    <2>5. QED
        BY <2>2, <2>3, <2>4
<1>13. PlanSound(q)
    <2>1. q.eligible \cap Failed(q) = {}
        BY <1>1, <1>10, <1>12
    <2>2. q.revision = q.input.revision + Len(q.fallbacks)
        BY <1>1, <1>9, <1>10, PlansAssumption DEF Plans
    <2>3. Cardinality(Allowed(p.input, p.state)) \in Nat
        BY <1>1, AllowedAre, FS_CardinalityType DEF Plans
    <2>4. Cardinality(q.eligible) + Len(q.fallbacks) <= Cardinality(Allowed(q.input, q.state))
        BY <1>1, <1>8, <1>9, <1>10, <2>3
    <2>5. q.bound \in q.eligible /\ q.eligible \subseteq Allowed(q.input, q.state)
        BY <1>1, <1>4, <1>8, <1>10
    <2>6. QED
        BY <1>11, <2>1, <2>2, <2>4, <2>5 DEF PlanSound
<1>14. QED
    BY <1>2, <1>13 DEF q

\* The decision to let a plan execute.
LEMMA PromoteStep ==
    ASSUME \A p \in plans : PlanSound(p), NEW p \in plans, Promote(p)
    PROVE  \A q \in plans' : PlanSound(q)
<1> DEFINE q == [p EXCEPT !.mode = "execution_eligible"]
<1>1. PlanSound(p) /\ plans' = plans \cup {q} /\ p \in Plans
    BY DEF Promote, Compile, PlanSound
<1>2. /\ q \in Plans /\ q.revision = p.revision /\ q.bound = p.bound /\ q.eligible = p.eligible
      /\ q.input = p.input /\ q.state = p.state /\ q.fallbacks = p.fallbacks
    BY <1>1 DEF Plans
<1> HIDE DEF q
<1>3. PlanSound(q)
    BY <1>1, <1>2 DEF PlanSound, Failed
<1>4. QED
    BY <1>1, <1>3

\* A sound plan binds a route that is allowed and did not fail, and there are no more
\* revisions than routes.
LEMMA SoundPlansAdvance ==
    ASSUME \A p \in plans : PlanSound(p)
    PROVE  FallbackAdvances
<1> SUFFICES ASSUME NEW p \in plans
             PROVE  /\ p.bound \in Allowed(p.input, p.state) \ Failed(p)
                    /\ p.revision = p.input.revision + Len(p.fallbacks)
                    /\ Len(p.fallbacks) < Cardinality(Allowed(p.input, p.state))
    BY DEF FallbackAdvances, Failed
<1>1. PlanSound(p) /\ IsFiniteSet(p.eligible)
    BY PlansAssumption, FS_Subset DEF PlanSound, Plans
<1>2. Cardinality(p.eligible) \in Nat /\ Cardinality(p.eligible) # 0
    BY <1>1, FS_CardinalityType, FS_EmptySet DEF PlanSound
<1>3. Len(p.fallbacks) \in Nat /\ Cardinality(Allowed(p.input, p.state)) \in Nat
    BY <1>1, AllowedAre, FS_CardinalityType, LenProperties DEF PlanSound, Plans
<1>4. QED
    BY <1>1, <1>2, <1>3 DEF PlanSound

(***************************************************************************)
(* What each kind of step keeps of the execution.                          *)
(***************************************************************************)

OthersStay(h) == \A g \in Hosts \ {h} : at'[g] = at[g]

LEMMA HostBecomes ==
    ASSUME ExecutionTypes, NEW h \in Hosts, NEW p \in Hosting, at' = [at EXCEPT ![h] = p]
    PROVE  at' \in [Hosts -> Hosting] /\ OthersStay(h) /\ at'[h] = p
BY DEF ExecutionTypes, OthersStay

LEMMA FreeIs == Free \in Hosting /\ Free.place = "idle"
BY DEF Free, Hosting, Places, Reports, Told

\* A caller of execute goes on with its run, or leaves it.
LEMMA HostStep ==
    ASSUME ExecutionInv, ExecutionTypes', NEW h \in Hosts, OthersStay(h), ~In(h, "idle"),
           In(h, "idle")' \/ Run(h)' = Run(h), NEW r, r = Run(h),
           \A q \in Runs \ {r} : runs'[q] = runs[q] /\ results'[q] = results[q],
           books' = books, costs \subseteq costs', \A c \in costs' \ costs : c.run = r,
           runs'[r] # Null, runs[r].accounted => runs'[r].accounted,
           HostSound(h)', RecordSound(r)', ResultSound(r)',
           \A c \in costs' : c.run = r => ChargeSound(c)',
           \A c, d \in costs' : c.run = r /\ d.run = r /\ c.class = d.class => c = d
    PROVE  ExecutionInv'
<1>1. /\ OneHost /\ OneOfEach
      /\ \A q \in Runs : RecordSound(q) /\ ResultSound(q) /\ (results[q] # Null => runs[q] # Null)
      /\ \A g \in Hosts : HostSound(g)
      /\ \A c \in costs : ChargeSound(c)
      /\ \A e \in Evidence : BookSound(e)
    BY DEF ExecutionInv
<1>2. \A g \in Hosts \ {h} : at'[g] = at[g] /\ Run(g)' = Run(g)
    BY DEF OthersStay, Run
<1>3. r \in Runs
    BY <1>1 DEF HostSound, In
<1>4. OneHost'
    BY <1>1, <1>2 DEF OneHost, In, Run
<1>5. \A q \in Runs : RecordSound(q)' /\ (results'[q] # Null => runs'[q] # Null)
    BY <1>1 DEF RecordSound
<1>6. ASSUME NEW q \in Runs \ {r} PROVE ResultSound(q)'
    <2>1. ResultSound(q) /\ runs'[q] = runs[q] /\ results'[q] = results[q]
        BY <1>1
    <2>2. \A class, amount : Row(q, class, amount)' = Row(q, class, amount)
        BY <2>1 DEF Row
    <2>3. QED
        BY <2>1, <2>2 DEF ResultSound
<1>7. ASSUME NEW g \in Hosts \ {h} PROVE HostSound(g)'
    <2>1. CASE In(g, "idle")
        BY <1>2, <2>1 DEF HostSound, In
    <2>2. CASE ~In(g, "idle")
        <3>1. HostSound(g) /\ Run(g) \in Runs \ {r} /\ at'[g] = at[g] /\ Run(g)' = Run(g)
            BY <1>1, <1>2, <2>2 DEF OneHost, HostSound, In
        <3>2. \A class, amount : Row(Run(g), class, amount)' = Row(Run(g), class, amount)
            BY <3>1 DEF Row
        <3>3. QED
            BY <3>1, <3>2 DEF HostSound
    <2>3. QED
        BY <2>1, <2>2
<1>8. ASSUME NEW c \in costs', c.run # r PROVE ChargeSound(c)'
    <2>1. c \in costs /\ ChargeSound(c) /\ c.run \in Runs \ {r}
        BY <1>1, <1>8 DEF ChargeSound
    <2>2. \A class, amount : Row(c.run, class, amount)' = Row(c.run, class, amount)
        BY <2>1 DEF Row
    <2>3. QED
        BY <2>1, <2>2 DEF ChargeSound
<1>9. OneOfEach'
    <2>1. SUFFICES ASSUME NEW c \in costs', NEW d \in costs', c.run = d.run, c.class = d.class
                   PROVE  c = d
        BY DEF OneOfEach
    <2>2. CASE c.run = r
        BY <2>1, <2>2
    <2>3. CASE c.run # r
        BY <1>1, <2>1, <2>3 DEF OneOfEach
    <2>4. QED
        BY <2>2, <2>3
<1>10. \A e \in Evidence : BookSound(e)'
    <2>1. SUFFICES ASSUME NEW e \in Evidence, books[e] # Null, e.run # Null
                   PROVE  runs'[e.run] # Null /\ runs'[e.run].accounted
        BY DEF BookSound
    <2>2. e.run \in Runs /\ runs[e.run].accounted /\ runs[e.run] # Null
        BY <1>1, <2>1, RuntimeAssumption DEF BookSound
    <2>3. QED
        BY <2>2
<1>11. QED
    BY <1>4, <1>5, <1>6, <1>7, <1>8, <1>9, <1>10 DEF ExecutionInv

\* It writes nothing.
LEMMA HostMoves ==
    ASSUME ExecutionInv, NEW h \in Hosts, at' \in [Hosts -> Hosting], OthersStay(h), ~In(h, "idle"),
           In(h, "idle")' \/ Run(h)' = Run(h), UNCHANGED <<runs, results, books, costs>>, HostSound(h)'
    PROVE  ExecutionInv'
<1>1. PICK r \in Runs : r = Run(h) /\ runs[r] # Null
    BY DEF ExecutionInv, HostSound, In
<1>2. \A q, class, amount : Row(q, class, amount)' = Row(q, class, amount)
    BY DEF Row
<1>3. ExecutionTypes'
    BY DEF ExecutionInv, ExecutionTypes
<1>4. \A q \in Runs : RecordSound(q)' /\ ResultSound(q)'
    BY <1>2 DEF ExecutionInv, RecordSound, ResultSound
<1>5. \A c \in costs : ChargeSound(c)'
    BY <1>2 DEF ExecutionInv, ChargeSound
<1>6. \A c, d \in costs' : c.run = r /\ d.run = r /\ c.class = d.class => c = d
    BY DEF ExecutionInv, OneOfEach
<1>7. QED
    BY <1>1, <1>3, <1>4, <1>5, <1>6, HostStep

\* No caller of execute takes a step.
LEMMA OutsideExecution ==
    ASSUME ExecutionInv, UNCHANGED <<runs, results, costs, at>>,
           books' \in [Evidence -> Amounts \cup {Null}], \A e \in Evidence : BookSound(e)'
    PROVE  ExecutionInv'
<1>1. \A q, class, amount : Row(q, class, amount)' = Row(q, class, amount)
    BY DEF Row
<1>2. ExecutionTypes' /\ OneHost' /\ OneOfEach'
    BY DEF ExecutionInv, ExecutionTypes, OneHost, OneOfEach, In, Run
<1>3. \A q \in Runs : RecordSound(q)' /\ ResultSound(q)' /\ (results'[q] # Null => runs'[q] # Null)
    BY <1>1 DEF ExecutionInv, RecordSound, ResultSound
<1>4. \A c \in costs' : ChargeSound(c)'
    BY <1>1 DEF ExecutionInv, ChargeSound
<1>5. \A h \in Hosts : HostSound(h)'
    <2>1. SUFFICES ASSUME NEW h \in Hosts PROVE HostSound(h)'
        OBVIOUS
    <2>2. HostSound(h) /\ at'[h] = at[h] /\ Run(h)' = Run(h)
        BY DEF ExecutionInv, Run
    <2>3. QED
        BY <1>1, <2>2 DEF HostSound
<1>6. QED
    BY <1>2, <1>3, <1>4, <1>5 DEF ExecutionInv

\* A row of its own class, or the one that is there.
LEMMA Booked ==
    ASSUME \A c \in costs : ChargeSound(c), OneOfEach, NEW r \in Runs, runs[r] # Null, runs[r].accounted,
           NEW class \in {"production", "verification"}, NEW amount,
           amount = (IF class = "production" THEN runs[r].cost ELSE 0),
           Book(r, class, amount), runs' = runs
    PROVE  /\ costs \subseteq costs' /\ \A c \in costs' \ costs : c.run = r
           /\ \A c \in costs' : ChargeSound(c)'
           /\ \A c, d \in costs' : c.run = d.run /\ c.class = d.class => c = d
           /\ amount # Null => Row(r, class, amount) \in costs'
<1> DEFINE row == Row(r, class, amount)
<1>1. row = [plan |-> runs[r].plan, run |-> r, class |-> class, amount |-> amount]
    BY DEF Row
<1>2. \A q, some, worth : Row(q, some, worth)' = Row(q, some, worth)
    BY DEF Row
<1>3. row.run = r /\ row.class = class
    BY <1>1
<1> HIDE DEF row
<1>4. ChargeSound(row)
    BY <1>3 DEF ChargeSound, row
<1>5. CASE amount = Null \/ \E c \in costs : c.run = r /\ c.class = class
    <2>1. costs' = costs
        BY <1>5 DEF Book
    <2>2. amount # Null => row \in costs
        <3>1. SUFFICES ASSUME amount # Null PROVE row \in costs
            OBVIOUS
        <3>2. PICK c \in costs : c.run = r /\ c.class = class
            BY <1>5, <3>1
        <3>3. c = row
            BY <3>2 DEF ChargeSound, row
        <3>4. QED
            BY <3>2, <3>3
    <2>3. \A c \in costs : ChargeSound(c)'
        BY <1>2 DEF ChargeSound
    <2>4. QED
        BY <2>1, <2>2, <2>3 DEF OneOfEach, row
<1>6. CASE amount # Null /\ ~ \E c \in costs : c.run = r /\ c.class = class
    <2>1. costs' = costs \cup {row}
        BY <1>1, <1>6 DEF Book
    <2>2. \A c \in costs' : ChargeSound(c)'
        BY <1>2, <1>4, <2>1 DEF ChargeSound
    <2>3. \A c, d \in costs' : c.run = d.run /\ c.class = d.class => c = d
        BY <1>3, <1>6, <2>1 DEF OneOfEach
    <2>4. QED
        BY <1>3, <2>1, <2>2, <2>3 DEF row
<1>7. QED
    BY <1>5, <1>6

(***************************************************************************)
(* The steps of execute.                                                   *)
(***************************************************************************)

LEMMA RecordedIs ==
    ASSUME NEW p \in Plans, NEW level \in 0..6, NEW seen \in Observed
    PROVE  /\ Recorded(p, level, seen) \in RunRecords
           /\ Recorded(p, level, seen).completed => Recorded(p, level, seen).accounted
           /\ Recorded(p, level, seen).called => Recorded(p, level, seen).requested
           /\ level = 6 => Recorded(p, level, seen).completed
           /\ Recorded(p, level, seen).plan = p /\ Recorded(p, level, seen).closing = Null
<1>1. seen.called \in BOOLEAN /\ seen.answer \in Told /\ seen.cost \in Nat \cup {Null}
    BY RuntimeAssumption DEF Told
<1> DEFINE called == level >= 3 /\ seen.called
           captured == IF level >= 4 THEN seen.answer ELSE Null
           cost == IF level >= 5 THEN seen.cost ELSE Null
           reached == <<level >= 1, level >= 2, level >= 6>>
           record == [plan |-> p, requested |-> reached[1], accounted |-> reached[2], called |-> called,
                      captured |-> captured, cost |-> cost, completed |-> reached[3], closing |-> Null]
<1>2. /\ called \in BOOLEAN /\ captured \in Told /\ cost \in Nat \cup {Null}
      /\ reached[1] \in BOOLEAN /\ reached[2] \in BOOLEAN /\ reached[3] \in BOOLEAN
    BY <1>1 DEF Told
<1>3. (reached[3] => reached[2]) /\ (called => reached[1]) /\ (level = 6 => reached[3])
    <2>1. (level >= 6 => level >= 2) /\ (level >= 3 => level >= 1) /\ (level = 6 => level >= 6)
        OBVIOUS
    <2>2. QED
        BY <2>1
<1>4. Recorded(p, level, seen) = record
    BY DEF Recorded
<1> HIDE DEF called, captured, cost, reached
<1>5. record \in RunRecords
    BY <1>2 DEF RunRecords
<1>6. QED
    BY <1>3, <1>4, <1>5

LEMMA UnrunIs ==
    ASSUME NEW p \in Plans
    PROVE  /\ Unrun(p) \in RunRecords /\ Unrun(p) # Null
           /\ ~Unrun(p).accounted /\ ~Unrun(p).completed /\ ~Unrun(p).called /\ Unrun(p).closing = Null
<1>1. Unrun(p) \in RunRecords
    BY DEF Unrun, RunRecords, Told
<1>2. QED
    BY <1>1, RuntimeAssumption DEF Unrun

\* A run no other caller has.
LEMMA BeginStep ==
    ASSUME ExecutionInv, NEW h \in Hosts, NEW r \in Runs, NEW p \in Plans, NEW i \in Refs, Begin(h, r, p, i)
    PROVE  ExecutionInv'
<1> DEFINE host == [Free EXCEPT !.place = "invoke", !.run = r, !.ref = i]
           record == Unrun(p)
<1>1. /\ ExecutionTypes /\ OneHost /\ OneOfEach
      /\ \A q \in Runs : RecordSound(q) /\ ResultSound(q) /\ (results[q] # Null => runs[q] # Null)
      /\ \A g \in Hosts : HostSound(g)
      /\ \A c \in costs : ChargeSound(c)
      /\ \A e \in Evidence : BookSound(e)
    BY DEF ExecutionInv
<1>2. /\ In(h, "idle") /\ runs[r] = Null /\ runs' = [runs EXCEPT ![r] = record]
      /\ at' = [at EXCEPT ![h] = host] /\ UNCHANGED <<costs, books, results>>
    BY DEF Begin
<1>3. /\ host \in Hosting /\ host.place = "invoke" /\ host.run = r /\ host.captured = Null
      /\ host.report = "not_run"
    BY FreeIs DEF Free, Hosting, Places
<1>4. /\ record \in RunRecords /\ record # Null /\ ~record.accounted /\ ~record.completed
      /\ ~record.called /\ record.closing = Null
    BY UnrunIs
<1> HIDE DEF host, record
<1>5. at' \in [Hosts -> Hosting] /\ OthersStay(h) /\ at'[h] = host
    BY <1>1, <1>2, <1>3, HostBecomes
<1>6. /\ runs' \in [Runs -> RunRecords \cup {Null}] /\ runs'[r] = record
      /\ \A q \in Runs \ {r} : runs'[q] = runs[q]
    BY <1>1, <1>2, <1>4 DEF ExecutionTypes
<1>7. results[r] = Null
    BY <1>1, <1>2
<1>8. \A g \in Hosts : ~In(g, "idle") => Run(g) \in Runs \ {r}
    BY <1>1, <1>2 DEF HostSound, In
<1>9. \A q \in Runs \ {r} : \A class, amount : Row(q, class, amount)' = Row(q, class, amount)
    BY <1>6 DEF Row
<1>10. ExecutionTypes'
    BY <1>1, <1>2, <1>5, <1>6 DEF ExecutionTypes
<1>11. OneHost'
    BY <1>1, <1>3, <1>5, <1>8 DEF OneHost, OthersStay, In, Run
<1>12. ASSUME NEW q \in Runs
       PROVE  RecordSound(q)' /\ ResultSound(q)' /\ (results'[q] # Null => runs'[q] # Null)
    <2>1. CASE q = r
        BY <1>2, <1>4, <1>6, <1>7, <2>1 DEF RecordSound, ResultSound
    <2>2. CASE q # r
        <3>1. /\ RecordSound(q) /\ ResultSound(q) /\ (results[q] # Null => runs[q] # Null)
              /\ runs'[q] = runs[q] /\ results'[q] = results[q] /\ costs' = costs
            BY <1>1, <1>2, <1>6, <2>2
        <3>2. \A class, amount : Row(q, class, amount)' = Row(q, class, amount)
            BY <1>9, <2>2
        <3>3. QED
            BY <3>1, <3>2 DEF RecordSound, ResultSound
    <2>3. QED
        BY <2>1, <2>2
<1>13. HostSound(h)'
    BY <1>2, <1>3, <1>4, <1>5, <1>6, <1>7 DEF HostSound, Run
<1>14. ASSUME NEW g \in Hosts \ {h} PROVE HostSound(g)'
    <2>1. HostSound(g) /\ at'[g] = at[g] /\ Run(g)' = Run(g)
        BY <1>1, <1>5 DEF OthersStay, Run
    <2>2. CASE In(g, "idle")
        BY <2>1, <2>2 DEF HostSound, In
    <2>3. CASE ~In(g, "idle")
        <3>1. Run(g) \in Runs \ {r} /\ runs'[Run(g)] = runs[Run(g)] /\ results' = results /\ costs' = costs
            BY <1>2, <1>6, <1>8, <2>3
        <3>2. \A class, amount : Row(Run(g), class, amount)' = Row(Run(g), class, amount)
            BY <2>1, <3>1 DEF Row
        <3>3. QED
            BY <2>1, <3>1, <3>2 DEF HostSound
    <2>4. QED
        BY <2>2, <2>3
<1>15. ASSUME NEW c \in costs PROVE ChargeSound(c)'
    <2>1. ChargeSound(c) /\ c.run \in Runs \ {r}
        BY <1>1, <1>2, <1>15 DEF ChargeSound
    <2>2. \A class, amount : Row(c.run, class, amount)' = Row(c.run, class, amount)
        BY <1>9, <2>1
    <2>3. QED
        BY <1>6, <2>1, <2>2 DEF ChargeSound
<1>16. \A e \in Evidence : BookSound(e)'
    <2>1. SUFFICES ASSUME NEW e \in Evidence, books[e] # Null, e.run # Null
                   PROVE  runs'[e.run] # Null /\ runs'[e.run].accounted
        BY <1>2 DEF BookSound
    <2>2. e.run \in Runs /\ runs[e.run].accounted /\ runs[e.run] # Null
        BY <1>1, <2>1, RuntimeAssumption DEF BookSound
    <2>3. QED
        BY <1>2, <1>6, <2>2
<1>17. OneOfEach'
    BY <1>1, <1>2 DEF OneOfEach
<1>18. QED
    BY <1>2, <1>10, <1>11, <1>12, <1>13, <1>14, <1>15, <1>16, <1>17 DEF ExecutionInv

\* invoke returns, or raises and leaves what it got to.
LEMMA InvokeStep ==
    ASSUME ExecutionInv, NEW h \in Hosts, InvokeRaises(h) \/ (\E seen \in Observed : InvokeReturns(h, seen))
    PROVE  ExecutionInv'
<1>1. /\ ExecutionTypes /\ HostSound(h) /\ In(h, "invoke") /\ UNCHANGED <<costs, books, results>>
      /\ at[h] \in Hosting
    BY DEF ExecutionInv, ExecutionTypes, InvokeRaises, InvokeReturns
<1>2. PICK r \in Runs : /\ r = Run(h) /\ runs[r] # Null /\ ~runs[r].accounted /\ results[r] = Null
                        /\ at[h].captured = Null /\ at[h].report = "not_run"
    BY <1>1 DEF HostSound, In
<1>3. runs[r] \in RunRecords /\ runs[r].plan \in Plans
    BY <1>1, <1>2 DEF ExecutionTypes, RunRecords
<1>4. PICK level \in 0..6, seen \in Observed, place \in {"terminal", "lookup"},
           persisted \in {"complete", "failed"} :
        /\ runs' = [runs EXCEPT ![r] = Recorded(runs[r].plan, level, seen)]
        /\ at' = [at EXCEPT ![h].place = place, ![h].persisted = persisted]
        /\ place = "terminal" => level = 6
        /\ place = "lookup" => persisted = "failed"
    <2>1. CASE InvokeRaises(h)
        <3>1. PICK level \in 0..6, seen \in Observed :
                  runs' = [runs EXCEPT ![r] = Recorded(@.plan, level, seen)]
            BY <1>2, <2>1 DEF InvokeRaises
        <3>2. at' = [at EXCEPT ![h].place = "lookup", ![h].persisted = "failed"]
            BY <2>1 DEF InvokeRaises
        <3>3. QED
            BY <3>1, <3>2
    <2>2. ASSUME NEW seen \in Observed, InvokeReturns(h, seen)
          PROVE  /\ runs' = [runs EXCEPT ![r] = Recorded(runs[r].plan, 6, seen)]
                 /\ at' = [at EXCEPT ![h].place = "terminal", ![h].persisted = at[h].persisted]
                 /\ at[h].persisted \in {"complete", "failed"}
        <3>1. at' = [at EXCEPT ![h].place = "terminal"] /\ runs' = [runs EXCEPT ![r] = Recorded(@.plan, 6, seen)]
            BY <1>2, <2>2 DEF InvokeReturns, Go
        <3>2. at[h].persisted \in {"complete", "failed"}
            BY <1>1 DEF Hosting
        <3>3. [at[h] EXCEPT !.place = "terminal"] = [at[h] EXCEPT !.place = "terminal", !.persisted = at[h].persisted]
            BY <1>1 DEF Hosting
        <3>4. QED
            BY <3>1, <3>2, <3>3
    <2>3. QED
        BY <2>1, <2>2
<1> DEFINE record == Recorded(runs[r].plan, level, seen)
           host == [at[h] EXCEPT !.place = place, !.persisted = persisted]
<1>5. /\ record \in RunRecords /\ record # Null /\ (record.completed => record.accounted)
      /\ (record.called => record.requested) /\ (level = 6 => record.completed)
    BY <1>3, RecordedIs, RuntimeAssumption
<1>6. /\ host \in Hosting /\ host.place = place /\ host.run = at[h].run /\ host.persisted = persisted
      /\ host.report = "not_run" /\ host.captured = Null
    BY <1>1, <1>2 DEF Hosting, Places
<1>7. runs' = [runs EXCEPT ![r] = record] /\ at' = [at EXCEPT ![h] = host]
    BY <1>4
<1> HIDE DEF record, host
<1>8. at' \in [Hosts -> Hosting] /\ OthersStay(h) /\ at'[h] = host /\ Run(h)' = r
    BY <1>1, <1>2, <1>6, <1>7, HostBecomes DEF Run
<1>9. /\ runs' \in [Runs -> RunRecords \cup {Null}] /\ runs'[r] = record
      /\ \A q \in Runs \ {r} : runs'[q] = runs[q]
    BY <1>1, <1>5, <1>7 DEF ExecutionTypes
<1>10. ExecutionTypes'
    BY <1>1, <1>8, <1>9 DEF ExecutionTypes
<1>11. HostSound(h)'
    BY <1>1, <1>2, <1>4, <1>5, <1>6, <1>8, <1>9 DEF HostSound
<1>12. RecordSound(r)' /\ ResultSound(r)'
    BY <1>1, <1>2, <1>5, <1>9 DEF RecordSound, ResultSound
<1>13. \A c \in costs' : c.run # r
    BY <1>1, <1>2 DEF ExecutionInv, ChargeSound
<1>14. QED
    BY <1>1, <1>2, <1>5, <1>8, <1>9, <1>10, <1>11, <1>12, <1>13, HostStep DEF In

\* It gives up, or dies.
LEMMA LeaveStep ==
    ASSUME ExecutionInv, NEW h \in Hosts, ~In(h, "idle"), at' = [at EXCEPT ![h] = Free],
           UNCHANGED <<runs, results, books, costs>>
    PROVE  ExecutionInv'
<1>1. at' \in [Hosts -> Hosting] /\ OthersStay(h) /\ at'[h] = Free
    BY HostBecomes, FreeIs DEF ExecutionInv
<1>2. In(h, "idle")' /\ HostSound(h)'
    BY <1>1, FreeIs DEF In, HostSound
<1>3. QED
    BY <1>1, <1>2, HostMoves

\* It goes on and writes nothing.
LEMMA GoOnStep ==
    ASSUME ExecutionInv, NEW h \in Hosts, ~In(h, "idle"), NEW host \in Hosting, host.run = Run(h),
           at' = [at EXCEPT ![h] = host], UNCHANGED <<runs, results, books, costs>>,
           (at'[h] = host /\ Run(h)' = Run(h)) => HostSound(h)'
    PROVE  ExecutionInv'
<1>1. at' \in [Hosts -> Hosting] /\ OthersStay(h) /\ at'[h] = host
    BY HostBecomes DEF ExecutionInv
<1>2. Run(h)' = Run(h)
    BY <1>1 DEF Run
<1>3. QED
    BY <1>1, <1>2, HostMoves

\* What a caller in execute has to go by.
LEMMA Busy ==
    ASSUME ExecutionInv, NEW h \in Hosts, ~In(h, "idle")
    PROVE  /\ ExecutionTypes /\ at[h] \in Hosting /\ HostSound(h) /\ Run(h) \in Runs /\ runs[Run(h)] \in RunRecords
           /\ runs[Run(h)] # Null /\ results[Run(h)] = Null /\ RecordSound(Run(h)) /\ ResultSound(Run(h))
           /\ \A c \in costs : ChargeSound(c)
<1>1. /\ ExecutionTypes /\ at[h] \in Hosting /\ HostSound(h) /\ \A r \in Runs : RecordSound(r) /\ ResultSound(r)
      /\ \A c \in costs : ChargeSound(c)
    BY DEF ExecutionInv, ExecutionTypes
<1>2. Run(h) \in Runs /\ runs[Run(h)] # Null /\ results[Run(h)] = Null
    BY <1>1 DEF HostSound, In
<1>3. QED
    BY <1>1, <1>2 DEF ExecutionTypes

LEMMA ReadTerminalStep ==
    ASSUME ExecutionInv, NEW h \in Hosts, ReadTerminal(h)
    PROVE  ExecutionInv'
<1> DEFINE place == IF Known(h).captured = "good" THEN "verify" ELSE "production"
           host == [at[h] EXCEPT !.captured = Known(h).captured, !.place = place]
<1>1. /\ In(h, "terminal") /\ ~In(h, "idle") /\ at' = [at EXCEPT ![h] = host]
      /\ UNCHANGED <<runs, results, books, costs>>
    BY DEF ReadTerminal, In
<1>2. /\ at[h] \in Hosting /\ HostSound(h) /\ Run(h) \in Runs /\ runs[Run(h)] \in RunRecords
      /\ runs[Run(h)] # Null /\ results[Run(h)] = Null
    BY <1>1, Busy
<1>3. /\ host \in Hosting /\ host.run = Run(h) /\ host.place = place /\ host.captured = runs[Run(h)].captured
      /\ host.report = at[h].report /\ host.persisted = at[h].persisted
    BY <1>2 DEF Hosting, Places, RunRecords, Known, Run
<1>4. at[h].report = "not_run" /\ runs[Run(h)].completed
    BY <1>1, <1>2 DEF HostSound, In
<1>5. (place = "verify" => runs[Run(h)].captured = "good") /\ place \in {"verify", "production"}
    BY DEF Known
<1> HIDE DEF host, place
<1>6. ASSUME at'[h] = host, Run(h)' = Run(h) PROVE HostSound(h)'
    BY <1>1, <1>2, <1>3, <1>4, <1>5, <1>6 DEF HostSound
<1>7. QED
    BY <1>1, <1>3, <1>6, GoOnStep

LEMMA VerifyStep ==
    ASSUME ExecutionInv, NEW h \in Hosts, NEW report \in {"passed", "failed"}, Verify(h, report)
    PROVE  ExecutionInv'
<1> DEFINE host == [at[h] EXCEPT !.report = report, !.place = "production"]
<1>1. /\ In(h, "verify") /\ ~In(h, "idle") /\ at' = [at EXCEPT ![h] = host]
      /\ UNCHANGED <<runs, results, books, costs>>
    BY DEF Verify, In
<1>2. /\ at[h] \in Hosting /\ HostSound(h) /\ Run(h) \in Runs /\ runs[Run(h)] # Null /\ results[Run(h)] = Null
    BY <1>1, Busy
<1>3. /\ host \in Hosting /\ host.run = Run(h) /\ host.place = "production" /\ host.captured = at[h].captured
      /\ host.report = report
    BY <1>2 DEF Hosting, Places, Reports, Run
<1>4. runs[Run(h)].completed /\ runs[Run(h)].captured = "good" /\ at[h].captured = runs[Run(h)].captured
    BY <1>1, <1>2 DEF HostSound, In
<1> HIDE DEF host
<1>5. ASSUME at'[h] = host, Run(h)' = Run(h) PROVE HostSound(h)'
    BY <1>1, <1>2, <1>3, <1>4, <1>5 DEF HostSound
<1>6. QED
    BY <1>1, <1>3, <1>5, GoOnStep

\* A charge that failed counts as a failure to persist.
LEMMA ChargeRaisesStep ==
    ASSUME ExecutionInv, NEW h \in Hosts, ChargeRaises(h)
    PROVE  ExecutionInv'
<1> DEFINE host == [at[h] EXCEPT !.place = "event", !.persisted = "failed"]
<1>1. /\ at[h].place \in {"production", "verification"} /\ ~In(h, "idle") /\ at' = [at EXCEPT ![h] = host]
      /\ UNCHANGED <<runs, results, books, costs>>
    BY DEF ChargeRaises, Persisted, In
<1>2. /\ at[h] \in Hosting /\ HostSound(h) /\ Run(h) \in Runs /\ runs[Run(h)] # Null /\ results[Run(h)] = Null
    BY <1>1, Busy
<1>3. /\ host \in Hosting /\ host.run = Run(h) /\ host.place = "event" /\ host.captured = at[h].captured
      /\ host.report = at[h].report /\ host.persisted = "failed"
    BY <1>2 DEF Hosting, Places, Run
<1>4. /\ runs[Run(h)].completed /\ at[h].captured = runs[Run(h)].captured
      /\ at[h].report # "not_run" => runs[Run(h)].captured = "good"
    BY <1>1, <1>2 DEF HostSound, In
<1> HIDE DEF host
<1>5. ASSUME at'[h] = host, Run(h)' = Run(h) PROVE HostSound(h)'
    BY <1>1, <1>2, <1>3, <1>4, <1>5 DEF HostSound
<1>6. QED
    BY <1>1, <1>3, <1>5, GoOnStep

\* invoke raised: what can be read is read.
LEMMA LookUpStep ==
    ASSUME ExecutionInv, NEW h \in Hosts, NEW read \in BOOLEAN, NEW saw \in BOOLEAN, LookUp(h, read, saw)
    PROVE  ExecutionInv'
<1> DEFINE captured == IF saw THEN Known(h).captured ELSE Null
           dispatched == read /\ Known(h).requested
           host == [at[h] EXCEPT !.place = "salvage", !.read = read, !.dispatched = dispatched,
                                 !.captured = captured]
<1>1. /\ In(h, "lookup") /\ ~In(h, "idle") /\ at' = [at EXCEPT ![h] = host]
      /\ UNCHANGED <<runs, results, books, costs>>
    BY DEF LookUp, In
<1>2. /\ at[h] \in Hosting /\ HostSound(h) /\ Run(h) \in Runs /\ runs[Run(h)] \in RunRecords
      /\ runs[Run(h)] # Null /\ results[Run(h)] = Null
    BY <1>1, Busy
<1>3. /\ captured \in Told /\ captured \in {runs[Run(h)].captured, Null} /\ dispatched \in BOOLEAN
      /\ dispatched = (read /\ runs[Run(h)].requested)
    BY <1>2 DEF Known, RunRecords, Told
<1> HIDE DEF captured, dispatched
<1>4. /\ host \in Hosting /\ host.run = Run(h) /\ host.place = "salvage" /\ host.captured = captured
      /\ host.report = at[h].report /\ host.persisted = at[h].persisted /\ host.read = read
      /\ host.dispatched = dispatched
    BY <1>2, <1>3 DEF Hosting, Places, Run
<1>5. at[h].report = "not_run" /\ at[h].persisted = "failed"
    BY <1>1, <1>2 DEF HostSound, In
<1> HIDE DEF host
<1>6. ASSUME at'[h] = host, Run(h)' = Run(h) PROVE HostSound(h)'
    BY <1>1, <1>2, <1>3, <1>4, <1>5, <1>6 DEF HostSound
<1>7. QED
    BY <1>1, <1>4, <1>6, GoOnStep

\* It books a cost and goes on.
LEMMA BookStep ==
    ASSUME ExecutionInv, NEW h \in Hosts, ~In(h, "idle"), NEW host \in Hosting, host.run = Run(h),
           at' = [at EXCEPT ![h] = host], UNCHANGED <<runs, results, books>>, runs[Run(h)].accounted,
           NEW class \in {"production", "verification"}, NEW amount,
           amount = (IF class = "production" THEN runs[Run(h)].cost ELSE 0), Book(Run(h), class, amount),
           (/\ at'[h] = host /\ Run(h)' = Run(h) /\ costs \subseteq costs'
            /\ amount # Null => Row(Run(h), class, amount) \in costs') => HostSound(h)'
    PROVE  ExecutionInv'
<1>1. /\ ExecutionTypes /\ Run(h) \in Runs /\ runs[Run(h)] # Null /\ results[Run(h)] = Null
      /\ RecordSound(Run(h)) /\ \A c \in costs : ChargeSound(c)
    BY Busy
<1>2. /\ costs \subseteq costs' /\ \A c \in costs' \ costs : c.run = Run(h)
      /\ \A c \in costs' : ChargeSound(c)'
      /\ \A c, d \in costs' : c.run = d.run /\ c.class = d.class => c = d
      /\ amount # Null => Row(Run(h), class, amount) \in costs'
    BY <1>1, Booked DEF ExecutionInv
<1>3. at' \in [Hosts -> Hosting] /\ OthersStay(h) /\ at'[h] = host
    BY <1>1, HostBecomes
<1>4. Run(h)' = Run(h)
    BY <1>3 DEF Run
<1>5. ExecutionTypes'
    BY <1>1, <1>3 DEF ExecutionTypes
<1>6. PICK r \in Runs : r = Run(h)
    BY <1>1
<1>7. RecordSound(r)' /\ ResultSound(r)'
    BY <1>1, <1>6 DEF RecordSound, ResultSound
<1>8. HostSound(h)'
    BY <1>2, <1>3, <1>4
<1>9. QED
    BY <1>1, <1>2, <1>3, <1>4, <1>5, <1>6, <1>7, <1>8, HostStep

\* A completed run has its invocation on the books.
LEMMA Completed ==
    ASSUME ExecutionInv, NEW h \in Hosts, at[h].place \in {"production", "verification", "event"}
    PROVE  /\ ~In(h, "idle") /\ runs[Run(h)].completed /\ runs[Run(h)].accounted
           /\ at[h].captured = runs[Run(h)].captured
           /\ at[h].report # "not_run" => runs[Run(h)].captured = "good"
<1>1. ~In(h, "idle")
    BY DEF In
<1>2. HostSound(h) /\ RecordSound(Run(h)) /\ runs[Run(h)] # Null
    BY <1>1, Busy
<1>3. QED
    BY <1>1, <1>2 DEF HostSound, RecordSound

LEMMA ChargeProductionStep ==
    ASSUME ExecutionInv, NEW h \in Hosts, ChargeProduction(h)
    PROVE  ExecutionInv'
<1> DEFINE place == IF at[h].report = "not_run" THEN "event" ELSE "verification"
           host == [at[h] EXCEPT !.place = place]
           r == Run(h)
<1>1. /\ In(h, "production") /\ ~In(h, "idle") /\ at' = [at EXCEPT ![h] = host]
      /\ UNCHANGED <<runs, results, books>> /\ Book(r, "production", runs[r].cost)
    BY DEF ChargeProduction, Go, In, Amount
<1>2. /\ at[h] \in Hosting /\ HostSound(h) /\ Run(h) \in Runs /\ runs[Run(h)] # Null /\ results[Run(h)] = Null
    BY <1>1, Busy
<1>3. /\ runs[r].completed /\ runs[r].accounted /\ at[h].captured = runs[r].captured
      /\ at[h].report # "not_run" => runs[r].captured = "good"
    BY <1>1, Completed DEF In
<1>4. /\ host \in Hosting /\ host.run = Run(h) /\ host.place = place /\ host.captured = at[h].captured
      /\ host.report = at[h].report /\ host.persisted = at[h].persisted
    BY <1>2 DEF Hosting, Places, Run
<1>5. place \in {"event", "verification"} /\ (place = "event" => host.report = "not_run")
    BY <1>4
<1>6. \A q, class, amount : Row(q, class, amount)' = Row(q, class, amount)
    BY <1>1 DEF Row
<1> HIDE DEF host, place
<1>7. ASSUME at'[h] = host, Run(h)' = Run(h), runs[r].cost # Null => Row(r, "production", runs[r].cost) \in costs'
      PROVE  HostSound(h)'
    BY <1>1, <1>2, <1>3, <1>4, <1>5, <1>6, <1>7 DEF HostSound
<1>8. QED
    BY <1>1, <1>3, <1>4, <1>7, BookStep

LEMMA ChargeVerificationStep ==
    ASSUME ExecutionInv, NEW h \in Hosts, ChargeVerification(h)
    PROVE  ExecutionInv'
<1> DEFINE host == [at[h] EXCEPT !.place = "event"]
           r == Run(h)
<1>1. /\ In(h, "verification") /\ ~In(h, "idle") /\ at' = [at EXCEPT ![h] = host]
      /\ UNCHANGED <<runs, results, books>> /\ Book(r, "verification", 0)
    BY DEF ChargeVerification, Go, In
<1>2. /\ at[h] \in Hosting /\ HostSound(h) /\ Run(h) \in Runs /\ runs[Run(h)] # Null /\ results[Run(h)] = Null
    BY <1>1, Busy
<1>3. /\ runs[r].completed /\ runs[r].accounted /\ at[h].captured = runs[r].captured
      /\ at[h].report # "not_run" => runs[r].captured = "good"
    BY <1>1, Completed DEF In
<1>4. /\ host \in Hosting /\ host.run = Run(h) /\ host.place = "event" /\ host.captured = at[h].captured
      /\ host.report = at[h].report /\ host.persisted = at[h].persisted
    BY <1>2 DEF Hosting, Places, Run
<1>5. \A q, class, amount : Row(q, class, amount)' = Row(q, class, amount)
    BY <1>1 DEF Row
<1>6. at[h].persisted = "complete" /\ runs[r].cost # Null => Row(r, "production", runs[r].cost) \in costs
    BY <1>1, <1>2 DEF HostSound, In
<1>7. 0 # Null
    BY PlansAssumption
<1> HIDE DEF host
<1>8. ASSUME at'[h] = host, Run(h)' = Run(h), costs \subseteq costs', Row(r, "verification", 0) \in costs'
      PROVE  HostSound(h)'
    BY <1>1, <1>2, <1>3, <1>4, <1>5, <1>6, <1>8 DEF HostSound
<1>9. QED
    BY <1>1, <1>3, <1>4, <1>7, <1>8, BookStep

LEMMA SalvageStep ==
    ASSUME ExecutionInv, NEW h \in Hosts, NEW booked \in BOOLEAN, Salvage(h, booked)
    PROVE  ExecutionInv'
<1> DEFINE host == [at[h] EXCEPT !.place = "failed"]
           r == Run(h)
<1>1. /\ In(h, "salvage") /\ ~In(h, "idle") /\ at' = [at EXCEPT ![h] = host]
      /\ UNCHANGED <<runs, results, books>>
    BY DEF Salvage, Go, In
<1>2. /\ at[h] \in Hosting /\ HostSound(h) /\ Run(h) \in Runs /\ runs[Run(h)] # Null /\ results[Run(h)] = Null
    BY <1>1, Busy
<1>3. /\ host \in Hosting /\ host.run = Run(h) /\ host.place = "failed" /\ host.captured = at[h].captured
      /\ host.report = at[h].report /\ host.persisted = at[h].persisted
      /\ host.dispatched = at[h].dispatched /\ host.read = at[h].read
    BY <1>2 DEF Hosting, Places, Run
<1>4. /\ at[h].report = "not_run" /\ at[h].persisted = "failed" /\ at[h].captured \in {runs[r].captured, Null}
      /\ at[h].dispatched = (at[h].read /\ runs[r].requested)
    BY <1>1, <1>2 DEF HostSound, In
<1> HIDE DEF host
<1>5. ASSUME at'[h] = host, Run(h)' = Run(h) PROVE HostSound(h)'
    BY <1>1, <1>2, <1>3, <1>4, <1>5 DEF HostSound
<1>6. CASE booked /\ runs[r].accounted
    <2>1. Book(r, "production", runs[r].cost)
        BY <1>6 DEF Salvage, Known, Amount
    <2>2. QED
        BY <1>1, <1>3, <1>5, <1>6, <2>1, BookStep
<1>7. CASE ~(booked /\ runs[r].accounted)
    <2>1. costs' = costs
        BY <1>7 DEF Salvage, Known
    <2>2. QED
        BY <1>1, <1>3, <1>5, <2>1, GoOnStep
<1>8. QED
    BY <1>6, <1>7

\* What a result may say of its run, in the records and rows that are there.
Backed(outcome, record, rows, r) ==
    /\ outcome.persisted = "complete" =>
        /\ record.completed /\ record.closing = "verification_completed"
        /\ record.cost # Null => [plan |-> record.plan, run |-> r, class |-> "production", amount |-> record.cost] \in rows
        /\ outcome.report # "not_run" =>
               [plan |-> record.plan, run |-> r, class |-> "verification", amount |-> 0] \in rows
    /\ outcome.report # "not_run" => record.captured = "good" /\ record.completed
    /\ outcome.captured \in {record.captured, Null}
    /\ outcome.provider = "not_dispatched" /\ outcome.read => ~record.called
    /\ outcome.provider = "unknown_after_dispatch" => outcome.persisted = "failed"

LEMMA BackedIs ==
    \A r \in Runs : ResultSound(r) <=> (results[r] # Null => Backed(results[r], runs[r], costs, r))
BY DEF ResultSound, Backed, Row

\* It returns.
LEMMA ReturnStep ==
    ASSUME ExecutionInv, NEW h \in Hosts, ~In(h, "idle"), NEW record \in RunRecords, NEW outcome \in Outcomes,
           \E closing : record = [runs[Run(h)] EXCEPT !.closing = closing],
           Backed(outcome, record, costs, Run(h)),
           runs' = [runs EXCEPT ![Run(h)] = record], results' = [results EXCEPT ![Run(h)] = outcome],
           at' = [at EXCEPT ![h] = Free], UNCHANGED <<costs, books>>
    PROVE  ExecutionInv'
<1>1. /\ ExecutionTypes /\ Run(h) \in Runs /\ runs[Run(h)] # Null /\ runs[Run(h)] \in RunRecords
      /\ RecordSound(Run(h)) /\ \A c \in costs : ChargeSound(c)
    BY Busy
<1>2. PICK r \in Runs : r = Run(h)
    BY <1>1
<1>3. /\ record.plan = runs[r].plan /\ record.cost = runs[r].cost /\ record.accounted = runs[r].accounted
      /\ record.completed = runs[r].completed /\ record.called = runs[r].called
      /\ record.requested = runs[r].requested /\ record # Null /\ outcome # Null
    BY <1>1, <1>2, RuntimeAssumption DEF RunRecords
<1>4. at' \in [Hosts -> Hosting] /\ OthersStay(h) /\ at'[h] = Free
    BY <1>1, HostBecomes, FreeIs
<1>5. /\ runs' \in [Runs -> RunRecords \cup {Null}] /\ runs'[r] = record
      /\ results' \in [Runs -> Outcomes \cup {Null}] /\ results'[r] = outcome
      /\ \A q \in Runs \ {r} : runs'[q] = runs[q] /\ results'[q] = results[q]
    BY <1>1, <1>2 DEF ExecutionTypes
<1>6. ExecutionTypes'
    BY <1>1, <1>4, <1>5 DEF ExecutionTypes
<1>7. In(h, "idle")' /\ HostSound(h)'
    BY <1>4, FreeIs DEF In, HostSound
<1>8. RecordSound(r)'
    BY <1>1, <1>2, <1>3, <1>5 DEF RecordSound
<1>9. ResultSound(r)'
    <2>1. Backed(results'[r], runs'[r], costs', r)
        BY <1>2, <1>5
    <2>2. QED
        BY <2>1 DEF ResultSound, Backed, Row
<1>10. ASSUME NEW c \in costs, c.run = r PROVE ChargeSound(c)'
    <2>1. \A class, amount : Row(r, class, amount)' = Row(r, class, amount)
        BY <1>3, <1>5 DEF Row
    <2>2. ChargeSound(c)
        BY <1>1
    <2>3. QED
        BY <1>3, <1>5, <1>10, <2>1, <2>2 DEF ChargeSound
<1>11. \A c, d \in costs : c.run = r /\ d.run = r /\ c.class = d.class => c = d
    BY DEF ExecutionInv, OneOfEach
<1>12. QED
    BY <1>2, <1>3, <1>4, <1>5, <1>6, <1>7, <1>8, <1>9, <1>10, <1>11, HostStep

\* The closing event, or none.
LEMMA Closes ==
    ASSUME ExecutionTypes, NEW r \in Runs, runs[r] \in RunRecords,
           NEW ok \in BOOLEAN, NEW closing \in {"verification_completed", "persistence_failed"},
           runs' = (IF ok THEN [runs EXCEPT ![r].closing = closing] ELSE runs)
    PROVE  \E record \in RunRecords :
               /\ runs' = [runs EXCEPT ![r] = record]
               /\ \E some : record = [runs[r] EXCEPT !.closing = some]
               /\ ok => record.closing = closing
               /\ /\ record.plan = runs[r].plan /\ record.cost = runs[r].cost
                  /\ record.completed = runs[r].completed /\ record.called = runs[r].called
                  /\ record.requested = runs[r].requested /\ record.captured = runs[r].captured
<1> DEFINE record == IF ok THEN [runs[r] EXCEPT !.closing = closing] ELSE runs[r]
<1>1. record \in RunRecords /\ (ok => record.closing = closing)
    BY DEF RunRecords
<1>2. /\ record.plan = runs[r].plan /\ record.cost = runs[r].cost
      /\ record.completed = runs[r].completed /\ record.called = runs[r].called
      /\ record.requested = runs[r].requested /\ record.captured = runs[r].captured
    BY DEF RunRecords
<1>3. \E some : record = [runs[r] EXCEPT !.closing = some]
    <2>1. CASE ok
        BY <2>1
    <2>2. CASE ~ok
        <3>1. runs[r] = [runs[r] EXCEPT !.closing = runs[r].closing]
            BY DEF RunRecords
        <3>2. QED
            BY <2>2, <3>1
    <2>3. QED
        BY <2>1, <2>2
<1>4. runs' = [runs EXCEPT ![r] = record]
    BY DEF ExecutionTypes
<1> HIDE DEF record
<1>5. QED
    BY <1>1, <1>2, <1>3, <1>4

LEMMA WriteEventStep ==
    ASSUME ExecutionInv, NEW h \in Hosts, NEW ok \in BOOLEAN, WriteEvent(h, ok)
    PROVE  ExecutionInv'
<1> DEFINE persisted == Persisted(at[h].persisted, ok)
           outcome == [provider |-> "reported", captured |-> at[h].captured, report |-> at[h].report,
                       persisted |-> persisted, read |-> at[h].read]
<1>1. /\ In(h, "event") /\ ~In(h, "idle") /\ at' = [at EXCEPT ![h] = Free]
      /\ results' = [results EXCEPT ![Run(h)] = outcome] /\ UNCHANGED <<costs, books>>
    BY DEF WriteEvent, Return, In
<1>2. /\ ExecutionTypes /\ at[h] \in Hosting /\ HostSound(h) /\ Run(h) \in Runs /\ runs[Run(h)] # Null
      /\ results[Run(h)] = Null /\ runs[Run(h)] \in RunRecords
    BY <1>1, Busy
<1>3. /\ runs[Run(h)].completed /\ at[h].captured = runs[Run(h)].captured
      /\ at[h].report # "not_run" => runs[Run(h)].captured = "good"
    BY <1>1, Completed DEF In
<1>4. at[h].persisted = "complete" =>
          /\ runs[Run(h)].cost # Null => Row(Run(h), "production", runs[Run(h)].cost) \in costs
          /\ at[h].report # "not_run" => Row(Run(h), "verification", 0) \in costs
    BY <1>1, <1>2 DEF HostSound, In
<1>5. persisted \in {"complete", "failed"} /\ (persisted = "complete" => ok /\ at[h].persisted = "complete")
    BY <1>2 DEF Persisted, Hosting
<1> HIDE DEF persisted
<1>6. outcome \in Outcomes
    BY <1>2, <1>5 DEF Outcomes, Hosting, Reports
<1>7. /\ outcome.provider = "reported" /\ outcome.captured = at[h].captured /\ outcome.report = at[h].report
      /\ outcome.persisted = persisted
    OBVIOUS
<1> HIDE DEF outcome
<1>8. PICK record \in RunRecords :
           /\ runs' = [runs EXCEPT ![Run(h)] = record]
           /\ \E some : record = [runs[Run(h)] EXCEPT !.closing = some]
           /\ ok => record.closing = "verification_completed"
           /\ record.plan = runs[Run(h)].plan /\ record.cost = runs[Run(h)].cost
           /\ record.completed = runs[Run(h)].completed /\ record.captured = runs[Run(h)].captured
    BY <1>2, Closes DEF WriteEvent
<1>9. Backed(outcome, record, costs, Run(h))
    BY <1>3, <1>4, <1>5, <1>7, <1>8 DEF Backed, Row
<1>10. QED
    BY <1>1, <1>6, <1>8, <1>9, ReturnStep

LEMMA ReportFailureStep ==
    ASSUME ExecutionInv, NEW h \in Hosts, NEW ok \in BOOLEAN, ReportFailure(h, ok)
    PROVE  ExecutionInv'
<1> DEFINE provider == IF at[h].dispatched THEN "unknown_after_dispatch" ELSE "not_dispatched"
           outcome == [provider |-> provider, captured |-> at[h].captured, report |-> at[h].report,
                       persisted |-> at[h].persisted, read |-> at[h].read]
           told == ok /\ at[h].dispatched
<1>1. /\ In(h, "failed") /\ ~In(h, "idle") /\ at' = [at EXCEPT ![h] = Free]
      /\ results' = [results EXCEPT ![Run(h)] = outcome] /\ UNCHANGED <<costs, books>>
    BY DEF ReportFailure, Return, In
<1>2. /\ ExecutionTypes /\ at[h] \in Hosting /\ HostSound(h) /\ Run(h) \in Runs /\ runs[Run(h)] # Null
      /\ results[Run(h)] = Null /\ runs[Run(h)] \in RunRecords /\ RecordSound(Run(h))
    BY <1>1, Busy
<1>3. /\ at[h].report = "not_run" /\ at[h].persisted = "failed" /\ at[h].captured \in {runs[Run(h)].captured, Null}
      /\ at[h].dispatched = (at[h].read /\ runs[Run(h)].requested)
    BY <1>1, <1>2 DEF HostSound, In
<1>4. /\ provider \in {"unknown_after_dispatch", "not_dispatched"}
      /\ provider = "not_dispatched" => ~at[h].dispatched
    OBVIOUS
<1>5. told \in BOOLEAN
    BY <1>2 DEF Hosting
<1>6. runs' = IF told THEN [runs EXCEPT ![Run(h)].closing = "persistence_failed"] ELSE runs
    BY DEF ReportFailure
<1> HIDE DEF provider, told
<1>7. outcome \in Outcomes
    BY <1>2, <1>4 DEF Outcomes, Hosting, Reports
<1>8. /\ outcome.provider = provider /\ outcome.captured = at[h].captured /\ outcome.report = "not_run"
      /\ outcome.persisted = "failed" /\ outcome.read = at[h].read
    BY <1>3
<1> HIDE DEF outcome
<1>9. PICK record \in RunRecords :
           /\ runs' = [runs EXCEPT ![Run(h)] = record]
           /\ \E some : record = [runs[Run(h)] EXCEPT !.closing = some]
           /\ record.captured = runs[Run(h)].captured /\ record.called = runs[Run(h)].called
    BY <1>2, <1>5, <1>6, Closes
<1>10. provider = "not_dispatched" /\ at[h].read => ~runs[Run(h)].called
    BY <1>2, <1>3, <1>4 DEF RecordSound
<1>11. Backed(outcome, record, costs, Run(h))
    BY <1>3, <1>8, <1>9, <1>10 DEF Backed
<1>12. QED
    BY <1>1, <1>7, <1>9, <1>11, ReturnStep

LEMMA ExecutionStep ==
    ASSUME PlanInv, NEW h \in Hosts,
           \/ \E r \in Runs, p \in plans, i \in Refs : Begin(h, r, p, i)
           \/ InvokeRefused(h) \/ InvokeRaises(h)
           \/ \E seen \in Observed : InvokeReturns(h, seen)
           \/ ReadTerminal(h) \/ ReadTerminalRaises(h)
           \/ \E report \in {"passed", "failed"} : Verify(h, report)
           \/ ChargeProduction(h) \/ ChargeVerification(h) \/ ChargeRaises(h)
           \/ \E ok \in BOOLEAN : WriteEvent(h, ok) \/ Salvage(h, ok) \/ ReportFailure(h, ok)
           \/ \E read, saw \in BOOLEAN : LookUp(h, read, saw)
           \/ Crash(h)
    PROVE  ExecutionInv' /\ plans' = plans
<1>1. ExecutionInv /\ \A p \in plans : p \in Plans
    BY DEF PlanInv, PlanSound
<1>2. ASSUME NEW r \in Runs, NEW p \in plans, NEW i \in Refs, Begin(h, r, p, i)
      PROVE  ExecutionInv' /\ plans' = plans
    BY <1>1, <1>2, BeginStep DEF Begin
<1>3. CASE InvokeRefused(h) \/ ReadTerminalRaises(h) \/ Crash(h)
    <2>1. ~In(h, "idle") /\ at' = [at EXCEPT ![h] = Free] /\ UNCHANGED <<plans, runs, results, books, costs>>
        BY <1>3 DEF InvokeRefused, ReadTerminalRaises, Crash, In
    <2>2. QED
        BY <1>1, <2>1, LeaveStep
<1>4. CASE InvokeRaises(h) \/ \E seen \in Observed : InvokeReturns(h, seen)
    BY <1>1, <1>4, InvokeStep DEF InvokeRaises, InvokeReturns
<1>5. CASE ReadTerminal(h)
    BY <1>1, <1>5, ReadTerminalStep DEF ReadTerminal
<1>6. ASSUME NEW report \in {"passed", "failed"}, Verify(h, report)
      PROVE  ExecutionInv' /\ plans' = plans
    BY <1>1, <1>6, VerifyStep DEF Verify
<1>7. CASE ChargeProduction(h) \/ ChargeVerification(h) \/ ChargeRaises(h)
    BY <1>1, <1>7, ChargeProductionStep, ChargeVerificationStep, ChargeRaisesStep
    DEF ChargeProduction, ChargeVerification, ChargeRaises
<1>8. ASSUME NEW ok \in BOOLEAN, WriteEvent(h, ok) \/ Salvage(h, ok) \/ ReportFailure(h, ok)
      PROVE  ExecutionInv' /\ plans' = plans
    BY <1>1, <1>8, WriteEventStep, SalvageStep, ReportFailureStep DEF WriteEvent, Salvage, ReportFailure
<1>9. ASSUME NEW read \in BOOLEAN, NEW saw \in BOOLEAN, LookUp(h, read, saw)
      PROVE  ExecutionInv' /\ plans' = plans
    BY <1>1, <1>9, LookUpStep DEF LookUp
<1>10. QED
    BY <1>2, <1>3, <1>4, <1>5, <1>6, <1>7, <1>8, <1>9

\* Evidence names an invocation that is on the books.
LEMMA PostStep ==
    ASSUME ExecutionInv, NEW e \in Evidence, NEW amount \in Amounts, Post(e, amount)
    PROVE  ExecutionInv'
<1>1. /\ books \in [Evidence -> Amounts \cup {Null}] /\ books' = [books EXCEPT ![e] = amount]
      /\ UNCHANGED <<runs, results, costs, at>> /\ Bookable(e) /\ \A d \in Evidence : BookSound(d)
    BY DEF ExecutionInv, ExecutionTypes, Post
<1>2. books' \in [Evidence -> Amounts \cup {Null}] /\ \A d \in Evidence \ {e} : books'[d] = books[d]
    BY <1>1
<1>3. ASSUME NEW d \in Evidence PROVE BookSound(d)'
    BY <1>1, <1>2 DEF BookSound, Bookable
<1>4. QED
    BY <1>1, <1>2, <1>3, OutsideExecution

LEMMA PlanInvInit == PlanRuntimeInit => PlanInv
<1> SUFFICES ASSUME PlanRuntimeInit PROVE PlanInv
    OBVIOUS
<1>1. /\ plans = {} /\ costs = {} /\ runs = [r \in Runs |-> Null] /\ results = [r \in Runs |-> Null]
      /\ at = [h \in Hosts |-> Free] /\ books = [e \in Evidence |-> Null]
    BY DEF PlanRuntimeInit, PlansInit
<1>2. ExecutionTypes
    BY <1>1, FreeIs DEF ExecutionTypes
<1>3. \A h \in Hosts : In(h, "idle")
    BY <1>1, FreeIs DEF In
<1>4. OneHost /\ \A h \in Hosts : HostSound(h)
    BY <1>3 DEF OneHost, HostSound, In
<1>5. \A r \in Runs : RecordSound(r) /\ ResultSound(r) /\ (results[r] # Null => runs[r] # Null)
    BY <1>1 DEF RecordSound, ResultSound
<1>6. OneOfEach /\ (\A c \in costs : ChargeSound(c)) /\ \A e \in Evidence : BookSound(e)
    BY <1>1 DEF OneOfEach, BookSound
<1>7. QED
    BY <1>1, <1>2, <1>4, <1>5, <1>6 DEF PlanInv, ExecutionInv

LEMMA PlanInvNext == PlanInv /\ [PlanRuntimeNext]_planVars => PlanInv'
<1> SUFFICES ASSUME PlanInv, [PlanRuntimeNext]_planVars PROVE PlanInv'
    OBVIOUS
<1>1. (\A p \in plans : PlanSound(p)) /\ ExecutionInv /\ books \in [Evidence -> Amounts \cup {Null}]
      /\ \A e \in Evidence : BookSound(e)
    BY DEF PlanInv, ExecutionInv, ExecutionTypes
<1>2. ASSUME plans' = plans, ExecutionInv' PROVE PlanInv'
    <2>1. \A p \in plans : PlanSound(p)' = PlanSound(p)
        BY DEF PlanSound, Failed
    <2>2. QED
        BY <1>1, <1>2, <2>1 DEF PlanInv
<1>3. ASSUME UNCHANGED <<runs, results, costs, at, books>> PROVE ExecutionInv'
    <2>1. \A e \in Evidence : BookSound(e)'
        BY <1>1, <1>3 DEF BookSound
    <2>2. QED
        BY <1>1, <1>3, <2>1, OutsideExecution
<1>4. CASE PlansNext /\ UNCHANGED <<refs, runs, costs, account, books, at, results, faults>>
    <2>1. \A p \in plans' : PlanSound(p)
        BY <1>1, <1>4, PlanStep, ReviseStep, PromoteStep DEF PlansNext
    <2>2. \A p \in plans' : PlanSound(p)'
        BY <2>1 DEF PlanSound, Failed
    <2>3. QED
        BY <1>3, <1>4, <2>2 DEF PlanInv
<1>5. ASSUME NEW i \in Refs, (\E p \in plans \cup {Null} : Authorize(i, p)) \/ Revoke(i) PROVE PlanInv'
    BY <1>2, <1>3, <1>5 DEF Authorize, Revoke
<1>6. ASSUME NEW h \in Hosts,
             \/ \E r \in Runs, p \in plans, i \in Refs : Begin(h, r, p, i)
             \/ InvokeRefused(h) \/ InvokeRaises(h)
             \/ \E seen \in Observed : InvokeReturns(h, seen)
             \/ ReadTerminal(h) \/ ReadTerminalRaises(h)
             \/ \E report \in {"passed", "failed"} : Verify(h, report)
             \/ ChargeProduction(h) \/ ChargeVerification(h) \/ ChargeRaises(h)
             \/ \E ok \in BOOLEAN : WriteEvent(h, ok) \/ Salvage(h, ok) \/ ReportFailure(h, ok)
             \/ \E read, saw \in BOOLEAN : LookUp(h, read, saw)
             \/ Crash(h)
      PROVE  PlanInv'
    BY <1>2, <1>6, ExecutionStep
<1>7. CASE OpenAccount
    BY <1>2, <1>3, <1>7 DEF OpenAccount
<1>8. ASSUME NEW e \in Evidence, NEW amount \in Amounts, Post(e, amount) PROVE PlanInv'
    BY <1>1, <1>2, <1>8, PostStep DEF Post
<1>9. CASE UNCHANGED planVars
    BY <1>2, <1>3, <1>9 DEF planVars
<1>10. QED
    BY <1>4, <1>5, <1>6, <1>7, <1>8, <1>9 DEF PlanRuntimeNext

(***************************************************************************)
(* What the plans' runs check.                                             *)
(***************************************************************************)

\* However planning, revisions, calls of execute, failed stores, crashes and evidence from
\* outside interleave, the inductive invariant of plans and their execution holds
\* (planner.py, coordination.py, plan_runtime.py).
THEOREM PlansSound == PlanRuntimeSpec => []PlanInv
BY PlanInvInit, PlanInvNext, PTL DEF PlanRuntimeSpec

\* No fallback returns to a route that failed, each binds a route that passed every gate
\* when the task was planned, and there are no more revisions than routes, whatever the
\* planning states say (revise_for_failure).
THEOREM FallbacksAdvance == PlanRuntimeSpec => []FallbackAdvances
<1>1. PlanInv => FallbackAdvances
    BY SoundPlansAdvance DEF PlanInv
<1>2. QED
    BY <1>1, PlansSound, PTL

\* What a plan is charged is what its own runs cost, once for each class, whichever call
\* failed (_record_plan_costs).
THEOREM ChargesMatch == PlanRuntimeSpec => []ChargesMatchRuns
<1>1. PlanInv => ChargesMatchRuns
    <2>1. SUFFICES ASSUME PlanInv PROVE ChargesMatchRuns
        OBVIOUS
    <2>2. OneOfEach /\ (\A c \in costs : ChargeSound(c)) /\ \A e \in Evidence : BookSound(e)
        BY <2>1 DEF PlanInv, ExecutionInv
    <2>3. ASSUME NEW c \in costs
          PROVE  /\ runs[c.run].accounted /\ c.plan = runs[c.run].plan
                 /\ c.amount = IF c.class = "production" THEN runs[c.run].cost ELSE 0
        BY <2>2 DEF ChargeSound, Row
    <2>4. QED
        BY <2>2, <2>3 DEF ChargesMatchRuns, OneOfEach, BookSound
<1>2. QED
    BY <1>1, PlansSound, PTL

\* A PlanExecutionResult claims no more than the stores hold, whichever call failed before
\* it (execute, _persistence_failure_result).
THEOREM ResultsAreBacked == PlanRuntimeSpec => []ResultIsBacked
<1>1. PlanInv => ResultIsBacked
    BY DEF PlanInv, ExecutionInv, ResultSound, ResultIsBacked
<1>2. QED
    BY <1>1, PlansSound, PTL
=============================================================================
