------------------------------ MODULE Observatory ------------------------------
(***************************************************************************)
(* The model observatory (src/macr_runtime/observatory_db.py and what      *)
(* writes to and reads from it): catalog snapshots, the models and routes  *)
(* seen in them, evidence, qualification decisions, model passports.       *)
(*                                                                         *)
(* Every row is append-only and its id is the digest of its content: a     *)
(* record stands for its row.  An append is one transaction, but ingest,   *)
(* evaluate and build are several of them, a file and reads on             *)
(* connections of their own; other processes come in between, and a        *)
(* process may die.                                                        *)
(***************************************************************************)
EXTENDS Integers, FiniteSets

CONSTANTS
    Jobs,         \* processes of the command line, or callers of the library
    Does,         \* bound: what each of them may do
    Subjects, Routes, SubjectOf,
    Snapshots,    \* captured catalogs: [at, status, routes]
    Keys,         \* qualification keys: [route, subject]
    Probes,       \* what a probe registry may say of a key: bound, changed or missing
    Items,        \* evidence: [key, kind, trial, at, verdict, subject]
    Manifests,    \* reviewed bundles: sets of [item, role, disposition, authorized]
    Invalidations,\* [key, reason, at]
    Times,        \* moments a decision or a passport may be asked for
    MinTrials, MinPercent, MaxAge,  \* QualificationPolicy
    MaxDecisions, MaxPassports,     \* bounds: evaluations and builds
    None

\* what the payload of an item says, read as an outcome: the ways in which it does not
\* count apart
Verdicts == {"success", "failure", "conflicting", "outdated", "unlinked"}

ASSUME ObservatoryAssumption ==
    /\ SubjectOf \in [Routes -> Subjects] /\ Keys \subseteq [route : Routes, subject : Subjects]
    /\ \A n \in Snapshots : n.routes \subseteq Routes /\ [status |-> n.status, first |-> n] # None
    /\ \A i \in Items : i.verdict \in Verdicts
    /\ \A m \in Manifests : IsFiniteSet(m) /\ \A entry \in m : entry.item.verdict \in Verdicts
    /\ Probes \subseteq {"bound", "changed", "missing"}
    /\ None \notin {"untested", "stale", "shadow_only"}
    /\ MinTrials \in Nat \ {0} /\ MinPercent \in 0..100 /\ MaxAge \in Nat
    /\ MaxDecisions \in Nat /\ MaxPassports \in Nat

VARIABLES
    files,        \* the private snapshot files
    snapshots, subjects, routes, observations,
    evidence, invalidated, decisions,
    job,          \* what each process is doing
    cache,        \* ModelPassportProjector._cache
    shown         \* history: the passports that were returned

catalog == <<files, snapshots, subjects, routes, observations>>
records == <<evidence, invalidated, decisions>>
vars == <<catalog, records, job, cache, shown>>

Idle == [does |-> "nothing"]
Becomes(j, state) == job' = [job EXCEPT ![j] = state]

Init ==
    /\ files = {} /\ snapshots = {} /\ routes = {} /\ observations = {}
    /\ subjects = [s \in Subjects |-> None]
    /\ evidence = {} /\ invalidated = {} /\ decisions = {}
    /\ job = [j \in Jobs |-> Idle]
    /\ cache = {} /\ shown = {}

----------------------------------------------------------------------------
(* Ingestion: the bytes, their row, and what was read from them.           *)

\* (Definitions with a suffix are mutants: bugs the runs show the properties to catch.)
Fetched_RowFirst(j, n) ==
    /\ snapshots' = snapshots \cup {n} /\ UNCHANGED files
    /\ Becomes(j, [does |-> "ingest", of |-> n, next |-> "file"])
\* _write_once: a file that is there is compared, and kept.
Fetched(j, n) ==
    /\ files' = files \cup {n} /\ UNCHANGED snapshots
    /\ Becomes(j, [does |-> "ingest", of |-> n, next |-> "row"])
Capture(j, n) ==
    /\ job[j] = Idle /\ "ingest" \in Does[j]
    /\ Fetched(j, n)
    /\ UNCHANGED <<subjects, routes, observations, records, cache, shown>>

Register(j) ==
    /\ job[j].does = "ingest" /\ job[j].next \in {"row", "file"}
    /\ snapshots' = snapshots \cup {job[j].of}
    /\ files' = files \cup {job[j].of}
    /\ Becomes(j, [job[j] EXCEPT !.next = "batch"])
    /\ UNCHANGED <<subjects, routes, observations, records, cache, shown>>

Named(n) == {SubjectOf[r] : r \in n.routes}
\* The id of a subject leaves its identity status out, its content does not.
Agrees(n) == \A s \in Named(n) : subjects[s] # None => subjects[s].status = n.status

\* append_discovery_batch: all of it or, when a subject conflicts, nothing.
Discover(j) ==
    /\ job[j].does = "ingest" /\ job[j].next = "batch"
    /\ Becomes(j, Idle)
    /\ IF Agrees(job[j].of)
       THEN LET n == job[j].of IN
            /\ subjects' = [s \in Subjects |->
                    IF s \in Named(n) /\ subjects[s] = None
                    THEN [status |-> n.status, first |-> n] ELSE subjects[s]]
            /\ routes' = routes \cup n.routes
            /\ observations' = observations \cup {[route |-> r, of |-> n] : r \in n.routes}
       ELSE UNCHANGED <<subjects, routes, observations>>
    /\ UNCHANGED <<files, snapshots, records, cache, shown>>

----------------------------------------------------------------------------
(* Evidence.                                                               *)

\* append_evidence; repeating it changes nothing.
RecordEvidence(i) ==
    /\ i.kind = "probe_result"
    /\ evidence' = evidence \cup {i}
    /\ UNCHANGED <<catalog, invalidated, decisions, job, cache, shown>>

\* _inspect_bundle: no role and no key twice, or nothing of the bundle is taken.
Inspected(m) ==
    \A e, f \in m : e # f => e.role # f.role /\ e.item.key # f.item.key
Importable(entry) == entry.disposition = "bounded_evidence" /\ entry.authorized

\* import_manifest: the importable entries in one transaction.
ImportManifest(m) ==
    /\ Inspected(m)
    /\ evidence' = evidence \cup {entry.item : entry \in {e \in m : Importable(e)}}
    /\ UNCHANGED <<catalog, invalidated, decisions, job, cache, shown>>

Invalidate(v) ==
    /\ invalidated' = invalidated \cup {v}
    /\ UNCHANGED <<catalog, evidence, decisions, job, cache, shown>>

----------------------------------------------------------------------------
(* Qualification.                                                          *)

\* The last cause that applies in QualificationEngine.evaluate; the probe is what
\* the registry of the evaluating process says of the key.
Forced(k, probe) ==
    IF k.route \notin routes THEN "untested"
    ELSE IF SubjectOf[k.route] # k.subject THEN "stale"
    ELSE IF subjects[k.subject] = None THEN "untested"
    ELSE IF subjects[k.subject].status = "unresolved" THEN "shadow_only"
    ELSE CASE probe = "changed" -> "stale" [] probe = "missing" -> "untested" [] OTHER -> None

Visible(set, k, t) == {x \in set : x.key = k /\ x.at <= t}

StartEvaluation(j, k, t, probe) ==
    /\ job[j] = Idle /\ "evaluate" \in Does[j] /\ Cardinality(decisions) < MaxDecisions
    /\ Becomes(j, [does |-> "evaluate", next |-> "evidence", key |-> k, at |-> t,
                   forced |-> Forced(k, probe),
                   unresolved |-> subjects[k.subject] # None
                                  /\ subjects[k.subject].status = "unresolved",
                   rests |-> {}, voided |-> {}, known |-> Visible(invalidated, k, t)])
    /\ UNCHANGED <<catalog, records, cache, shown>>

Counts_AnyKind(i) == TRUE
Counts(i) == i.kind = "probe_result"
ReadEvidence(j) ==
    /\ job[j].does = "evaluate" /\ job[j].next = "evidence"
    /\ Becomes(j, [job[j] EXCEPT !.next = "invalidations",
                   !.rests = {i \in Visible(evidence, job[j].key, job[j].at) : Counts(i)}])
    /\ UNCHANGED <<catalog, records, cache, shown>>

ReadInvalidations(j) ==
    /\ job[j].does = "evaluate" /\ job[j].next = "invalidations"
    /\ Becomes(j, [job[j] EXCEPT !.next = "decide",
                   !.voided = Visible(invalidated, job[j].key, job[j].at)])
    /\ UNCHANGED <<catalog, records, cache, shown>>

Successes(rests) == Cardinality({i \in rests : i.verdict = "success"})
\* wilson_lower_bound at z = 1.96 is no less than MinPercent: the square of the
\* distance from the bound, compared with its variance, in integers.
ConfidentlyAbove(s, n) ==
    LET distance == 100 * s - MinPercent * n IN
    /\ n > 0 /\ distance >= 0
    /\ 10000 * distance * distance >= 38416 * MinPercent * (100 - MinPercent) * n

Repeats(rests) == \E i, o \in rests : i # o /\ i.trial = o.trial
Some(rests, verdict) == \E i \in rests : i.verdict = verdict
Youngest(rests) == CHOOSE t \in {i.at : i \in rests} : \A i \in rests : i.at <= t

\* The state the evidence alone supports.
Supported(rests, k, unresolved) ==
    IF rests = {} THEN "untested"
    ELSE IF Repeats(rests) \/ Some(rests, "conflicting") THEN "rejected"
    ELSE IF Some(rests, "outdated") THEN "stale"
    ELSE IF \/ Some(rests, "unlinked") \/ unresolved
            \/ \E i \in rests : i.subject # k.subject
            \/ Cardinality(rests) < MinTrials
            \/ ~ConfidentlyAbove(Successes(rests), Cardinality(rests)) THEN "shadow_only"
    ELSE "qualified"

Aged(state, rests, t) ==
    IF rests # {} /\ t - Youngest(rests) > MaxAge /\ state # "rejected" THEN "stale" ELSE state

Voided_WhenQualified(state, voided) ==
    IF voided # {} /\ state = "qualified" THEN "stale" ELSE state
Voided(state, voided) ==
    IF \E v \in voided : v.reason = "revoked" THEN "revoked"
    ELSE IF \E v \in voided : v.reason = "suspended" THEN "suspended"
    ELSE IF voided # {} /\ state # "rejected" THEN "stale" ELSE state

Verdict(d) ==
    LET state == Voided(Aged(Supported(d.rests, d.key, d.unresolved), d.rests, d.at), d.voided) IN
    IF d.forced # None /\ state \notin {"rejected", "revoked", "suspended"} THEN d.forced ELSE state

\* append_qualification_decision; `known' is history.
Decide(j) ==
    LET d == job[j] IN
    /\ d.does = "evaluate" /\ d.next = "decide"
    /\ decisions' = decisions \cup
           {[key |-> d.key, state |-> Verdict(d), at |-> d.at, rests |-> d.rests,
             voided |-> d.voided, known |-> d.known]}
    /\ Becomes(j, Idle)
    /\ UNCHANGED <<catalog, evidence, invalidated, cache, shown>>

----------------------------------------------------------------------------
(* Passports.                                                              *)

SeenBy(s, t) == {o \in observations : SubjectOf[o.route] = s /\ o.of.at <= t}
EvidenceOn(s, t) == {i \in evidence : i.subject = s /\ i.at <= t}
\* Decisions and invalidations are found by the keys of the evidence.
OfKeys(set, items, t) == {x \in set : x.at <= t /\ \E i \in items : i.key = x.key}

View(s, t) ==
    [observations |-> SeenBy(s, t), evidence |-> EvidenceOn(s, t),
     decisions |-> OfKeys(decisions, EvidenceOn(s, t), t),
     invalidations |-> OfKeys(invalidated, EvidenceOn(s, t), t)]

IsFor_AnyMoment(p, s, t) == p.subject = s
IsFor(p, s, t) == p.subject = s /\ p.at = t
Asked(p, t) == [asked |-> t, passport |-> p]

\* A passport in the cache is returned without a look at the store.
ShowCached(s, t) ==
    /\ \E p \in cache : IsFor(p, s, t) /\ shown' = shown \cup {Asked(p, t)}
    /\ UNCHANGED <<catalog, records, job, cache>>

StartPassport(j, s, t) ==
    /\ job[j] = Idle /\ "build" \in Does[j] /\ Cardinality(shown) < MaxPassports
    /\ ~\E p \in cache : IsFor(p, s, t)
    /\ subjects[s] # None /\ subjects[s].first \in snapshots
    /\ t >= subjects[s].first.at
    /\ Becomes(j, [does |-> "build", next |-> "evidence", subject |-> s, at |-> t,
                   view |-> [View(s, t) EXCEPT !.evidence = {}, !.decisions = {},
                                               !.invalidations = {}],
                   since |-> View(s, t)])
    /\ UNCHANGED <<catalog, records, cache, shown>>

GatherEvidence(j) ==
    /\ job[j].does = "build" /\ job[j].next = "evidence"
    /\ Becomes(j, [job[j] EXCEPT !.next = "decisions",
                   !.view.evidence = EvidenceOn(job[j].subject, job[j].at)])
    /\ UNCHANGED <<catalog, records, cache, shown>>

GatherDecisions(j) ==
    /\ job[j].does = "build" /\ job[j].next = "decisions"
    /\ Becomes(j, [job[j] EXCEPT !.next = "invalidations",
                   !.view.decisions = OfKeys(decisions, job[j].view.evidence, job[j].at)])
    /\ UNCHANGED <<catalog, records, cache, shown>>

IssuePassport(j) ==
    /\ job[j].does = "build" /\ job[j].next = "invalidations"
    /\ LET b == job[j]
           p == [subject |-> b.subject, at |-> b.at, since |-> b.since,
                 view |-> [b.view EXCEPT !.invalidations =
                              OfKeys(invalidated, b.view.evidence, b.at)]] IN
       /\ cache' = {q \in cache : ~IsFor(q, b.subject, b.at)} \cup {p}
       /\ shown' = shown \cup {Asked(p, b.at)}
    /\ Becomes(j, Idle)
    /\ UNCHANGED <<catalog, records>>

ClearCache(s) ==
    /\ cache' = {p \in cache : p.subject # s}
    /\ UNCHANGED <<catalog, records, job, shown>>

\* A process dies; one that only reads leaves nothing behind.
Die(j) ==
    /\ job[j].does = "ingest"
    /\ Becomes(j, Idle)
    /\ UNCHANGED <<catalog, records, cache, shown>>

Next ==
    \/ \E j \in Jobs :
        \/ \E n \in Snapshots : Capture(j, n)
        \/ Register(j) \/ Discover(j)
        \/ \E k \in Keys, t \in Times, probe \in Probes :
               StartEvaluation(j, k, t, probe)
        \/ ReadEvidence(j) \/ ReadInvalidations(j) \/ Decide(j)
        \/ \E s \in Subjects, t \in Times : StartPassport(j, s, t)
        \/ GatherEvidence(j) \/ GatherDecisions(j) \/ IssuePassport(j)
        \/ Die(j)
    \/ \E i \in Items : RecordEvidence(i)
    \/ \E m \in Manifests : ImportManifest(m)
    \/ \E v \in Invalidations : Invalidate(v)
    \/ \E s \in Subjects, t \in Times : ShowCached(s, t)
    \/ \E s \in Subjects : ClearCache(s)

Spec == Init /\ [][Next]_vars

----------------------------------------------------------------------------
(* Properties.                                                             *)

\* Whatever is known of a model can be traced to catalogs whose bytes are on disk,
\* after any crash (ModelObservatory.ingest, append_snapshot).
CapturedFirst ==
    /\ snapshots \subseteq files
    /\ \A s \in Subjects : subjects[s] # None => subjects[s].first \in snapshots
    /\ \A o \in observations : o.of \in snapshots /\ o.route \in routes
    /\ \A r \in routes : subjects[SubjectOf[r]] # None

\* A qualified decision rests on recorded probe results of its own key, each of a
\* trial of its own, none of them in doubt, enough of them successes; reviewed
\* bundles from outside never count (evaluate, import_manifest).
QualifiedIsEarned ==
    \A d \in decisions : d.state = "qualified" =>
        /\ d.rests \subseteq evidence
        /\ Cardinality({i.trial : i \in d.rests}) = Cardinality(d.rests)
        /\ \A i \in d.rests : /\ i.key = d.key /\ i.kind = "probe_result"
                              /\ i.verdict \in {"success", "failure"}
        /\ ConfidentlyAbove(Successes(d.rests), Cardinality(d.rests))
        /\ subjects[d.key.subject] # None /\ d.key.route \in routes

\* An evaluation that began after an invalidation was recorded takes it into
\* account: a revoked key is decided revoked, and no invalidated key qualifies or
\* stays on trial, whatever evidence arrives meanwhile (evaluate).
InvalidationHolds ==
    \A d \in decisions :
        /\ d.known \subseteq d.voided
        /\ (\E v \in d.known : v.reason = "revoked") => d.state = "revoked"
        /\ (d.known # {} /\ SubjectOf[d.key.route] = d.key.subject) =>
              d.state \in {"revoked", "suspended", "stale", "rejected", "untested", "shadow_only"}
        /\ (d.known # {} /\ d.state = "shadow_only") =>
              subjects[d.key.subject].status = "unresolved"

\* A passport, cached or not, shows for the moment it was asked for everything the
\* store held when its building began, and nothing the store does not hold: what is
\* appended later may be missing from it, never more (ModelPassportProjector.build).
PassportBounded ==
    \A q \in shown :
        LET p == q.passport  now == View(p.subject, q.asked) IN
        \A part \in DOMAIN now : p.since[part] \subseteq p.view[part]
                                 /\ p.view[part] \subseteq now[part]
=============================================================================
