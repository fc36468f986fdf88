----------------------------- MODULE MCObservatory -----------------------------
(* A catalog that names a route of a model, and a later one that gives the     *)
(* model another identity status; bundles.  Two successful trials qualify at   *)
(* their own moment, and are too old at the next.  The registry knows the      *)
(* probe: one that does not forces the verdict as a missing subject does.      *)
EXTENDS Observatory, TLC

CONSTANTS model, r1, t1, t2, j1, j2

MCDoes == j1 :> {"ingest", "evaluate"} @@ j2 :> {"build"}
MCSubjectOf == [r \in Routes |-> model]
MCSnapshots == {[at |-> 1, status |-> "claimed", routes |-> {r1}],
                [at |-> 2, status |-> "unresolved", routes |-> {r1}]}
key == [route |-> r1, subject |-> model]
MCKeys == {key}
other == [key EXCEPT !.subject = None]
Item(kind, trial, at, verdict) ==
    [key |-> key, kind |-> kind, trial |-> trial, at |-> at, verdict |-> verdict,
     subject |-> model]
reviewed == Item("reviewed_external_evidence", None, 1, "success")
Entry(item, role, disposition) ==
    [item |-> item, role |-> role, disposition |-> disposition, authorized |-> TRUE]
Trials == {t1, t2}
Alike == Permutations(Trials)
MCItems == {Item("probe_result", t, 1, "success") : t \in Trials}
MCManifests == {{Entry(reviewed, 1, "bounded_evidence"),
                 Entry([reviewed EXCEPT !.key = other], 2, "unqualified_observation")},
                {Entry(reviewed, 1, "bounded_evidence"), Entry(reviewed, 2, "bounded_evidence")}}
MCInvalidations == {[key |-> key, reason |-> "revoked", at |-> 2],
                    [key |-> key, reason |-> "replaced", at |-> 1]}
=============================================================================
