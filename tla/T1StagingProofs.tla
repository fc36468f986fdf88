---------------------------- MODULE T1StagingProofs ----------------------------
(***************************************************************************)
(* What a staging hands out and takes back, and who writes a path of the   *)
(* repository: for any manifests, members, stagers, workers and hosts.     *)
(***************************************************************************)
EXTENDS T1Staging, SequenceTheorems, TLAPS

(***************************************************************************)
(* The inductive invariant.                                                *)
(***************************************************************************)

Batches == [doc : Loadable, live : BOOLEAN]
Dispatches == [doc : Loadable, binding : Bindings, epoch : Nat, live : BOOLEAN]
Rows == [doc : Loadable, batch : Nat, binding : Bindings]
Bundles == [doc : Loadable, batch : Nat, dispatch : Nat, binding : Bindings]
Failures == [batch : Nat \cup {None}, dispatch : Nat \cup {None}, kept : BOOLEAN]
Places == {"idle", "batch", "dispatch", "enqueue", "undo_dispatch", "undo_batch", "record"}
Callings ==
    [place : Places, doc : Loadable \cup {None}, binding : Bindings \cup {None},
     batch : Nat \cup {None}, dispatch : Nat \cup {None}, kept : BOOLEAN]

TargetTypes ==
    /\ leases \in [Keys -> LeaseStates \cup {None}]
    /\ files \in [Targets -> {BytesOf[m] : m \in Members} \cup {None}]
    /\ materials \subseteq Members \X Targets

TypeOK ==
    /\ TargetTypes
    /\ batches \in Seq(Batches) /\ dispatches \in Seq(Dispatches)
    /\ epoch \in [no : Nat, open : BOOLEAN] /\ expired \subseteq Plans /\ tier \in Tiers
    /\ queue \in [Plans -> Rows \cup {None}]
    /\ work \in [Members -> WorkStates \cup {None}] /\ resolving \subseteq Members
    /\ at \in [Stagers -> Callings]
    /\ bundles \subseteq Bundles /\ failures \subseteq Failures
    /\ faults \in Nat

\* The rows in force for a path know of each other, and who recorded writing it wrote
\* what is there.
OwnersAgree(t) ==
    \A m, n \in Owners(t) : m # n =>
        /\ PlanOf[m] = PlanOf[n]
        /\ ClaimOn(m, t).group = ClaimOn(n, t).group /\ ClaimOn(m, t).group # None
RecordsAgree(t) == \A m \in Members : <<m, t>> \in materials => files[t] = BytesOf[m]

\* Only a member of a queued plan ever has a lease or stands anywhere.
MemberSound(m) ==
    /\ (\E t \in Targets : Held(m, t)) => work[m] # None
    /\ work[m] # None => queue[PlanOf[m]] # None /\ m \in Ids(queue[PlanOf[m]].doc)
    /\ m \in resolving => work[m] \notin {"queued", None}

\* A queued plan is of one manifest without collisions and of a batch authority issued
\* for it, which only the resolution of a member revokes.
QueueSound(plan) ==
    LET row == queue[plan] IN
    row # None =>
        /\ Doc[row.doc].plan = plan /\ ~Collide(row.doc)
        /\ row.batch \in DOMAIN batches /\ batches[row.batch].doc = row.doc
        /\ batches[row.batch].live \/ \E m \in resolving : PlanOf[m] = plan

\* What a stager issued is for its manifest and nobody else's, the queue included, and
\* what it has taken back is revoked.
StagerSound(s) ==
    LET call == at[s] IN
    /\ call.place # "idle" => call.doc \in Loadable /\ call.binding \in Bindings
    /\ call.place \in {"dispatch", "enqueue"} => call.batch # None
    /\ call.place = "enqueue" => call.dispatch # None
    /\ call.batch # None =>
        /\ call.batch \in DOMAIN batches /\ batches[call.batch].doc = call.doc
        /\ \A plan \in Plans : queue[plan] # None => queue[plan].batch # call.batch
        /\ \A r \in Stagers \ {s} : at[r].batch # call.batch
    /\ call.dispatch # None =>
        /\ call.dispatch \in DOMAIN dispatches
        /\ dispatches[call.dispatch].doc = call.doc
        /\ dispatches[call.dispatch].binding = call.binding
    /\ (call.place \in {"undo_batch", "record"} /\ ~call.kept /\ call.dispatch # None)
            => ~dispatches[call.dispatch].live
    /\ (call.place = "record" /\ ~call.kept /\ call.batch # None) => ~batches[call.batch].live

\* What a failure names was revoked, unless revoking it failed.
FailureSound(f) ==
    /\ f.batch # None => f.batch \in DOMAIN batches /\ (batches[f.batch].live => f.kept)
    /\ f.dispatch # None => f.dispatch \in DOMAIN dispatches /\ (dispatches[f.dispatch].live => f.kept)

BundleSound(bundle) ==
    LET row == queue[Doc[bundle.doc].plan] IN
    /\ row # None
    /\ Alike(row.doc, bundle.doc) /\ row.batch = bundle.batch /\ row.binding = bundle.binding
    /\ bundle.dispatch \in DOMAIN dispatches
    /\ dispatches[bundle.dispatch].doc = bundle.doc /\ dispatches[bundle.dispatch].binding = bundle.binding

StagingInv ==
    /\ TypeOK
    /\ \A t \in Targets : OwnersAgree(t) /\ RecordsAgree(t)
    /\ \A m \in Members : MemberSound(m)
    /\ \A plan \in Plans : QueueSound(plan)
    /\ \A s \in Stagers : StagerSound(s)
    /\ \A f \in failures : FailureSound(f)
    /\ \A bundle \in bundles : BundleSound(bundle)

----------------------------------------------------------------------------
(* What the definitions of a manifest and of a claim give.                 *)

\* Every member of a manifest that loads is of the manifest's plan
\* (T1ExecutionMember and T1ExecutionManifest.__post_init__).
LEMMA LoadableMembers ==
    ASSUME NEW d \in Loadable
    PROVE  /\ d \in Documents /\ Doc[d].plan \in Plans
           /\ \A m \in Ids(d) : m \in Members /\ PlanOf[m] = Doc[d].plan
  <1>1. d \in Documents /\ SoundManifest(d)
    BY DEF Loadable
  <1>2. Doc[d].plan \in Plans
    BY <1>1, StagingAssumption
  <1>3. Doc[d].members \in Seq([id : Members, task : STRING, tier : Tiers, cost : Nat, sound : BOOLEAN])
    BY <1>1, StagingAssumption
  <1>4. ASSUME NEW i \in DOMAIN Doc[d].members
        PROVE  Doc[d].members[i].id \in Members /\ PlanOf[Doc[d].members[i].id] = Doc[d].plan
    <2>0. i \in 1..Len(Doc[d].members)
      BY <1>3, <1>4
    <2>1. Doc[d].members[i] \in [id : Members, task : STRING, tier : Tiers, cost : Nat, sound : BOOLEAN]
      BY <1>3, <2>0, ElementOfSeq
    <2>2. SoundMember(d, i)
      BY <1>1, <1>4 DEF SoundManifest
    <2> QED BY <2>1, <2>2 DEF SoundMember
  <1> QED BY <1>1, <1>2, <1>4 DEF Ids

\* A member's claim on a path it has a key for is one of its claims, and of that path.
LEMMA ClaimFacts ==
    ASSUME NEW m \in Members, NEW t \in Targets, <<m, t>> \in Keys
    PROVE  ClaimOn(m, t) \in ClaimsOf[m] /\ ClaimOn(m, t).target = t
  BY DEF Keys, ClaimOn

\* Members of one manifest without collisions share a path under one named group, and
\* are not both automatic (_validate_collisions).
LEMMA NoCollision ==
    ASSUME NEW d, ~Collide(d), NEW m \in Ids(d), NEW n \in Ids(d), m # n,
           m \in Members, n \in Members, NEW t \in Targets, <<m, t>> \in Keys, <<n, t>> \in Keys
    PROVE  /\ ClaimOn(m, t).group = ClaimOn(n, t).group /\ ClaimOn(m, t).group # None
           /\ ~(ClaimOn(m, t).automatic /\ ClaimOn(n, t).automatic)
  <1>1. ClaimOn(m, t) \in ClaimsOf[m] /\ ClaimOn(m, t).target = t
    BY ClaimFacts
  <1>2. ClaimOn(n, t) \in ClaimsOf[n] /\ ClaimOn(n, t).target = t
    BY ClaimFacts
  <1> QED BY <1>1, <1>2 DEF Collide

----------------------------------------------------------------------------
(* The frame: authorities are only added and revoked, and a row of the     *)
(* queue stays.                                                            *)

Grow ==
    /\ DOMAIN batches \subseteq DOMAIN batches'
    /\ \A i \in DOMAIN batches :
        batches'[i].doc = batches[i].doc /\ (batches'[i].live => batches[i].live)
    /\ DOMAIN dispatches \subseteq DOMAIN dispatches'
    /\ \A i \in DOMAIN dispatches :
        /\ dispatches'[i].doc = dispatches[i].doc /\ dispatches'[i].binding = dispatches[i].binding
        /\ dispatches'[i].live => dispatches[i].live

\* Nothing happens to what was issued.
LEMMA StillGrows ==
    ASSUME UNCHANGED <<batches, dispatches>>
    PROVE  Grow
  BY DEF Grow

\* Every authority appended to the batches leaves the earlier ones as they were.
LEMMA BatchAppended ==
    ASSUME TypeOK, NEW row \in Batches, batches' = Append(batches, row), UNCHANGED dispatches
    PROVE  /\ batches' \in Seq(Batches) /\ Grow
           /\ Len(batches) + 1 \in DOMAIN batches' /\ batches'[Len(batches) + 1] = row
           /\ Len(batches) + 1 \notin DOMAIN batches /\ Len(batches) + 1 \in Nat
           /\ \A i \in DOMAIN batches : batches'[i] = batches[i]
  BY AppendProperties DEF TypeOK, Grow

\* A new dispatch authority is well formed, and the others stay.
LEMMA DispatchAppended ==
    ASSUME TypeOK, NEW row \in Dispatches, dispatches' = Append(dispatches, row), UNCHANGED batches
    PROVE  /\ dispatches' \in Seq(Dispatches) /\ Grow
           /\ Len(dispatches) + 1 \in DOMAIN dispatches' /\ dispatches'[Len(dispatches) + 1] = row
           /\ Len(dispatches) + 1 \in Nat
           /\ \A i \in DOMAIN dispatches : dispatches'[i] = dispatches[i]
  BY AppendProperties DEF TypeOK, Grow

\* A revocation changes one authority, from live to not.
LEMMA BatchRevoked ==
    ASSUME TypeOK, NEW k \in DOMAIN batches, batches' = [batches EXCEPT ![k].live = FALSE],
           UNCHANGED dispatches
    PROVE  /\ batches' \in Seq(Batches) /\ Grow /\ ~batches'[k].live
           /\ \A i \in DOMAIN batches : i # k => batches'[i] = batches[i]
  <1>1. batches \in Seq(Batches) /\ batches[k] \in Batches
    BY DEF TypeOK
  <1> DEFINE row == [batches[k] EXCEPT !.live = FALSE]
  <1>2. row \in Batches /\ row.doc = batches[k].doc /\ row.live = FALSE
    BY <1>1 DEF Batches
  <1>3. batches' = [batches EXCEPT ![k] = row]
    OBVIOUS
  <1> HIDE DEF row
  <1>4. batches' \in Seq(Batches) /\ DOMAIN batches' = DOMAIN batches
    <2>1. DOMAIN batches = 1..Len(batches) /\ k \in 1..Len(batches)
      BY <1>1
    <2>2. [batches EXCEPT ![k] = row] \in Seq(Batches)
      BY <1>1, <1>2, <2>1, ExceptSeq
    <2> QED BY <1>3, <2>2
  <1>5. \A i \in DOMAIN batches : batches'[i] = IF i = k THEN row ELSE batches[i]
    BY <1>3
  <1> QED BY <1>2, <1>4, <1>5 DEF Grow

\* Revoking a dispatch authority changes no other one.
LEMMA DispatchRevoked ==
    ASSUME TypeOK, NEW k \in DOMAIN dispatches, dispatches' = [dispatches EXCEPT ![k].live = FALSE],
           UNCHANGED batches
    PROVE  /\ dispatches' \in Seq(Dispatches) /\ Grow /\ ~dispatches'[k].live
           /\ \A i \in DOMAIN dispatches : i # k => dispatches'[i] = dispatches[i]
  <1>1. dispatches \in Seq(Dispatches) /\ dispatches[k] \in Dispatches
    BY DEF TypeOK
  <1> DEFINE row == [dispatches[k] EXCEPT !.live = FALSE]
  <1>2. row \in Dispatches /\ row.doc = dispatches[k].doc /\ row.binding = dispatches[k].binding /\ row.live = FALSE
    BY <1>1 DEF Dispatches
  <1>3. dispatches' = [dispatches EXCEPT ![k] = row]
    OBVIOUS
  <1> HIDE DEF row
  <1>4. dispatches' \in Seq(Dispatches) /\ DOMAIN dispatches' = DOMAIN dispatches
    <2>1. DOMAIN dispatches = 1..Len(dispatches) /\ k \in 1..Len(dispatches)
      BY <1>1
    <2>2. [dispatches EXCEPT ![k] = row] \in Seq(Dispatches)
      BY <1>1, <1>2, <2>1, ExceptSeq
    <2> QED BY <1>3, <2>2
  <1>5. \A i \in DOMAIN dispatches : dispatches'[i] = IF i = k THEN row ELSE dispatches[i]
    BY <1>3
  <1> QED BY <1>2, <1>4, <1>5 DEF Grow

\* Who owns a path is decided by leases, files and records alone.
LEMMA TargetsKept ==
    ASSUME NEW t \in Targets, OwnersAgree(t), RecordsAgree(t), UNCHANGED targetVars
    PROVE  OwnersAgree(t)' /\ RecordsAgree(t)'
  BY DEF OwnersAgree, RecordsAgree, Owners, Held, targetVars

\* A member whose work was there and is there stays sound.
LEMMA MemberKept ==
    ASSUME NEW m \in Members, MemberSound(m), UNCHANGED targetVars,
           work'[m] = work[m] \/ (work[m] # None /\ work'[m] \notin {"queued", None}),
           m \in resolving' => m \in resolving \/ work'[m] \notin {"queued", None}, UNCHANGED queue
    PROVE  MemberSound(m)'
  BY DEF MemberSound, Held, targetVars

\* The row of a plan stays sound while its authority lives, or once it is resolved.
LEMMA QueueKept ==
    ASSUME NEW p \in Plans, QueueSound(p), Grow, queue'[p] = queue[p],
           resolving \subseteq resolving',
           queue[p] # None =>
               \/ batches'[queue[p].batch].live = batches[queue[p].batch].live
               \/ \E m \in resolving' : PlanOf[m] = p
    PROVE  QueueSound(p)'
  BY DEF QueueSound, Grow

\* What a recorded failure names stays revoked.
LEMMA FailureKept ==
    ASSUME NEW f, FailureSound(f), Grow
    PROVE  FailureSound(f)'
  BY DEF FailureSound, Grow

\* A bundle stays exact while the queue keeps its rows.
LEMMA BundleKept ==
    ASSUME NEW b \in Bundles, BundleSound(b), Grow,
           \A p \in Plans : queue[p] # None => queue'[p] = queue[p]
    PROVE  BundleSound(b)'
  <1>1. Doc[b.doc].plan \in Plans
    BY LoadableMembers DEF Bundles
  <1> QED BY <1>1 DEF BundleSound, Grow

\* What a stager knows of the batch authority it issued.
LEMMA StagerIssued ==
    ASSUME NEW s \in Stagers, StagerSound(s), at[s].batch # None
    PROVE  /\ at[s].batch \in DOMAIN batches /\ batches[at[s].batch].doc = at[s].doc
           /\ \A p \in Plans : queue[p] # None => queue[p].batch # at[s].batch
           /\ \A r \in Stagers \ {s} : at[r].batch # at[s].batch
  BY DEF StagerSound

\* A stager that does not move is disturbed only by somebody else naming its batch.
LEMMA StagerKept ==
    ASSUME NEW s \in Stagers, StagerSound(s), Grow, at'[s] = at[s],
           at[s].batch # None =>
               /\ \A p \in Plans : queue'[p] # None => queue'[p].batch # at[s].batch
               /\ \A r \in Stagers \ {s} : at'[r].batch # at[s].batch
    PROVE  StagerSound(s)'
  BY DEF StagerSound, Grow

\* A step of one stager that touches neither the queue nor the paths.
LEMMA StagerStep ==
    ASSUME StagingInv, NEW s \in Stagers, UNCHANGED <<targetVars, queueVars, bundles>>,
           TypeOK', Grow,
           \A r \in Stagers \ {s} : at'[r] = at[r],
           StagerSound(s)',
           \/ at'[s].batch = at[s].batch \/ at'[s].batch = None
           \/ at'[s].batch \notin DOMAIN batches,
           \A p \in Plans : queue[p] # None =>
               batches'[queue[p].batch].live = batches[queue[p].batch].live,
           \A f \in failures' : FailureSound(f)'
    PROVE  StagingInv'
  <1> USE DEF queueVars
  <1>1. ASSUME NEW t \in Targets PROVE OwnersAgree(t)' /\ RecordsAgree(t)'
    BY <1>1, TargetsKept DEF StagingInv
  <1>2. ASSUME NEW m \in Members PROVE MemberSound(m)'
    BY <1>2, MemberKept DEF StagingInv
  <1>3. ASSUME NEW p \in Plans PROVE QueueSound(p)'
    BY <1>3, QueueKept DEF StagingInv
  <1>4. ASSUME NEW r \in Stagers PROVE StagerSound(r)'
    <2>1. CASE r = s
      BY <2>1
    <2>2. CASE r # s
      <3>1. StagerSound(r) /\ at'[r] = at[r]
        BY <2>2 DEF StagingInv
      <3>2. at[r].batch # None =>
              /\ \A p \in Plans : queue'[p] # None => queue'[p].batch # at[r].batch
              /\ \A q \in Stagers \ {r} : at'[q].batch # at[r].batch
        <4>1. SUFFICES ASSUME at[r].batch # None
                       PROVE  /\ \A p \in Plans : queue'[p] # None => queue'[p].batch # at[r].batch
                              /\ \A q \in Stagers \ {r} : at'[q].batch # at[r].batch
          OBVIOUS
        <4>2. /\ at[r].batch \in DOMAIN batches
              /\ \A p \in Plans : queue[p] # None => queue[p].batch # at[r].batch
              /\ \A q \in Stagers \ {r} : at[q].batch # at[r].batch
          BY <3>1, <4>1, StagerIssued
        <4>3. queue' = queue
          OBVIOUS
        <4>4. at'[s].batch # at[r].batch
          BY <2>2, <4>1, <4>2
        <4>5. \A q \in Stagers \ {r} : at'[q].batch # at[r].batch
          BY <4>2, <4>4
        <4> QED BY <4>2, <4>3, <4>5
      <3> QED BY <3>1, <3>2, StagerKept
    <2> QED BY <2>1, <2>2
  <1>5. ASSUME NEW b \in bundles' PROVE BundleSound(b)'
    <2>1. b \in Bundles /\ BundleSound(b)
      BY <1>5 DEF StagingInv, TypeOK
    <2> QED BY <2>1, BundleKept
  <1> QED BY <1>1, <1>2, <1>3, <1>4, <1>5 DEF StagingInv

\* What is on record of failures stays true while authorities are only revoked.
LEMMA FailuresKept ==
    ASSUME StagingInv, Grow, UNCHANGED failures
    PROVE  \A f \in failures' : FailureSound(f)'
  <1>1. ASSUME NEW f \in failures' PROVE FailureSound(f)'
    BY <1>1, FailureKept DEF StagingInv
  <1> QED BY <1>1

\* At the outset.
LEMMA InitSound == ASSUME Init PROVE StagingInv
  <1>0. None \notin Nat /\ None \notin LeaseStates /\ None \notin WorkStates
    BY ClaimsAssumption, StagingAssumption
  <1>1. Idle.place = "idle" /\ Idle.batch = None /\ Idle.dispatch = None /\ Idle \in Callings
    BY DEF Idle, Callings, Places
  <1>2. TypeOK
    BY <1>1, StagingAssumption DEF Init, TargetsInit, TypeOK, TargetTypes
  <1>3. \A s \in Stagers : StagerSound(s)
    BY <1>1 DEF Init, StagerSound
  <1>4. \A m \in Members, t \in Targets : ~Held(m, t)
    BY DEF Init, TargetsInit, Held
  <1>5. \A t \in Targets : OwnersAgree(t) /\ RecordsAgree(t)
    BY <1>4 DEF Init, TargetsInit, OwnersAgree, RecordsAgree, Owners
  <1>6. \A m \in Members : MemberSound(m)
    BY <1>4 DEF Init, MemberSound
  <1>7. \A p \in Plans : QueueSound(p)
    BY DEF Init, QueueSound
  <1> QED BY <1>2, <1>3, <1>5, <1>6, <1>7 DEF StagingInv, Init

----------------------------------------------------------------------------
(* Staging.                                                                *)

\* A bundle of what is queued already is the queue's.
LEMMA ExistingSound ==
    ASSUME StagingInv, NEW d \in Loadable, Existing(d),
           UNCHANGED <<targetVars, authorityVars, queueVars, at, failures, faults>>
    PROVE  StagingInv'
  <1> DEFINE row == queue[Doc[d].plan]
  <1>1. Doc[d].plan \in Plans /\ d \in Documents
    BY LoadableMembers
  <1>2. row # None /\ row \in Rows
    BY <1>1 DEF StagingInv, TypeOK, Existing
  <1>3. Alike(row.doc, d)
    <2>1. [row EXCEPT !.doc = d].doc = d
      BY <1>2 DEF Rows
    <2>2. Enqueueable([row EXCEPT !.doc = d])
      BY DEF Existing
    <2>3. Matches(row, [row EXCEPT !.doc = d])
      BY <1>2, <2>1, <2>2 DEF Enqueueable
    <2> QED BY <2>1, <2>3 DEF Matches
  <1>4. row.batch \in Nat /\ row.binding \in Bindings
    BY <1>2 DEF Rows
  <1>5. PICK k \in DispatchesOf(d) : /\ dispatches[k].binding = row.binding
                                     /\ bundles' = bundles \cup {Bundle(d, row.batch, k, row.binding)}
    BY DEF Existing
  <1>6. k \in DOMAIN dispatches /\ dispatches[k].doc = d /\ k \in Nat
    BY <1>5 DEF DispatchesOf, StagingInv, TypeOK
  <1> DEFINE new == Bundle(d, row.batch, k, row.binding)
  <1>7. new \in Bundles
    BY <1>4, <1>6 DEF Bundles, Bundle
  <1>9. BundleSound(new)
    BY <1>2, <1>3, <1>5, <1>6 DEF BundleSound, Bundle
  <1>10. TypeOK'
    BY <1>5, <1>7 DEF StagingInv, TypeOK, TargetTypes, targetVars, authorityVars, queueVars
  <1>11. Grow
    BY StillGrows DEF authorityVars
  <1>12. ASSUME NEW b \in bundles' PROVE BundleSound(b)'
    <2>1. b \in Bundles /\ BundleSound(b)
      BY <1>5, <1>7, <1>9, <1>12 DEF StagingInv, TypeOK
    <2> QED BY <2>1, <1>11, BundleKept DEF queueVars
  <1>13. ASSUME NEW t \in Targets PROVE OwnersAgree(t)' /\ RecordsAgree(t)'
    BY <1>13, TargetsKept DEF StagingInv
  <1>14. ASSUME NEW m \in Members PROVE MemberSound(m)'
    BY <1>14, MemberKept DEF StagingInv, queueVars
  <1>15. ASSUME NEW p \in Plans PROVE QueueSound(p)'
    BY <1>15, <1>11, QueueKept DEF StagingInv, queueVars, authorityVars
  <1>16. ASSUME NEW s \in Stagers PROVE StagerSound(s)'
    BY <1>16 DEF StagingInv, StagerSound, queueVars, authorityVars
  <1>17. \A f \in failures' : FailureSound(f)'
    BY <1>11, FailuresKept
  <1> QED BY <1>10, <1>12, <1>13, <1>14, <1>15, <1>16, <1>17 DEF StagingInv

\* stage: a bundle is loaded from what is there, or the stager goes on.
LEMMA StageSound ==
    ASSUME StagingInv, NEW s \in Stagers, NEW d \in Documents, NEW b \in Bindings, Stage(s, d, b)
    PROVE  StagingInv'
  <1>1. d \in Loadable
    BY DEF Stage
  <1>2. CASE Existing(d) /\ UNCHANGED at
    BY <1>1, <1>2, ExistingSound DEF Stage
  <1>3. CASE at' = [at EXCEPT ![s] = [Idle EXCEPT !.place = "batch", !.doc = d, !.binding = b]] /\ UNCHANGED bundles
    <2> DEFINE call == [Idle EXCEPT !.place = "batch", !.doc = d, !.binding = b]
    <2>1. /\ call \in Callings /\ call.place = "batch" /\ call.doc = d /\ call.binding = b
          /\ call.batch = None /\ call.dispatch = None
      BY <1>1 DEF Idle, Callings, Places
    <2>2. at \in [Stagers -> Callings]
      BY DEF StagingInv, TypeOK
    <2> HIDE DEF call
    <2>3. at' \in [Stagers -> Callings] /\ at'[s] = call /\ \A r \in Stagers \ {s} : at'[r] = at[r]
      BY <1>3, <2>1, <2>2 DEF call
    <2>4. UNCHANGED <<targetVars, authorityVars, queueVars, failures, faults, bundles>>
      BY <1>3 DEF Stage
    <2>5. TypeOK'
      BY <2>3, <2>4 DEF StagingInv, TypeOK, TargetTypes, targetVars, authorityVars, queueVars
    <2>6. Grow
      BY <2>4, StillGrows DEF authorityVars
    <2>7. StagerSound(s)'
      BY <1>1, <2>1, <2>3 DEF StagerSound
    <2>8. \A f \in failures' : FailureSound(f)'
      BY <2>4, <2>6, FailuresKept
    <2> QED BY <2>1, <2>3, <2>4, <2>5, <2>6, <2>7, <2>8, StagerStep DEF authorityVars
  <1> QED BY <1>2, <1>3 DEF Stage

\* What a stager in a place knows.
LEMMA StagerFacts ==
    ASSUME StagingInv, NEW s \in Stagers
    PROVE  /\ at[s] \in Callings /\ at \in [Stagers -> Callings] /\ StagerSound(s)
           /\ at[s].place # "idle" => at[s].doc \in Loadable /\ at[s].binding \in Bindings
           /\ at[s].batch # None => at[s].batch \in DOMAIN batches /\ at[s].batch \in Nat
           /\ at[s].dispatch # None => at[s].dispatch \in DOMAIN dispatches /\ at[s].dispatch \in Nat
  <1>1. at[s] \in Callings /\ at \in [Stagers -> Callings] /\ StagerSound(s)
    BY DEF StagingInv, TypeOK
  <1> QED BY <1>1 DEF StagerSound, Callings

\* The batch authority that a stager issues is its own.
LEMMA IssueBatchSound ==
    ASSUME StagingInv, NEW s \in Stagers, IssueBatch(s)
    PROVE  StagingInv'
  <1> DEFINE row == [doc |-> at[s].doc, live |-> TRUE]
             call == [at[s] EXCEPT !.place = "dispatch", !.batch = Len(batches) + 1]
  <1>1. at[s].place = "batch" /\ at[s].doc \in Loadable /\ at[s].binding \in Bindings /\ TypeOK
    BY StagerFacts DEF IssueBatch, In, StagingInv
  <1>2. row \in Batches
    BY <1>1 DEF Batches
  <1>3. UNCHANGED <<targetVars, dispatches, epoch, expired, tier, queueVars, bundles, failures, faults>>
    BY DEF IssueBatch
  <1>4. batches' = Append(batches, row)
    BY DEF IssueBatch
  <1> HIDE DEF row
  <1>5. /\ batches' \in Seq(Batches) /\ Grow
        /\ Len(batches) + 1 \in DOMAIN batches' /\ batches'[Len(batches) + 1] = row
        /\ Len(batches) + 1 \notin DOMAIN batches /\ Len(batches) + 1 \in Nat
        /\ \A i \in DOMAIN batches : batches'[i] = batches[i]
    BY <1>1, <1>2, <1>3, <1>4, BatchAppended
  <1>6. /\ call \in Callings /\ call.place = "dispatch" /\ call.doc = at[s].doc /\ call.binding = at[s].binding
        /\ call.batch = Len(batches) + 1 /\ call.dispatch = at[s].dispatch /\ call.kept = at[s].kept
    BY <1>5, StagerFacts DEF Callings, Places
  <1>7. at' = [at EXCEPT ![s] = call]
    BY StagerFacts DEF IssueBatch, Callings
  <1> HIDE DEF call
  <1>8. at' \in [Stagers -> Callings] /\ at'[s] = call /\ \A r \in Stagers \ {s} : at'[r] = at[r]
    BY <1>6, <1>7, StagerFacts
  <1>9. TypeOK'
    BY <1>1, <1>3, <1>5, <1>8 DEF TypeOK, TargetTypes, targetVars, queueVars
  <1>10. \A p \in Plans : queue[p] # None =>
            queue[p].batch \in DOMAIN batches /\ batches'[queue[p].batch] = batches[queue[p].batch]
    BY <1>5 DEF StagingInv, QueueSound
  <1>11. \A r \in Stagers \ {s} : at[r].batch # Len(batches) + 1
    <2>1. None # Len(batches) + 1
      BY <1>5, StagingAssumption
    <2> QED BY <2>1, <1>5, StagerFacts
  <1>12. StagerSound(s)'
    <2>1. at[s].dispatch # None =>
            /\ at[s].dispatch \in DOMAIN dispatches
            /\ dispatches[at[s].dispatch].doc = at[s].doc
            /\ dispatches[at[s].dispatch].binding = at[s].binding
      BY StagerFacts DEF StagerSound
    <2>2. None # Len(batches) + 1
      BY <1>5, StagingAssumption
    <2>3. batches'[Len(batches) + 1].doc = at[s].doc
      BY <1>5 DEF row
    <2>4. queue' = queue /\ dispatches' = dispatches
      BY <1>3 DEF queueVars
    <2>5. \A p \in Plans : queue'[p] # None => queue'[p].batch # Len(batches) + 1
      BY <1>5, <1>10, <2>4
    <2> QED BY <1>1, <1>5, <1>6, <1>8, <1>11, <2>1, <2>2, <2>3, <2>4, <2>5 DEF StagerSound
  <1>13. \A f \in failures' : FailureSound(f)'
    BY <1>3, <1>5, FailuresKept
  <1>14. at'[s].batch \notin DOMAIN batches
    BY <1>5, <1>6, <1>8
  <1>15. UNCHANGED <<targetVars, queueVars, bundles>>
    BY <1>3
  <1>16. \A p \in Plans : queue[p] # None =>
            batches'[queue[p].batch].live = batches[queue[p].batch].live
    BY <1>10
  <1> QED BY <1>5, <1>8, <1>9, <1>12, <1>13, <1>14, <1>15, <1>16, StagerStep

\* So is its dispatch authority, issued in the epoch of now.
LEMMA IssueDispatchSound ==
    ASSUME StagingInv, NEW s \in Stagers, IssueDispatch(s)
    PROVE  StagingInv'
  <1> DEFINE row == [doc |-> at[s].doc, binding |-> at[s].binding, epoch |-> epoch.no, live |-> TRUE]
             call == [at[s] EXCEPT !.place = "enqueue", !.dispatch = Len(dispatches) + 1]
  <1>1. at[s].place = "dispatch" /\ at[s].doc \in Loadable /\ at[s].binding \in Bindings /\ TypeOK
    BY StagerFacts DEF IssueDispatch, In, StagingInv
  <1>2. row \in Dispatches
    BY <1>1 DEF Dispatches, TypeOK
  <1>3. UNCHANGED <<targetVars, batches, epoch, expired, tier, queueVars, bundles, failures, faults>>
    BY DEF IssueDispatch
  <1>4. dispatches' = Append(dispatches, row)
    BY DEF IssueDispatch
  <1>40. row.doc = at[s].doc /\ row.binding = at[s].binding
    OBVIOUS
  <1> HIDE DEF row
  <1>5. /\ dispatches' \in Seq(Dispatches) /\ Grow
        /\ Len(dispatches) + 1 \in DOMAIN dispatches' /\ dispatches'[Len(dispatches) + 1] = row
        /\ Len(dispatches) + 1 \in Nat
    BY <1>1, <1>2, <1>3, <1>4, DispatchAppended
  <1>6. /\ call \in Callings /\ call.place = "enqueue" /\ call.doc = at[s].doc /\ call.binding = at[s].binding
        /\ call.batch = at[s].batch /\ call.dispatch = Len(dispatches) + 1 /\ call.kept = at[s].kept
    BY <1>5, StagerFacts DEF Callings, Places
  <1>7. at' = [at EXCEPT ![s] = call]
    BY StagerFacts DEF IssueDispatch, Callings
  <1> HIDE DEF call
  <1>8. at' \in [Stagers -> Callings] /\ at'[s] = call /\ \A r \in Stagers \ {s} : at'[r] = at[r]
    BY <1>6, <1>7, StagerFacts
  <1>9. TypeOK'
    BY <1>1, <1>3, <1>5, <1>8 DEF TypeOK, TargetTypes, targetVars, queueVars
  <1>12. StagerSound(s)'
    <2>1. at[s].batch # None
      BY <1>1, StagerFacts DEF StagerSound
    <2>2. None # Len(dispatches) + 1
      BY <1>5, StagingAssumption
    <2>3. /\ at[s].batch \in DOMAIN batches /\ batches[at[s].batch].doc = at[s].doc
          /\ \A p \in Plans : queue[p] # None => queue[p].batch # at[s].batch
          /\ \A r \in Stagers \ {s} : at[r].batch # at[s].batch
      BY <2>1, StagerFacts, StagerIssued
    <2>4. queue' = queue /\ batches' = batches
      BY <1>3 DEF queueVars
    <2>5. dispatches'[Len(dispatches) + 1].doc = at[s].doc /\ dispatches'[Len(dispatches) + 1].binding = at[s].binding
      BY <1>5, <1>40
    <2> QED BY <1>1, <1>5, <1>6, <1>8, <2>1, <2>2, <2>3, <2>4, <2>5 DEF StagerSound
  <1>13. \A f \in failures' : FailureSound(f)'
    BY <1>3, <1>5, FailuresKept
  <1>14. at'[s].batch = at[s].batch
    BY <1>6, <1>8
  <1>15. UNCHANGED <<targetVars, queueVars, bundles, batches>>
    BY <1>3
  <1> QED BY <1>5, <1>8, <1>9, <1>12, <1>13, <1>14, <1>15, StagerStep

\* A call of stage that raises, a crash: nothing is issued or revoked.
LEMMA RaisesSound ==
    ASSUME StagingInv, NEW s \in Stagers, StagingRaises(s)
    PROVE  StagingInv'
  <1> DEFINE call == [at[s] EXCEPT !.place = "undo_dispatch"]
  <1>1. at[s].place # "idle" /\ at[s].doc \in Loadable /\ at[s].binding \in Bindings /\ TypeOK
    <2>1. at[s].place \in {"batch", "dispatch", "enqueue"}
      BY DEF StagingRaises
    <2> QED BY <2>1, StagerFacts DEF StagingInv
  <1>2. UNCHANGED <<targetVars, authorityVars, queueVars, bundles, failures>> /\ faults' \in Nat
    <2>1. faults \in Nat /\ (faults' = faults \/ (faults > 0 /\ faults' = faults - 1))
      BY <1>1 DEF StagingRaises, Fault, TypeOK
    <2> QED BY <2>1 DEF StagingRaises
  <1>3. /\ call \in Callings /\ call.place = "undo_dispatch" /\ call.doc = at[s].doc /\ call.binding = at[s].binding
        /\ call.batch = at[s].batch /\ call.dispatch = at[s].dispatch /\ call.kept = at[s].kept
    BY StagerFacts DEF Callings, Places
  <1>4. at' = [at EXCEPT ![s] = call]
    BY StagerFacts DEF StagingRaises, Go, Callings
  <1> HIDE DEF call
  <1>5. at' \in [Stagers -> Callings] /\ at'[s] = call /\ \A r \in Stagers \ {s} : at'[r] = at[r]
    BY <1>3, <1>4, StagerFacts
  <1>6. TypeOK'
    BY <1>1, <1>2, <1>5 DEF TypeOK, TargetTypes, targetVars, queueVars, authorityVars
  <1>7. UNCHANGED <<queue, batches, dispatches, failures>> /\ Grow
    BY <1>2, StillGrows DEF queueVars, authorityVars
  <1>8. StagerSound(s)'
    <2>1. StagerSound(s)
      BY StagerFacts
    <2> QED BY <1>1, <1>3, <1>5, <1>7, <2>1 DEF StagerSound
  <1>9. \A f \in failures' : FailureSound(f)'
    BY <1>7, FailuresKept
  <1> QED BY <1>2, <1>3, <1>5, <1>6, <1>7, <1>8, <1>9, StagerStep

\* A stager that rests knows nothing.
LEMMA RestsSound ==
    ASSUME StagingInv, NEW s \in Stagers, Rests(s), faults' \in Nat,
           UNCHANGED <<targetVars, authorityVars, queueVars, bundles>>,
           failures' \subseteq Failures, \A f \in failures' : FailureSound(f)'
    PROVE  StagingInv'
  <1>1. Idle.place = "idle" /\ Idle.batch = None /\ Idle.dispatch = None /\ Idle \in Callings
    BY DEF Idle, Callings, Places
  <1>2. at' \in [Stagers -> Callings] /\ at'[s] = Idle /\ \A r \in Stagers \ {s} : at'[r] = at[r]
    BY <1>1, StagerFacts DEF Rests
  <1>3. TypeOK'
    BY <1>2 DEF StagingInv, TypeOK, TargetTypes, targetVars, queueVars, authorityVars
  <1>4. UNCHANGED batches /\ Grow
    BY StillGrows DEF authorityVars
  <1>5. StagerSound(s)'
    BY <1>1, <1>2 DEF StagerSound
  <1>6. at'[s].batch = None
    BY <1>1, <1>2
  <1> QED BY <1>2, <1>3, <1>4, <1>5, <1>6, StagerStep

\* A fault is counted.
LEMMA FaultCounts ==
    ASSUME TypeOK, Fault
    PROVE  faults' \in Nat
  <1>1. faults \in Nat /\ faults > 0 /\ faults' = faults - 1
    BY DEF TypeOK, Fault
  <1> QED BY <1>1

\* A stager that dies leaves behind what it issued.
LEMMA CrashSound ==
    ASSUME StagingInv, NEW s \in Stagers, Crash(s)
    PROVE  StagingInv'
  <1>1. UNCHANGED <<targetVars, authorityVars, queueVars, bundles, failures>> /\ Rests(s) /\ Fault
    BY DEF Crash
  <1>2. faults' \in Nat /\ failures' \subseteq Failures
    BY <1>1, FaultCounts DEF StagingInv, TypeOK
  <1>3. \A f \in failures' : FailureSound(f)'
    BY <1>1, FailuresKept, StillGrows DEF authorityVars
  <1> QED BY <1>1, <1>2, <1>3, RestsSound

\* t1.staging_failed names what the compensation has revoked.
LEMMA RecordFailureSound ==
    ASSUME StagingInv, NEW s \in Stagers, NEW ok \in BOOLEAN, RecordFailure(s, ok)
    PROVE  StagingInv'
  <1> DEFINE new == [batch |-> at[s].batch, dispatch |-> at[s].dispatch, kept |-> at[s].kept]
  <1>1. UNCHANGED <<targetVars, authorityVars, queueVars, bundles>> /\ Rests(s) /\ at[s].place = "record"
    BY DEF RecordFailure, In
  <1>2. faults' \in Nat
    BY FaultCounts DEF RecordFailure, StagingInv, TypeOK
  <1>3. failures' \subseteq failures \cup {new}
    BY DEF RecordFailure
  <1>4. new \in Failures
    BY StagerFacts DEF Failures, Callings
  <1>5. FailureSound(new)
    BY <1>1, StagerFacts DEF StagerSound, FailureSound
  <1> HIDE DEF new
  <1>6. ASSUME NEW f \in failures' PROVE FailureSound(f)'
    <2>1. FailureSound(f)
      BY <1>3, <1>5, <1>6 DEF StagingInv
    <2>2. Grow
      BY <1>1, StillGrows DEF authorityVars
    <2> QED BY <2>1, <2>2, FailureKept
  <1>7. failures' \subseteq Failures
    BY <1>3, <1>4 DEF StagingInv, TypeOK
  <1> QED BY <1>1, <1>2, <1>6, <1>7, RestsSound

\* The compensation revokes the dispatch authority first,
LEMMA UndoDispatchSound ==
    ASSUME StagingInv, NEW s \in Stagers, NEW ok \in BOOLEAN, UndoDispatch(s, ok)
    PROVE  StagingInv'
  <1> DEFINE call == [at[s] EXCEPT !.place = "undo_batch", !.kept = ~ok]
  <1>1. at[s].place # "idle" /\ at[s].doc \in Loadable /\ at[s].binding \in Bindings /\ TypeOK
    <2>1. at[s].place = "undo_dispatch"
      BY DEF UndoDispatch, In
    <2> QED BY <2>1, StagerFacts DEF StagingInv
  <1>2. UNCHANGED <<targetVars, batches, epoch, expired, tier, queueVars, bundles, failures>>
    BY DEF UndoDispatch
  <1>3. faults' \in Nat
    BY <1>1, FaultCounts DEF UndoDispatch, TypeOK
  <1>4. /\ call \in Callings /\ call.place = "undo_batch" /\ call.doc = at[s].doc /\ call.binding = at[s].binding
        /\ call.batch = at[s].batch /\ call.dispatch = at[s].dispatch /\ call.kept = ~ok
    BY StagerFacts DEF Callings, Places
  <1>5. at' = [at EXCEPT ![s] = call]
    BY StagerFacts DEF UndoDispatch, Callings
  <1> HIDE DEF call
  <1>6. at' \in [Stagers -> Callings] /\ at'[s] = call /\ \A r \in Stagers \ {s} : at'[r] = at[r]
    BY <1>4, <1>5, StagerFacts
  <1>7. /\ dispatches' \in Seq(Dispatches) /\ Grow
        /\ ok /\ at[s].dispatch # None => ~dispatches'[at[s].dispatch].live
    <2>1. CASE ok /\ at[s].dispatch # None
      <3>1. at[s].dispatch \in DOMAIN dispatches
        BY <2>1, StagerFacts
      <3>2. dispatches' = [dispatches EXCEPT ![at[s].dispatch].live = FALSE]
        BY <2>1 DEF UndoDispatch
      <3> QED BY <1>1, <1>2, <3>1, <3>2, DispatchRevoked
    <2>2. CASE ~(ok /\ at[s].dispatch # None)
      <3>1. UNCHANGED dispatches
        BY <2>2 DEF UndoDispatch
      <3> QED BY <1>1, <1>2, <2>2, <3>1, StillGrows DEF TypeOK
    <2> QED BY <2>1, <2>2
  <1>8. TypeOK'
    BY <1>1, <1>2, <1>3, <1>6, <1>7 DEF TypeOK, TargetTypes, targetVars, queueVars
  <1>9. StagerSound(s)'
    <2>1. UNCHANGED <<queue, batches>>
      BY <1>2 DEF queueVars
    <2>2. at[s].batch # None =>
            /\ at[s].batch \in DOMAIN batches /\ batches[at[s].batch].doc = at[s].doc
            /\ \A p \in Plans : queue[p] # None => queue[p].batch # at[s].batch
            /\ \A r \in Stagers \ {s} : at[r].batch # at[s].batch
      BY StagerFacts, StagerIssued
    <2>3. at[s].dispatch # None =>
            /\ at[s].dispatch \in DOMAIN dispatches'
            /\ dispatches'[at[s].dispatch].doc = at[s].doc
            /\ dispatches'[at[s].dispatch].binding = at[s].binding
      BY <1>7, StagerFacts DEF StagerSound, Grow
    <2> QED BY <1>1, <1>4, <1>6, <1>7, <2>1, <2>2, <2>3 DEF StagerSound
  <1>10. \A f \in failures' : FailureSound(f)'
    BY <1>2, <1>7, FailuresKept
  <1>11. UNCHANGED <<targetVars, queueVars, bundles, batches>> /\ at'[s].batch = at[s].batch
    BY <1>2, <1>4, <1>6
  <1> QED BY <1>6, <1>7, <1>8, <1>9, <1>10, <1>11, StagerStep

\* then the batch authority, which no queued plan has.
LEMMA UndoBatchSound ==
    ASSUME StagingInv, NEW s \in Stagers, NEW ok \in BOOLEAN, UndoBatch(s, ok)
    PROVE  StagingInv'
  <1> DEFINE call == [at[s] EXCEPT !.place = "record", !.kept = at[s].kept \/ ~ok]
  <1>1. at[s].place = "undo_batch" /\ at[s].doc \in Loadable /\ at[s].binding \in Bindings /\ TypeOK
    <2>1. at[s].place = "undo_batch"
      BY DEF UndoBatch, In
    <2> QED BY <2>1, StagerFacts DEF StagingInv
  <1>2. UNCHANGED <<targetVars, dispatches, epoch, expired, tier, queueVars, bundles, failures>>
    BY DEF UndoBatch
  <1>3. faults' \in Nat
    BY <1>1, FaultCounts DEF UndoBatch, TypeOK
  <1>4. /\ call \in Callings /\ call.place = "record" /\ call.doc = at[s].doc /\ call.binding = at[s].binding
        /\ call.batch = at[s].batch /\ call.dispatch = at[s].dispatch /\ (~call.kept => ok /\ ~at[s].kept)
    BY StagerFacts DEF Callings, Places
  <1>5. at' = [at EXCEPT ![s] = call]
    BY StagerFacts DEF UndoBatch, Callings
  <1> HIDE DEF call
  <1>6. at' \in [Stagers -> Callings] /\ at'[s] = call /\ \A r \in Stagers \ {s} : at'[r] = at[r]
    BY <1>4, <1>5, StagerFacts
  <1>7. at[s].batch # None =>
            /\ at[s].batch \in DOMAIN batches /\ batches[at[s].batch].doc = at[s].doc
            /\ \A p \in Plans : queue[p] # None => queue[p].batch # at[s].batch
            /\ \A r \in Stagers \ {s} : at[r].batch # at[s].batch
    BY StagerFacts, StagerIssued
  <1>8. /\ batches' \in Seq(Batches) /\ Grow
        /\ ok /\ at[s].batch # None => ~batches'[at[s].batch].live
        /\ \A i \in DOMAIN batches : i # at[s].batch => batches'[i] = batches[i]
    <2>1. CASE ok /\ at[s].batch # None
      <3>1. at[s].batch \in DOMAIN batches
        BY <2>1, StagerFacts
      <3>2. batches' = [batches EXCEPT ![at[s].batch].live = FALSE]
        BY <2>1 DEF UndoBatch, Own
      <3> QED BY <1>1, <1>2, <3>1, <3>2, BatchRevoked
    <2>2. CASE ~(ok /\ at[s].batch # None)
      <3>1. UNCHANGED batches
        BY <2>2 DEF UndoBatch
      <3> QED BY <1>1, <1>2, <2>2, <3>1, StillGrows DEF TypeOK
    <2> QED BY <2>1, <2>2
  <1>9. TypeOK'
    BY <1>1, <1>2, <1>3, <1>6, <1>8 DEF TypeOK, TargetTypes, targetVars, queueVars
  <1>10. \A p \in Plans : queue[p] # None =>
            batches'[queue[p].batch].live = batches[queue[p].batch].live
    <2>1. ASSUME NEW p \in Plans, queue[p] # None
          PROVE  queue[p].batch \in DOMAIN batches /\ queue[p].batch # at[s].batch
      <3>1. queue[p].batch \in DOMAIN batches /\ queue[p].batch \in Nat
        BY <2>1 DEF StagingInv, QueueSound, TypeOK, Rows
      <3>2. queue[p].batch # None
        BY <3>1, StagingAssumption
      <3> QED BY <1>7, <2>1, <3>1, <3>2
    <2> QED BY <1>8, <2>1
  <1>11. StagerSound(s)'
    <2>1. UNCHANGED <<queue, dispatches>>
      BY <1>2 DEF queueVars
    <2>2. at[s].batch # None => at[s].batch \in DOMAIN batches' /\ batches'[at[s].batch].doc = at[s].doc
      BY <1>7, <1>8 DEF Grow
    <2>3. at[s].dispatch # None =>
            /\ at[s].dispatch \in DOMAIN dispatches
            /\ dispatches[at[s].dispatch].doc = at[s].doc
            /\ dispatches[at[s].dispatch].binding = at[s].binding
            /\ ~at[s].kept => ~dispatches[at[s].dispatch].live
      BY <1>1, StagerFacts DEF StagerSound
    <2> QED BY <1>1, <1>4, <1>6, <1>7, <1>8, <2>1, <2>2, <2>3 DEF StagerSound
  <1>12. \A f \in failures' : FailureSound(f)'
    BY <1>2, <1>8, FailuresKept
  <1>13. UNCHANGED <<targetVars, queueVars, bundles>> /\ at'[s].batch = at[s].batch
    BY <1>2, <1>4, <1>6
  <1> QED BY <1>6, <1>8, <1>9, <1>10, <1>11, <1>12, <1>13, StagerStep

\* The queue's rows are written once, under an authority its stager alone knows.
LEMMA EnqueueSound ==
    ASSUME StagingInv, NEW s \in Stagers, Enqueue(s)
    PROVE  StagingInv'
  <1> DEFINE row == NewRow(s)
             new == Bundle(at[s].doc, at[s].batch, at[s].dispatch, at[s].binding)
  <1>1. /\ at[s].place = "enqueue" /\ at[s].doc \in Loadable /\ at[s].binding \in Bindings /\ TypeOK
        /\ at[s].batch # None /\ at[s].dispatch # None
    BY StagerFacts DEF Enqueue, In, StagingInv, StagerSound
  <1>2. /\ at[s].batch \in DOMAIN batches /\ batches[at[s].batch].doc = at[s].doc
        /\ \A p \in Plans : queue[p] # None => queue[p].batch # at[s].batch
        /\ \A r \in Stagers \ {s} : at[r].batch # at[s].batch
    BY <1>1, StagerFacts, StagerIssued
  <1>3. /\ at[s].batch \in Nat /\ at[s].dispatch \in Nat /\ at[s].dispatch \in DOMAIN dispatches
        /\ dispatches[at[s].dispatch].doc = at[s].doc
        /\ dispatches[at[s].dispatch].binding = at[s].binding
    BY <1>1, StagerFacts DEF StagerSound
  <1>4. /\ Plan(s) = Doc[at[s].doc].plan /\ Plan(s) \in Plans
        /\ \A m \in Ids(at[s].doc) : m \in Members /\ PlanOf[m] = Plan(s)
    BY <1>1, LoadableMembers DEF Plan
  <1>5. /\ row \in Rows /\ row.doc = at[s].doc /\ row.batch = at[s].batch /\ row.binding = at[s].binding
        /\ row = [doc |-> at[s].doc, batch |-> at[s].batch, binding |-> at[s].binding]
    BY <1>1, <1>3 DEF NewRow, Rows
  <1>6. row # None
    <2>1. row \in QueueRows
      BY <1>1, <1>3, <1>5 DEF QueueRows, Loadable
    <2> QED BY <2>1, StagingAssumption
  <1>7. new \in Bundles
    BY <1>1, <1>3 DEF Bundles, Bundle
  <1>8. BatchInForce(at[s].batch) /\ ~Collide(at[s].doc)
    BY <1>5 DEF Enqueue, Enqueueable
  <1>9. queue[Plan(s)] = None
    <2>1. queue[Plan(s)] # None => queue[Plan(s)].batch = row.batch
      BY <1>4, <1>5 DEF Enqueue, Enqueueable, Matches
    <2> QED BY <1>2, <1>4, <1>5, <2>1
  <1>10. /\ queue' = [queue EXCEPT ![Plan(s)] = row]
         /\ work' = [m \in Members |-> IF m \in Ids(at[s].doc) THEN "queued" ELSE work[m]]
         /\ bundles' = bundles \cup {new} /\ Rests(s)
         /\ UNCHANGED <<targetVars, authorityVars, resolving, failures, faults>>
    BY <1>9 DEF Enqueue
  <1>11. Idle.place = "idle" /\ Idle.batch = None /\ Idle.dispatch = None /\ Idle \in Callings
    BY DEF Idle, Callings, Places
  <1>12. at' \in [Stagers -> Callings] /\ at'[s] = Idle /\ \A r \in Stagers \ {s} : at'[r] = at[r]
    BY <1>10, <1>11, StagerFacts DEF Rests
  <1>13. /\ queue' \in [Plans -> Rows \cup {None}] /\ queue'[Plan(s)] = row
         /\ \A p \in Plans : p # Plan(s) => queue'[p] = queue[p]
         /\ \A p \in Plans : queue[p] # None => queue'[p] = queue[p]
    BY <1>1, <1>4, <1>5, <1>9, <1>10 DEF TypeOK
  <1>14. work' \in [Members -> WorkStates \cup {None}]
    BY <1>1, <1>10 DEF TypeOK, WorkStates
  <1>15. Grow
    BY <1>10, StillGrows DEF authorityVars
  <1>16. new.doc = at[s].doc /\ new.batch = at[s].batch /\ new.dispatch = at[s].dispatch /\ new.binding = at[s].binding
    BY DEF Bundle
  <1> HIDE DEF row, new
  <1>17. TypeOK'
    BY <1>1, <1>7, <1>10, <1>12, <1>13, <1>14 DEF TypeOK, TargetTypes, targetVars, authorityVars
  <1>18. ASSUME NEW t \in Targets PROVE OwnersAgree(t)' /\ RecordsAgree(t)'
    BY <1>10, <1>18, TargetsKept DEF StagingInv
  <1>19. ASSUME NEW m \in Members PROVE MemberSound(m)'
    <2>1. CASE m \in Ids(at[s].doc)
      <3>1. work'[m] = "queued" /\ "queued" # None
        BY <1>10, <2>1, StagingAssumption DEF WorkStates
      <3>2. queue'[PlanOf[m]] = row
        BY <1>4, <1>13, <2>1
      <3>3. m \notin resolving /\ resolving' = resolving
        <4>1. MemberSound(m) /\ queue[PlanOf[m]] = None
          BY <1>4, <1>9, <2>1 DEF StagingInv
        <4> QED BY <1>10, <4>1 DEF MemberSound
      <3> QED BY <1>5, <1>6, <2>1, <3>1, <3>2, <3>3 DEF MemberSound
    <2>2. CASE m \notin Ids(at[s].doc)
      <3>1. work'[m] = work[m] /\ PlanOf[m] \in Plans
        BY <1>10, <2>2 DEF Plans
      <3>2. MemberSound(m) /\ leases' = leases /\ resolving' = resolving
        BY <1>10 DEF StagingInv, targetVars
      <3> QED BY <1>13, <3>1, <3>2 DEF MemberSound, Held
    <2> QED BY <2>1, <2>2
  <1>20. ASSUME NEW p \in Plans PROVE QueueSound(p)'
    <2>1. UNCHANGED batches
      BY <1>10 DEF authorityVars
    <2>2. CASE p = Plan(s)
      BY <1>2, <1>4, <1>5, <1>8, <1>13, <2>1, <2>2 DEF QueueSound, BatchInForce
    <2>3. CASE p # Plan(s)
      <3>1. queue'[p] = queue[p] /\ QueueSound(p)
        BY <1>13, <2>3 DEF StagingInv
      <3> QED BY <1>10, <2>1, <3>1 DEF QueueSound
    <2> QED BY <2>2, <2>3
  <1>21. ASSUME NEW r \in Stagers PROVE StagerSound(r)'
    <2>1. CASE r = s
      BY <1>11, <1>12, <2>1 DEF StagerSound
    <2>2. CASE r # s
      <3>1. StagerSound(r) /\ at'[r] = at[r]
        BY <1>12, <2>2 DEF StagingInv
      <3>2. at[r].batch # None => \A p \in Plans : queue'[p] # None => queue'[p].batch # at[r].batch
        <4>1. ASSUME at[r].batch # None, NEW p \in Plans, queue'[p] # None
              PROVE  queue'[p].batch # at[r].batch
          <5>1. CASE p = Plan(s)
            BY <1>2, <1>5, <1>13, <2>2, <5>1
          <5>2. CASE p # Plan(s)
            BY <1>13, <3>1, <4>1, <5>2, StagerIssued
          <5> QED BY <5>1, <5>2
        <4> QED BY <4>1
      <3>3. at[r].batch # None => \A q \in Stagers \ {r} : at'[q].batch # at[r].batch
        <4>1. ASSUME at[r].batch # None, NEW q \in Stagers \ {r}
              PROVE  at'[q].batch # at[r].batch
          <5>1. CASE q = s
            BY <1>11, <1>12, <4>1, <5>1
          <5>2. CASE q # s
            BY <1>12, <3>1, <4>1, <5>2, StagerIssued
          <5> QED BY <5>1, <5>2
        <4> QED BY <4>1
      <3> QED BY <1>15, <3>1, <3>2, <3>3, StagerKept
    <2> QED BY <2>1, <2>2
  <1>22. \A f \in failures' : FailureSound(f)'
    BY <1>10, <1>15, FailuresKept
  <1>23. ASSUME NEW b \in bundles' PROVE BundleSound(b)'
    <2>1. CASE b \in bundles
      <3>1. b \in Bundles /\ BundleSound(b)
        BY <2>1 DEF StagingInv, TypeOK
      <3> QED BY <1>13, <1>15, <3>1, BundleKept
    <2>2. CASE b = new
      <3>1. UNCHANGED <<batches, dispatches>>
        BY <1>10 DEF authorityVars
      <3>2. queue'[Doc[b.doc].plan] = row
        BY <1>4, <1>13, <1>16, <2>2
      <3> QED BY <1>3, <1>5, <1>6, <1>16, <2>2, <3>1, <3>2 DEF BundleSound, Alike
    <2> QED BY <1>10, <2>1, <2>2
  <1> QED BY <1>17, <1>18, <1>19, <1>20, <1>21, <1>22, <1>23 DEF StagingInv

----------------------------------------------------------------------------
(* Workers, operators and hosts.                                           *)

\* A step of anybody but a stager.
LEMMA OthersStep ==
    ASSUME StagingInv, TypeOK', Grow, UNCHANGED <<queue, at, bundles, failures>>,
           \A t \in Targets : OwnersAgree(t)' /\ RecordsAgree(t)',
           \A m \in Members : MemberSound(m)',
           resolving \subseteq resolving',
           \A p \in Plans : queue[p] # None =>
               \/ batches'[queue[p].batch].live = batches[queue[p].batch].live
               \/ \E m \in resolving' : PlanOf[m] = p
    PROVE  StagingInv'
  <1>1. ASSUME NEW p \in Plans PROVE QueueSound(p)'
    BY <1>1, QueueKept DEF StagingInv
  <1>2. ASSUME NEW s \in Stagers PROVE StagerSound(s)'
    <2>1. StagerSound(s) /\ at'[s] = at[s] /\ queue' = queue /\ at' = at
      BY DEF StagingInv
    <2>2. at[s].batch # None =>
            /\ \A p \in Plans : queue'[p] # None => queue'[p].batch # at[s].batch
            /\ \A r \in Stagers \ {s} : at'[r].batch # at[s].batch
      BY <2>1, StagerIssued
    <2> QED BY <2>1, <2>2, StagerKept
  <1>3. \A f \in failures' : FailureSound(f)'
    BY FailuresKept
  <1>4. ASSUME NEW b \in bundles' PROVE BundleSound(b)'
    <2>1. b \in Bundles /\ BundleSound(b)
      BY <1>4 DEF StagingInv, TypeOK
    <2> QED BY <2>1, BundleKept
  <1> QED BY <1>1, <1>2, <1>3, <1>4 DEF StagingInv

\* A worker that ran a member leaves its row captured or ambiguous.
LEMMA WorkSound ==
    ASSUME StagingInv, NEW b \in bundles, NEW m \in Members, Work(b, m)
    PROVE  StagingInv'
  <1>1. UNCHANGED <<targetVars, authorityVars, queue, resolving, at, bundles, failures>> /\ work[m] = "queued"
    BY DEF Work
  <1>2. PICK to \in {"captured", "ambiguous"} : work' = [work EXCEPT ![m] = to]
    BY DEF Work
  <1>3. faults' \in Nat
    BY FaultCounts DEF Work, StagingInv, TypeOK
  <1>4. /\ work' \in [Members -> WorkStates \cup {None}] /\ work'[m] = to
        /\ \A n \in Members \ {m} : work'[n] = work[n]
    BY <1>2 DEF StagingInv, TypeOK, WorkStates
  <1>5. TypeOK'
    BY <1>1, <1>3, <1>4 DEF StagingInv, TypeOK, TargetTypes, targetVars, authorityVars
  <1>6. Grow /\ UNCHANGED batches
    BY <1>1, StillGrows DEF authorityVars
  <1>7. ASSUME NEW t \in Targets PROVE OwnersAgree(t)' /\ RecordsAgree(t)'
    BY <1>1, <1>7, TargetsKept DEF StagingInv
  <1>8. ASSUME NEW n \in Members PROVE MemberSound(n)'
    <2>1. to # None /\ work[m] # None
      BY <1>1, StagingAssumption DEF WorkStates
    <2>2. work'[n] = work[n] \/ (work[n] # None /\ work'[n] \notin {"queued", None})
      BY <1>4, <2>1
    <2> QED BY <1>1, <2>2, MemberKept DEF StagingInv
  <1> QED BY <1>1, <1>5, <1>6, <1>7, <1>8, OthersStep

\* An operator who begins to resolve a member revokes the batch authority of its plan,
LEMMA BeginResolveSound ==
    ASSUME StagingInv, NEW m \in Members, BeginResolve(m)
    PROVE  StagingInv'
  <1> DEFINE row == queue[PlanOf[m]]
  <1>1. /\ UNCHANGED <<targetVars, dispatches, epoch, expired, tier, queue, work, at, bundles, failures, faults>>
        /\ work[m] = "ambiguous" /\ resolving' = resolving \cup {m}
        /\ batches' = [batches EXCEPT ![row.batch].live = FALSE]
    BY DEF BeginResolve
  <1>2. PlanOf[m] \in Plans /\ work[m] # None
    BY <1>1, StagingAssumption DEF Plans, WorkStates
  <1>3. row # None /\ row \in Rows
    BY <1>2 DEF StagingInv, MemberSound, TypeOK
  <1>4. row.batch \in DOMAIN batches /\ batches[row.batch].doc = row.doc /\ Doc[row.doc].plan = PlanOf[m]
    BY <1>2, <1>3 DEF StagingInv, QueueSound
  <1>5. /\ batches' \in Seq(Batches) /\ Grow
        /\ \A i \in DOMAIN batches : i # row.batch => batches'[i] = batches[i]
    BY <1>1, <1>4, BatchRevoked DEF StagingInv
  <1>6. TypeOK'
    BY <1>1, <1>5 DEF StagingInv, TypeOK, TargetTypes, targetVars
  <1>7. ASSUME NEW t \in Targets PROVE OwnersAgree(t)' /\ RecordsAgree(t)'
    BY <1>1, <1>7, TargetsKept DEF StagingInv
  <1>8. ASSUME NEW n \in Members PROVE MemberSound(n)'
    <2>1. n \in resolving' => n \in resolving \/ work'[n] \notin {"queued", None}
      BY <1>1, <1>2
    <2> QED BY <1>1, <2>1, MemberKept DEF StagingInv
  <1>9. ASSUME NEW p \in Plans, queue[p] # None
        PROVE  \/ batches'[queue[p].batch].live = batches[queue[p].batch].live
               \/ \E n \in resolving' : PlanOf[n] = p
    <2>1. /\ queue[p].batch \in DOMAIN batches /\ batches[queue[p].batch].doc = queue[p].doc
          /\ Doc[queue[p].doc].plan = p
      BY <1>9 DEF StagingInv, QueueSound
    <2>2. CASE queue[p].batch = row.batch
      BY <1>1, <1>4, <2>1, <2>2
    <2>3. CASE queue[p].batch # row.batch
      BY <1>5, <2>1, <2>3
    <2> QED BY <2>2, <2>3
  <1> QED BY <1>1, <1>5, <1>6, <1>7, <1>8, <1>9, OthersStep

\* and then records what became of it.
LEMMA ResolveSound ==
    ASSUME StagingInv, NEW m \in Members, Resolve(m)
    PROVE  StagingInv'
  <1>1. UNCHANGED <<targetVars, authorityVars, queue, resolving, at, bundles, failures, faults>> /\ work[m] = "ambiguous"
    BY DEF Resolve
  <1>2. PICK to \in {"captured", "failed"} : work' = [work EXCEPT ![m] = to]
    BY DEF Resolve
  <1>3. /\ work' \in [Members -> WorkStates \cup {None}] /\ work'[m] = to
        /\ \A n \in Members \ {m} : work'[n] = work[n]
    BY <1>2 DEF StagingInv, TypeOK, WorkStates
  <1>4. TypeOK'
    BY <1>1, <1>3 DEF StagingInv, TypeOK, TargetTypes, targetVars, authorityVars
  <1>5. Grow /\ UNCHANGED batches
    BY <1>1, StillGrows DEF authorityVars
  <1>6. ASSUME NEW t \in Targets PROVE OwnersAgree(t)' /\ RecordsAgree(t)'
    BY <1>1, <1>6, TargetsKept DEF StagingInv
  <1>7. ASSUME NEW n \in Members PROVE MemberSound(n)'
    <2>1. to # None /\ work[m] # None
      BY <1>1, StagingAssumption DEF WorkStates
    <2>2. work'[n] = work[n] \/ (work[n] # None /\ work'[n] \notin {"queued", None})
      BY <1>3, <2>1
    <2> QED BY <1>1, <2>2, MemberKept DEF StagingInv
  <1> QED BY <1>1, <1>4, <1>5, <1>6, <1>7, OthersStep

\* Revocations, epochs, expiries and bindings of operators.
LEMMA OperateSound ==
    ASSUME StagingInv, Operate
    PROVE  StagingInv'
  <1>1. UNCHANGED <<targetVars, queueVars, at, bundles, failures>> /\ faults' \in Nat /\ TypeOK
    BY FaultCounts DEF Operate, StagingInv
  <1>2. /\ UNCHANGED batches /\ Grow /\ dispatches' \in Seq(Dispatches)
        /\ epoch' \in [no : Nat, open : BOOLEAN] /\ expired' \subseteq Plans /\ tier' \in Tiers
    <2>1. CASE \E i \in DOMAIN dispatches : /\ dispatches' = [dispatches EXCEPT ![i].live = FALSE]
                                            /\ UNCHANGED <<batches, epoch, expired, tier>>
      <3>1. PICK i \in DOMAIN dispatches : /\ dispatches' = [dispatches EXCEPT ![i].live = FALSE]
                                           /\ UNCHANGED <<batches, epoch, expired, tier>>
        BY <2>1
      <3>2. dispatches' \in Seq(Dispatches) /\ Grow
        BY <1>1, <3>1, DispatchRevoked
      <3> QED BY <1>1, <3>1, <3>2 DEF TypeOK
    <2>2. CASE \E open \in EpochOpen : /\ epoch' = [no |-> epoch.no + 1, open |-> open]
                                       /\ UNCHANGED <<batches, dispatches, expired, tier>>
      <3>1. Grow
        BY <2>2, StillGrows
      <3>2. epoch' \in [no : Nat, open : BOOLEAN]
        BY <1>1, <2>2, StagingAssumption DEF TypeOK
      <3> QED BY <1>1, <2>2, <3>1, <3>2 DEF TypeOK
    <2>3. CASE \E p \in Plans \ expired : expired' = expired \cup {p} /\ UNCHANGED <<batches, dispatches, epoch, tier>>
      BY <1>1, <2>3, StillGrows DEF TypeOK
    <2>4. CASE \E t \in Tiers \ {tier} : tier' = t /\ UNCHANGED <<batches, dispatches, epoch, expired>>
      BY <1>1, <2>4, StillGrows DEF TypeOK
    <2> QED BY <2>1, <2>2, <2>3, <2>4 DEF Operate
  <1>3. TypeOK'
    BY <1>1, <1>2 DEF TypeOK, TargetTypes, targetVars, queueVars
  <1>4. ASSUME NEW t \in Targets PROVE OwnersAgree(t)' /\ RecordsAgree(t)'
    BY <1>1, <1>4, TargetsKept DEF StagingInv
  <1>5. ASSUME NEW m \in Members PROVE MemberSound(m)'
    BY <1>1, <1>5, MemberKept DEF StagingInv, queueVars
  <1>6. UNCHANGED <<queue, work, resolving, at, bundles, failures>>
    BY <1>1 DEF queueVars
  <1> QED BY <1>2, <1>3, <1>4, <1>5, <1>6, OthersStep

\* A row in force that changes its state leaves the path to the same members or to fewer.
LEMMA LeaseMoves ==
    ASSUME TargetTypes, NEW m \in Members, NEW t \in Targets, m \in Owners(t),
           NEW v \in LeaseStates, leases' = [leases EXCEPT ![<<m, t>>] = v]
    PROVE  /\ leases' \in [Keys -> LeaseStates \cup {None}]
           /\ \A n \in Members, u \in Targets : Held(n, u)' => Held(n, u)
           /\ \A u \in Targets : Owners(u)' \subseteq Owners(u)
  <1>1. <<m, t>> \in Keys /\ leases \in [Keys -> LeaseStates \cup {None}] /\ Held(m, t) /\ leases[<<m, t>>] # "released"
    BY DEF TargetTypes, Owners, Held
  <1>2. /\ leases' \in [Keys -> LeaseStates \cup {None}]
        /\ \A k \in Keys : k # <<m, t>> => leases'[k] = leases[k]
    BY <1>1
  <1>3. ASSUME NEW n \in Members, NEW u \in Targets, Held(n, u)'
        PROVE  Held(n, u) /\ (leases'[<<n, u>>] # "released" => leases[<<n, u>>] # "released")
    <2>1. CASE <<n, u>> = <<m, t>>
      BY <1>1, <2>1
    <2>2. CASE <<n, u>> # <<m, t>>
      BY <1>2, <1>3, <2>2 DEF Held
    <2> QED BY <2>1, <2>2
  <1> QED BY <1>2, <1>3 DEF Owners

\* Fewer owners of a path still agree.
LEMMA FewerOwners ==
    ASSUME NEW t \in Targets, OwnersAgree(t), Owners(t)' \subseteq Owners(t)
    PROVE  OwnersAgree(t)'
  BY DEF OwnersAgree

\* What a host does to the leases and the files.
TargetsGood ==
    /\ TargetTypes
    /\ \A t \in Targets : OwnersAgree(t) /\ RecordsAgree(t)
    /\ \A m \in Members, t \in Targets : Held(m, t) => work[m] # None

\* A step that only takes leases away keeps the paths sound.
LEMMA FewerStep ==
    ASSUME TargetsGood, UNCHANGED <<files, materials, work>>,
           leases' \in [Keys -> LeaseStates \cup {None}],
           \A n \in Members, u \in Targets : Held(n, u)' => Held(n, u),
           \A u \in Targets : Owners(u)' \subseteq Owners(u)
    PROVE  TargetsGood'
  <1>1. ASSUME NEW t \in Targets PROVE OwnersAgree(t)' /\ RecordsAgree(t)'
    BY <1>1, FewerOwners DEF TargetsGood, RecordsAgree
  <1> QED BY <1>1 DEF TargetsGood, TargetTypes

\* acquire: the new owner of a path meets no other, or only of its own group.
LEMMA AcquireGood ==
    ASSUME TargetsGood, NEW m \in Members, NEW t \in Targets, work[m] # None, UNCHANGED work, Acquire(m, t)
    PROVE  TargetsGood'
  <1>1. <<m, t>> \in Keys /\ leases[<<m, t>>] = None /\ UNCHANGED <<files, materials>> /\ TargetTypes
    BY DEF Acquire, TargetsGood
  <1>2. CASE Lapsed(t) # {}
    <2>1. leases' = [k \in Keys |-> IF k \in Lapsed(t) \X {t} THEN "reconciliation_required" ELSE leases[k]]
      BY <1>2 DEF Acquire
    <2>2. leases' \in [Keys -> LeaseStates \cup {None}]
      BY <1>1, <2>1 DEF TargetTypes, LeaseStates
    <2>3. ASSUME NEW n \in Members, NEW u \in Targets, <<n, u>> \in Keys
          PROVE  \/ leases'[<<n, u>>] = leases[<<n, u>>]
                 \/ n \in Owners(u)
      <3>1. CASE <<n, u>> \in Lapsed(t) \X {t}
        BY <3>1 DEF Lapsed
      <3>2. CASE <<n, u>> \notin Lapsed(t) \X {t}
        BY <2>1, <2>3, <3>2
      <3> QED BY <3>1, <3>2
    <2>4. \A n \in Members, u \in Targets : Held(n, u)' => Held(n, u)
      BY <2>3 DEF Held, Owners
    <2>5. \A u \in Targets : Owners(u)' \subseteq Owners(u)
      BY <2>3, <2>4 DEF Held, Owners
    <2> QED BY <1>1, <2>2, <2>4, <2>5, FewerStep
  <1>3. CASE Lapsed(t) = {}
    <2>1. /\ leases' = [leases EXCEPT ![<<m, t>>] = "active"]
          /\ \A n \in Owners(t) : ~Rival(m, n, t)
      BY <1>3 DEF Acquire
    <2>2. /\ leases' \in [Keys -> LeaseStates \cup {None}]
          /\ \A k \in Keys : k # <<m, t>> => leases'[k] = leases[k]
      BY <1>1, <2>1 DEF TargetTypes, LeaseStates
    <2>3. ASSUME NEW n \in Members, NEW u \in Targets, <<n, u>> # <<m, t>>
          PROVE  (Held(n, u)' <=> Held(n, u)) /\ (n \in Owners(u)' <=> n \in Owners(u))
      <3>1. <<n, u>> \in Keys => leases'[<<n, u>>] = leases[<<n, u>>]
        BY <2>2, <2>3
      <3> QED BY <3>1 DEF Held, Owners
    <2>4. \A n \in Members, u \in Targets : Held(n, u)' => work'[n] # None
      <3>1. ASSUME NEW n \in Members, NEW u \in Targets, Held(n, u)'
            PROVE  work[n] # None
        <4>1. CASE <<n, u>> = <<m, t>>
          BY <4>1
        <4>2. CASE <<n, u>> # <<m, t>>
          BY <2>3, <3>1, <4>2 DEF TargetsGood
        <4> QED BY <4>1, <4>2
      <3> QED BY <3>1
    <2>5. ASSUME NEW u \in Targets PROVE OwnersAgree(u)'
      <3>1. CASE u # t
        <4>1. \A n \in Members : n \in Owners(u)' <=> n \in Owners(u)
          BY <2>3, <3>1
        <4>2. Owners(u)' \subseteq Owners(u)
          BY <4>1 DEF Owners
        <4> QED BY <4>2, FewerOwners DEF TargetsGood
      <3>2. CASE u = t
        <4>1. Owners(t)' \subseteq Owners(t) \cup {m}
          <5>1. \A n \in Members \ {m} : n \in Owners(t)' <=> n \in Owners(t)
            BY <2>3
          <5> QED BY <5>1 DEF Owners
        <4>2. ASSUME NEW n \in Owners(t)
              PROVE  /\ PlanOf[m] = PlanOf[n]
                     /\ ClaimOn(m, t).group = ClaimOn(n, t).group
                     /\ ClaimOn(m, t).group # None /\ ClaimOn(n, t).group # None
          <5>1. ~Rival(m, n, t)
            BY <2>1, <4>2
          <5> QED BY <5>1 DEF Rival
        <4>3. ASSUME NEW n \in Owners(t)', NEW o \in Owners(t)', n # o
              PROVE  /\ PlanOf[n] = PlanOf[o]
                     /\ ClaimOn(n, t).group = ClaimOn(o, t).group /\ ClaimOn(n, t).group # None
          <5>1. CASE n = m
            BY <4>1, <4>2, <4>3, <5>1
          <5>2. CASE o = m
            BY <4>1, <4>2, <4>3, <5>2
          <5>3. CASE n # m /\ o # m
            BY <4>1, <4>3, <5>3 DEF TargetsGood, OwnersAgree
          <5> QED BY <5>1, <5>2, <5>3
        <4> QED BY <3>2, <4>3 DEF OwnersAgree
      <3> QED BY <3>1, <3>2
    <2>6. \A u \in Targets : RecordsAgree(u)'
      BY <1>1 DEF TargetsGood, RecordsAgree
    <2> QED BY <1>1, <2>2, <2>4, <2>5, <2>6 DEF TargetsGood, TargetTypes
  <1> QED BY <1>2, <1>3

\* materialize_verbatim: who records the writing owns the path.
LEMMA MaterializeGood ==
    ASSUME TargetsGood, NEW m \in Members, NEW t \in Targets, NEW recorded \in BOOLEAN,
           UNCHANGED work, Materialize(m, t, recorded)
    PROVE  TargetsGood'
  <1>1. /\ TargetTypes /\ leases' = leases /\ files[t] \in {None, BytesOf[m]}
        /\ files' = [files EXCEPT ![t] = BytesOf[m]]
        /\ materials' \subseteq materials \cup {<<m, t>>} /\ materials \subseteq materials'
    BY DEF TargetsGood, Materialize, WriteOnce
  <1>2. files' \in [Targets -> {BytesOf[n] : n \in Members} \cup {None}] /\ materials' \subseteq Members \X Targets
    BY <1>1 DEF TargetTypes
  <1>3. files'[t] = BytesOf[m] /\ \A u \in Targets \ {t} : files'[u] = files[u]
    BY <1>1 DEF TargetTypes
  <1>4. ASSUME NEW u \in Targets PROVE RecordsAgree(u)'
    <2>1. ASSUME NEW n \in Members, <<n, u>> \in materials'
          PROVE  files'[u] = BytesOf[n]
      <3>1. CASE <<n, u>> = <<m, t>>
        BY <1>3, <3>1
      <3>2. CASE <<n, u>> # <<m, t>>
        <4>1. files[u] = BytesOf[n] /\ BytesOf[n] # None
          BY <1>1, <2>1, <3>2, ClaimsAssumption DEF TargetsGood, RecordsAgree
        <4> QED BY <1>1, <1>3, <4>1
      <3> QED BY <3>1, <3>2
    <2> QED BY <2>1 DEF RecordsAgree
  <1>5. ASSUME NEW u \in Targets PROVE OwnersAgree(u)'
    BY <1>1, <1>5 DEF TargetsGood, OwnersAgree, Owners, Held
  <1>6. \A n \in Members, u \in Targets : Held(n, u)' => work'[n] # None
    BY <1>1 DEF TargetsGood, Held
  <1> QED BY <1>1, <1>2, <1>4, <1>5, <1>6 DEF TargetsGood, TargetTypes

\* Leases lapse, are renewed, released and reconciled.
LEMMA MovesGood ==
    ASSUME TargetsGood, NEW m \in Members, NEW t \in Targets, UNCHANGED work,
           LeaseLapses(m, t) \/ Renew(m, t) \/ ReleaseTarget(m, t) \/ ReconcileRelease(m, t)
    PROVE  TargetsGood'
  <1>1. UNCHANGED <<files, materials>>
    BY DEF LeaseLapses, Renew, ReleaseTarget, ReconcileRelease
  <1>2. m \in Owners(t)
    BY DEF LeaseLapses, Renew, ReleaseTarget, ReconcileRelease, Owners
  <1>3. PICK v \in LeaseStates : leases' = [leases EXCEPT ![<<m, t>>] = v]
    BY DEF LeaseLapses, Renew, ReleaseTarget, ReconcileRelease, LeaseStates
  <1>4. /\ leases' \in [Keys -> LeaseStates \cup {None}]
        /\ \A n \in Members, u \in Targets : Held(n, u)' => Held(n, u)
        /\ \A u \in Targets : Owners(u)' \subseteq Owners(u)
    BY <1>2, <1>3, LeaseMoves DEF TargetsGood
  <1> QED BY <1>1, <1>4, FewerStep

\* What a host does keeps the staging sound.
LEMMA HostSound ==
    ASSUME StagingInv, NEW m \in Members, NEW t \in Targets, HostActs(m, t) \/ HostFails(m, t)
    PROVE  StagingInv'
  <1>1. UNCHANGED <<authorityVars, queueVars, at, bundles, failures>> /\ TypeOK
    BY DEF HostActs, HostFails, StagingInv
  <1>2. faults' \in Nat
    BY <1>1, FaultCounts DEF HostActs, HostFails, TypeOK
  <1>3. TargetsGood /\ UNCHANGED work
    BY <1>1 DEF StagingInv, TargetsGood, TypeOK, MemberSound, queueVars
  <1>4. TargetsGood'
    <2>1. CASE HostActs(m, t)
      <3>1. work[m] # None
        BY <2>1, StagingAssumption DEF HostActs, WorkStates
      <3> QED BY <1>3, <2>1, <3>1, AcquireGood, MovesGood, MaterializeGood DEF HostActs
    <2>2. CASE HostFails(m, t)
      BY <1>3, <2>2, MovesGood, MaterializeGood DEF HostFails
    <2> QED BY <2>1, <2>2
  <1>5. TypeOK'
    BY <1>1, <1>2, <1>4 DEF TypeOK, TargetsGood, authorityVars, queueVars
  <1>6. Grow /\ UNCHANGED <<queue, work, resolving, at, bundles, failures, batches>>
    BY <1>1, StillGrows DEF authorityVars, queueVars
  <1>7. ASSUME NEW n \in Members PROVE MemberSound(n)'
    BY <1>4, <1>6 DEF TargetsGood, MemberSound, StagingInv
  <1>8. \A u \in Targets : OwnersAgree(u)' /\ RecordsAgree(u)'
    BY <1>4 DEF TargetsGood
  <1> QED BY <1>5, <1>6, <1>7, <1>8, OthersStep

----------------------------------------------------------------------------
(* The theorems.                                                           *)

\* Every step keeps the invariant.
LEMMA NextSound ==
    ASSUME StagingInv, [Next]_vars
    PROVE  StagingInv'
  <1>1. CASE UNCHANGED vars
    <2>1. UNCHANGED <<targetVars, authorityVars, queueVars, at, bundles, failures, faults>>
      BY <1>1 DEF vars
    <2>2. UNCHANGED <<batches, dispatches, queue, work, resolving>> /\ Grow
      BY <2>1, StillGrows DEF authorityVars, queueVars
    <2>3. TypeOK'
      BY <2>1 DEF StagingInv, TypeOK, TargetTypes, targetVars, authorityVars, queueVars
    <2>4. \A t \in Targets : OwnersAgree(t)' /\ RecordsAgree(t)'
      BY <2>1, TargetsKept DEF StagingInv
    <2>5. \A m \in Members : MemberSound(m)'
      BY <2>1, <2>2, MemberKept DEF StagingInv
    <2> QED BY <2>1, <2>2, <2>3, <2>4, <2>5, OthersStep
  <1>2. ASSUME NEW s \in Stagers, NEW d \in Documents, NEW b \in Bindings, Stage(s, d, b) PROVE StagingInv'
    BY <1>2, StageSound
  <1>3. ASSUME NEW s \in Stagers,
               IssueBatch(s) \/ IssueDispatch(s) \/ Enqueue(s) \/ StagingRaises(s) \/ Crash(s)
        PROVE  StagingInv'
    BY <1>3, IssueBatchSound, IssueDispatchSound, EnqueueSound, RaisesSound, CrashSound
  <1>4. ASSUME NEW s \in Stagers, NEW ok \in BOOLEAN,
               UndoDispatch(s, ok) \/ UndoBatch(s, ok) \/ RecordFailure(s, ok)
        PROVE  StagingInv'
    BY <1>4, UndoDispatchSound, UndoBatchSound, RecordFailureSound
  <1>5. ASSUME NEW d \in Documents, Load(d) PROVE StagingInv'
    BY <1>5, ExistingSound DEF Load
  <1>6. ASSUME NEW b \in bundles, NEW m \in Members, Work(b, m) PROVE StagingInv'
    BY <1>6, WorkSound
  <1>7. ASSUME NEW m \in Members, BeginResolve(m) \/ Resolve(m) PROVE StagingInv'
    BY <1>7, BeginResolveSound, ResolveSound
  <1>8. CASE Operate
    BY <1>8, OperateSound
  <1>9. ASSUME NEW m \in Members, NEW t \in Targets, HostActs(m, t) \/ HostFails(m, t) PROVE StagingInv'
    BY <1>9, HostSound
  <1> QED BY <1>1, <1>2, <1>3, <1>4, <1>5, <1>6, <1>7, <1>8, <1>9 DEF Next

\* The invariant holds of every behaviour.
THEOREM StagingInvariant == Spec => []StagingInv
  <1>1. Init => StagingInv
    BY InitSound
  <1>2. StagingInv /\ [Next]_vars => StagingInv'
    BY NextSound
  <1> QED BY <1>1, <1>2, PTL DEF Spec

\* Stores, stagers, leases and files keep their types.
THEOREM StagingTypes == Spec => []TypeOK
  <1>1. StagingInv => TypeOK
    BY DEF StagingInv
  <1> QED BY <1>1, StagingInvariant, PTL

\* A path never has two owners who do not know of each other, no plan ever gives it to
\* two automatic members, and who recorded writing it wrote what is there (acquire,
\* _validate_collisions, materialize_verbatim).
THEOREM OwnersAreOne == Spec => []OneOwner
  <1>1. ASSUME StagingInv PROVE OneOwner
    <2>1. ASSUME NEW t \in Targets, NEW m \in Members, NEW n \in Members,
                 Held(m, t), Held(n, t), PlanOf[m] = PlanOf[n], m # n
          PROVE  ~(ClaimOn(m, t).automatic /\ ClaimOn(n, t).automatic)
      <3> DEFINE row == queue[PlanOf[m]]
      <3>1. row # None /\ m \in Ids(row.doc) /\ n \in Ids(row.doc)
        BY <1>1, <2>1 DEF StagingInv, MemberSound
      <3>2. ~Collide(row.doc)
        <4>1. PlanOf[m] \in Plans
          BY DEF Plans
        <4> QED BY <1>1, <3>1, <4>1 DEF StagingInv, QueueSound
      <3>3. <<m, t>> \in Keys /\ <<n, t>> \in Keys
        BY <2>1 DEF Held
      <3> HIDE DEF row
      <3> QED BY <2>1, <3>1, <3>2, <3>3, NoCollision
    <2>2. \A t \in Targets : OwnersAgree(t) /\ RecordsAgree(t)
      BY <1>1 DEF StagingInv
    <2> QED BY <2>1, <2>2 DEF OneOwner, OwnersAgree, RecordsAgree
  <1> QED BY <1>1, StagingInvariant, PTL

\* Every bundle handed out is the queue's: its batch authority and binding are those its
\* plan is queued under, for a manifest alike, and its dispatch authority is of its own
\* manifest and that binding (stage, _existing_bundle, enqueue).
THEOREM BundlesAreQueued == Spec => []BundleIsQueued
  <1>1. ASSUME StagingInv PROVE BundleIsQueued
    <2>1. ASSUME NEW b \in bundles
          PROVE  BundleSound(b) /\ batches[b.batch].doc = queue[Doc[b.doc].plan].doc
      <3>1. b \in Bundles /\ BundleSound(b)
        BY <1>1, <2>1 DEF StagingInv, TypeOK
      <3>2. Doc[b.doc].plan \in Plans
        BY <3>1, LoadableMembers DEF Bundles
      <3>3. QueueSound(Doc[b.doc].plan)
        BY <1>1, <3>2 DEF StagingInv
      <3> QED BY <3>1, <3>3 DEF BundleSound, QueueSound
    <2> QED BY <2>1 DEF BundleIsQueued, BundleSound
  <1> QED BY <1>1, StagingInvariant, PTL

\* What a failed staging names it has revoked, unless revoking failed, and a queued
\* plan's authority is revoked by the resolution of an ambiguous member alone, from its
\* first transaction on (stage's compensations, resolve_reconciliation).
THEOREM StagingsAreUndone == Spec => []StagingUndone
  <1>1. ASSUME StagingInv PROVE StagingUndone
    <2>1. ASSUME NEW f \in failures, ~f.kept
          PROVE  /\ f.batch # None => ~batches[f.batch].live
                 /\ f.dispatch # None => ~dispatches[f.dispatch].live
      BY <1>1, <2>1 DEF StagingInv, FailureSound
    <2>2. ASSUME NEW p \in Plans, queue[p] # None, ~batches[queue[p].batch].live
          PROVE  \E m \in resolving : PlanOf[m] = p /\ work[m] \notin {"queued", None}
      <3>1. PICK m \in resolving : PlanOf[m] = p
        BY <1>1, <2>2 DEF StagingInv, QueueSound
      <3>2. m \in Members
        BY <1>1, <3>1 DEF StagingInv, TypeOK
      <3> QED BY <1>1, <3>1, <3>2 DEF StagingInv, MemberSound
    <2> QED BY <2>1, <2>2 DEF StagingUndone
  <1> QED BY <1>1, StagingInvariant, PTL
================================================================================
