---------------------------- MODULE SemanticCommit ----------------------------
(***************************************************************************)
(* The semantic working state (src/macr_runtime/semantic): one graph that  *)
(* agents attach to and change by patches, over the agent kernel.          *)
(*                                                                         *)
(* A patch is proposed against the head of the graph, compiled and stored; *)
(* it is committed later, possibly by another worker and after other       *)
(* commits.  The digest of a graph is that of its content, which may       *)
(* recur; revisions do not.  propose_patch reads the head and its records  *)
(* in three transactions: a torn read compiles as a stale head does.       *)
(***************************************************************************)
EXTENDS AgentKernel

CONSTANTS
    NodeIds,
    Versions,   \* the record a node id may stand for
    Genesis,    \* nodes of revision 1
    Patches,    \* proposal ids, each the proposal of one patch
    PatchOf,    \* the patch of a proposal
    MaxGraph    \* bound: revisions of the graph

ASSUME SemanticAssumption ==
    /\ None \notin Versions
    /\ Genesis \in [NodeIds -> Versions \cup {None}]
    /\ MaxGraph \in Nat
    /\ \A p \in Patches :
        /\ PatchOf[p].add \in [NodeIds -> Versions \cup {None}]
        /\ PatchOf[p].update \in [NodeIds -> Versions \cup {None}]
        /\ PatchOf[p].supersede \subseteq NodeIds \X Versions
        /\ PatchOf[p].relate \subseteq NodeIds \X NodeIds

\* Each run has a worker, which opened it.
ASSUME ServedAssumption ==
    IsFiniteSet(Agents) /\ \A a \in Agents : \E w \in Workers : Serves[w] = a

VARIABLES
    head,       \* semantic_graph_heads: revision and content
    revisions,  \* semantic_graph_revisions, immutable
    proposals,  \* semantic_patches
    receipts,   \* semantic_commit_receipts, by commit id
    attached    \* semantic_attach_receipts, by operation id

graphVars == <<head, revisions, proposals, receipts, attached>>
vars == <<kernelVars, graphVars>>

\* One commit id for each proposal a worker sends, one operation id for each attach.
CommitIds == Workers \X Patches

Contents == [nodes : [NodeIds -> Versions \cup {None}], relations : SUBSET (NodeIds \X NodeIds)]
Revisions == [content : Contents, parent : Nat, patch : Patches \cup {None}]
Proposals == [state : {"proposed", "validation_failed", "committed"},
              base : Nat, compiled : Contents \cup {None}]
Receipts == [revision : Nat, epoch : Nat, token : Nat]
Heads == [revision : Nat, content : Contents]

ASSUME NothingAssumption ==
    /\ None \notin Contents /\ None \notin Heads /\ None \notin Proposals
    /\ None \notin Receipts /\ None \notin Patches

First == [nodes |-> Genesis, relations |-> {}]

----------------------------------------------------------------------------
(* SemanticPatchCompiler.compile on content c.                             *)

Records(nodes) == {r \in NodeIds \X Versions : nodes[r[1]] = r[2]}
Over(nodes, new) == [n \in NodeIds |-> IF new[n] # None THEN new[n] ELSE nodes[n]]
Touched(new) == {n \in NodeIds : new[n] # None}

\* The records the added nodes and then the status updates take the place of.
Consumed(c, patch) ==
    {r \in Records(c.nodes) : r[1] \in Touched(patch.add)}
        \cup {r \in Records(Over(c.nodes, patch.add)) : r[1] \in Touched(patch.update)}

Compiled(c, patch) ==
    [nodes     |-> Over(Over(c.nodes, patch.add), patch.update),
     relations |-> c.relations \cup patch.relate]

Compiles(c, patch) ==
    /\ Touched(patch.update) \subseteq {r[1] : r \in Records(Over(c.nodes, patch.add))}
    /\ Consumed(c, patch) = patch.supersede
    /\ \A n \in Touched(patch.update) : patch.update[n] # Over(c.nodes, patch.add)[n]
    /\ patch.relate \cap c.relations = {}
    /\ \A r \in patch.relate : {r[1], r[2]} \subseteq Touched(Compiled(c, patch).nodes)

----------------------------------------------------------------------------

(* The graph exists, and each run has come as far as this in the kernel: it *)
(* was admitted, acquired by the first of its workers and activated.        *)

FirstWorker == CHOOSE f \in [Agents -> Workers] : \A a \in Agents : Serves[f[a]] = a
FirstToken == CHOOSE f \in [Agents -> 1..Cardinality(Agents)] :
                 \A a, b \in Agents : f[a] = f[b] => a = b
Active == [state |-> "active", revision |-> 4, epoch |-> 1, binding |-> None]
Opened(a) ==
    LET by == OwnerOf[FirstWorker[a]]
        At(n, state, epoch) ==
            [state |-> state, revision |-> n, epoch |-> epoch, binding |-> None] IN
    <<NewEvent("created", At(1, "created", 0), None, None),
      NewEvent("moved", At(2, "admitted", 0), None, by),
      NewEvent("acquired", At(3, "admitted", 1), None, by),
      NewEvent("moved", Active, None, by)>>

Init ==
    /\ run = [a \in Agents |-> Active]
    /\ events = [a \in Agents |-> Opened(a)]
    /\ lease = [a \in Agents |-> [owner |-> OwnerOf[FirstWorker[a]], token |-> FirstToken[a],
                                  epoch |-> 1, expires |-> Ttl]]
    /\ fencing = Cardinality(Agents)
    /\ time = 0
    /\ know = [w \in Workers |->
                  IF w = FirstWorker[Serves[w]]
                  THEN [revision |-> 4, epoch |-> 1, now |-> 0,
                        permit |-> [token |-> FirstToken[Serves[w]], epoch |-> 1]]
                  ELSE Ignorant]
    /\ head = [revision |-> 1, content |-> First]
    /\ revisions = <<[content |-> First, parent |-> 0, patch |-> None]>>
    /\ proposals = [p \in Patches |-> None]
    /\ receipts = [c \in CommitIds |-> None]
    /\ attached = [w \in Workers |-> None]

\* save_proposal: an equal earlier proposal is returned and another one of the same
\* id conflicts; either way nothing changes.
SaveProposal(p, record) ==
    /\ proposals[p] = None
    /\ proposals' = [proposals EXCEPT ![p] = record]

\* propose_patch, for a proposal written against the head, or (stale) against one
\* that moved before or while it was read.
Propose(p, stale) ==
    /\ head # None
    /\ SaveProposal(p,
         IF ~stale /\ Compiles(head.content, PatchOf[p])
         THEN [state |-> "proposed", base |-> head.revision,
               compiled |-> Compiled(head.content, PatchOf[p])]
         ELSE [state |-> "validation_failed", base |-> 0, compiled |-> None])
    /\ UNCHANGED <<kernelVars, head, revisions, receipts, attached>>

\* _validate_agent
ValidAgent(w) ==
    /\ Expected(w)
    /\ run[Serves[w]].state = "active"
    /\ Presents(w) /\ Unexpired(w)

\* The binding event, with the compare-and-set of the agent's row.
Bind(w, revision) ==
    LET new == [Successor(Serves[w]) EXCEPT !.binding = revision] IN
    /\ Write(w, "bound", new)
    /\ Learns(w, new)
    /\ UNCHANGED <<lease, fencing, time>>

Receipt(w, revision) ==
    [revision |-> revision, epoch |-> know[w].epoch, token |-> know[w].permit.token]

\* A repeated operation id returns its receipt and changes nothing.
AttachGraph(w, revision) ==
    /\ attached[w] = None
    /\ ValidAgent(w)
    /\ head # None /\ head.revision = revision
    /\ run[Serves[w]].binding = None
    /\ Bind(w, revision)
    /\ attached' = [attached EXCEPT ![w] = Receipt(w, revision)]
    /\ UNCHANGED <<head, revisions, proposals, receipts>>

BaseIsHead_IfItCompiles(p) == head # None /\ Compiles(head.content, PatchOf[p])
\* The head is the base the proposal was compiled for, and compiles to the same.
BaseIsHead(p) ==
    /\ head # None
    /\ head.revision = proposals[p].base
    /\ Compiles(head.content, PatchOf[p])
    /\ Compiled(head.content, PatchOf[p]) = proposals[p].compiled
PinnedToHead(w) == run[Serves[w]].binding = head.revision
Pending(p) == proposals[p] # None /\ proposals[p].state = "proposed"

\* _write_compiled: the nodes, relations and links of the next revision, and its row.
WriteCompiled(p) ==
    revisions' = Append(revisions, [content |-> Compiled(head.content, PatchOf[p]),
                                    parent |-> head.revision, patch |-> p])

\* The proposal is closed and the receipt written, last.
Settle(w, p) ==
    /\ proposals' = [proposals EXCEPT ![p].state = "committed"]
    /\ receipts' = [receipts EXCEPT ![<<w, p>>] = Receipt(w, head.revision + 1)]

CommitPatch(w, p) ==
    /\ receipts[<<w, p>>] = None
    /\ know[w].permit # None
    /\ Len(revisions) < MaxGraph
    /\ ValidAgent(w)
    /\ Pending(p)
    /\ BaseIsHead(p)
    /\ PinnedToHead(w)
    /\ WriteCompiled(p)
    /\ head' = [revision |-> head.revision + 1, content |-> Compiled(head.content, PatchOf[p])]
    /\ Bind(w, head.revision + 1)
    /\ Settle(w, p)
    /\ UNCHANGED attached

\* The row of the head may be lost and is rebuilt from the last revision.
LoseHead ==
    /\ head # None
    /\ head' = None
    /\ UNCHANGED <<kernelVars, revisions, proposals, receipts, attached>>
RebuildGraphHead ==
    /\ head' = [revision |-> Len(revisions), content |-> revisions[Len(revisions)].content]
    /\ UNCHANGED <<kernelVars, revisions, proposals, receipts, attached>>

GraphNext ==
    \/ \E p \in Patches, stale \in BOOLEAN : Propose(p, stale)
    \/ \E w \in Workers, revision \in 1..Len(revisions) : AttachGraph(w, revision)
    \/ \E w \in Workers, p \in Patches : CommitPatch(w, p)
    \/ LoseHead
    \/ RebuildGraphHead

Next == (KernelNext /\ UNCHANGED graphVars) \/ GraphNext

Spec == Init /\ [][Next]_vars

----------------------------------------------------------------------------
(* Properties.                                                             *)

GraphTypeOK ==
    /\ head \in Heads \cup {None}
    /\ proposals \in [Patches -> Proposals \cup {None}]
    /\ receipts \in [CommitIds -> Receipts \cup {None}]
    /\ attached \in [Workers -> Receipts \cup {None}]
    /\ revisions \in Seq(Revisions)

\* The history of the graph is one line: each revision is its patch applied to
\* the revision the patch was written for, which is the one before it, and no
\* patch is in it twice; the head is its last (commit_patch, rebuild_graph_head).
GraphIsChain ==
    /\ head # None => head = [revision |-> Len(revisions), content |-> revisions[Len(revisions)].content]
    /\ \A i \in 2..Len(revisions) :
        LET r == revisions[i] IN
        /\ r.parent = i - 1 /\ proposals[r.patch].base = i - 1
        /\ proposals[r.patch].state = "committed"
        /\ r.content = Compiled(revisions[i - 1].content, PatchOf[r.patch])
        /\ \A j \in 2..Len(revisions) : revisions[j].patch = r.patch => j = i

Bounds(a) == {j \in DOMAIN events[a] : events[a][j].kind = "bound"}

\* An agent is bound once and then builds on every revision in turn: it never
\* commits over a revision of another agent that it was not bound to
\* (attach_graph, commit_patch: "AgentRun is not pinned to semantic commit base").
NoSkippedRevision ==
    \A a \in Agents : \A j \in Bounds(a) : LET e == events[a][j] IN
        /\ e.binding \in 1..Len(revisions)
        /\ e.from = IF \E i \in Bounds(a) : i < j THEN e.binding - 1 ELSE None

\* The graph moves one revision at a time, and so does what each agent is bound to.
RevisionsInOrder == GraphIsChain /\ NoSkippedRevision
=============================================================================
