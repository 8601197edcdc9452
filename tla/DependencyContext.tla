-------------------------- MODULE DependencyContext --------------------------
(***************************************************************************)
(* Dependency context of npm artifacts: who asks for it, where it comes    *)
(* from, and who reads the graphs behind it.  One tenant and one upstream. *)
(*                                                                         *)
(* The resolver turns a root's lock file into a graph; CompleteResolve     *)
(* stores graph and context summaries in one transaction.  Access requests *)
(* look a context up in the Valkey cache, then in the summaries, and ask   *)
(* for a graph when there is neither.  Install snapshots ask for graphs of *)
(* the roots they infer.  A reader of the management API loads a graph     *)
(* with three queries.  Claims and retries are those of                    *)
(* DependencyGraphQueue, reduced to the status of the root.                *)
(***************************************************************************)
EXTENDS NPMLockfile, SequencesExt

CONSTANTS Artifacts,        \* pairs of name and version
          Locks,            \* root -> the lock files npm may write for it
          ManifestDeps,     \* artifact -> names its manifest declares
          Snapshot,         \* the packages of the install snapshot, in order, without
                            \* duplicates and cut to snapshotMaxPackages
          Clients,
          Requested,        \* the artifacts clients ask for
          Concurrency       \* manifest lookups at a time

VARIABLES upstream,  \* whether the upstream's row exists
          status,    \* artifact -> status of its root row, or None
          graphs,    \* artifact -> stored graph, or None
          worker,    \* the resolver's job
          cache,     \* artifact -> cached context, or None
          req,       \* client -> its request
          snap,      \* the install snapshot
          reader     \* a GET of one graph

vars == <<upstream, status, graphs, worker, cache, req, snap, reader>>

NoJob == [pc |-> "idle", root |-> None, edges |-> {}, queue |-> <<>>, depth |-> <<>>]
NoRequest == [pc |-> "idle", artifact |-> None, found |-> None]
NoReader == [pc |-> "idle", root |-> None, status |-> None, was |-> None, nodes |-> {}, edges |-> {}]

Roots == DOMAIN Locks
Packages == {Snapshot[i] : i \in DOMAIN Snapshot}

Statuses == {"pending", "resolving", "failed", "complete"}
Kinds == {"prod", "dev", "peer", "optional"}
Contexts == [scope : {"direct", "transitive", "unknown"},
             types : SUBSET Kinds, graphs : SUBSET Artifacts]
Graphs == [depth : UNION {[nodes -> Nat \cup {None}] : nodes \in SUBSET Artifacts},
           edges : SUBSET [parent : Artifacts, child : Artifacts, type : Kinds]]

\* Artifacts holds every package of every lock file, lock files are finite,
\* and None is none of the values it stands beside.
ASSUME ContextAssumption ==
    /\ Concurrency \in Nat
    /\ Snapshot \in Seq(Artifacts)
    /\ IsFiniteSet(Roots) /\ Roots \subseteq Artifacts /\ Requested \subseteq Artifacts
    /\ \A r \in Roots : \A lock \in Locks[r] :
        /\ IsFiniteSet(DOMAIN lock) /\ \A path \in DOMAIN lock : Len(path) \in Nat
        /\ LockNodes(r, lock) \subseteq Artifacts \cup {None}
    /\ None \notin Nat \cup Statuses
    /\ None \notin Graphs /\ None \notin Contexts /\ None \notin Artifacts

-----------------------------------------------------------------------------
(* Contexts.  The context hash is a function of the other fields.          *)

NewUnknownDependencyContext == [scope |-> "unknown", types |-> {}, graphs |-> {}]

DependencyTypes(graph, node) == {e.type : e \in {f \in graph.edges : f.child = node}}

\* Only the root itself is direct.
dependencyContextForNode(root, graph, node) ==
    LET direct == graph.depth[node] = 0
        types == DependencyTypes(graph, node)
    IN [scope |-> IF direct THEN "direct" ELSE "transitive",
        types |-> IF direct /\ types = {} THEN {"prod"} ELSE types,
        graphs |-> {root}]

\* Mutant: conflicting evidence is not looked for.
BugmergeDependencyContexts(contexts) ==
    [scope |-> contexts[1].scope,
     types |-> UNION {contexts[i].types : i \in DOMAIN contexts},
     graphs |-> UNION {contexts[i].graphs : i \in DOMAIN contexts}]

\* Evidence that differs in scope from the first is a conflict.
mergeDependencyContexts(contexts) ==
    IF \E i \in DOMAIN contexts : contexts[i].scope \in {"unknown"} \cup
            ({"direct", "transitive"} \ {contexts[1].scope})
    THEN NewUnknownDependencyContext
    ELSE [scope |-> contexts[1].scope,
          types |-> UNION {contexts[i].types : i \in DOMAIN contexts},
          graphs |-> UNION {contexts[i].graphs : i \in DOMAIN contexts}]

\* The rows of dependency_context_summaries for an artifact.
Summaries(a) ==
    {dependencyContextForNode(r, graphs[r], a) :
        r \in {q \in Roots : graphs[q] # None /\ a \in DOMAIN graphs[q].depth}}

\* The query has no ORDER BY: the rows come in any order.  None when there
\* is no row.
LookupResults(a) ==
    IF Summaries(a) = {} THEN {None}
    ELSE {mergeDependencyContexts(rows) : rows \in SetToSeqs(Summaries(a))}

-----------------------------------------------------------------------------
(* The queue of roots.                                                     *)

\* INSERT ... ON CONFLICT DO NOTHING; the upstream is a foreign key.
EnqueueResolve(a) == [status EXCEPT ![a] = IF @ = None /\ upstream THEN "pending" ELSE @]

\* The roots of an upstream go with it, and with them (ON DELETE CASCADE)
\* their nodes, edges and summaries.  Another upstream has another id.
DeleteUpstream ==
    /\ upstream
    /\ upstream' = FALSE
    /\ status' = [a \in Artifacts |-> None]
    /\ graphs' = [a \in Artifacts |-> None]
    /\ UNCHANGED <<worker, cache, req, snap, reader>>

\* Mutant: a completed root is claimed again.
BugClaimNextResolveJob(r) ==
    /\ worker.pc = "idle"
    /\ status[r] \in {"pending", "failed", "complete"}
    /\ status' = [status EXCEPT ![r] = "resolving"]
    /\ worker' = [NoJob EXCEPT !.pc = "install", !.root = r]
    /\ UNCHANGED <<upstream, graphs, cache, req, snap, reader>>

ClaimNextResolveJob(r) ==
    /\ worker.pc = "idle"
    /\ status[r] \in {"pending", "failed"}
    /\ status' = [status EXCEPT ![r] = "resolving"]
    /\ worker' = [NoJob EXCEPT !.pc = "install", !.root = r]
    /\ UNCHANGED <<upstream, graphs, cache, req, snap, reader>>

\* npm (external) writes a lock file; what cannot be read fails the job.
ParsePackageLock ==
    LET r == worker.root IN
    /\ worker.pc = "install"
    /\ \E lock \in Locks[r] :
        worker' = IF LockError(r, lock) THEN [worker EXCEPT !.pc = "fail"]
                  ELSE [worker EXCEPT !.pc = "depths",
                            !.edges = buildDependencyGraphEdges(r, lock),
                            !.queue = <<r>>,
                            !.depth = [v \in LockNodes(r, lock) |-> IF v = r THEN 0 ELSE None]]
    /\ UNCHANGED <<upstream, status, graphs, cache, req, snap, reader>>

\* npm fails or runs into the timeout.
InstallFails ==
    /\ worker.pc = "install"
    /\ worker' = [worker EXCEPT !.pc = "fail"]
    /\ UNCHANGED <<upstream, status, graphs, cache, req, snap, reader>>

\* Mutant: depth first, and a node keeps the depth it got first.
BugcomputeDepths ==
    LET v == Head(worker.queue)
        unvisited == {c \in Children(worker.edges, v) : worker.depth[c] = None}
    IN
    /\ worker.pc = "depths"
    /\ worker.queue # <<>>
    /\ \/ /\ unvisited = {}
          /\ worker' = [worker EXCEPT !.queue = Tail(@)]
       \/ \E c \in unvisited :
            worker' = [worker EXCEPT !.queue = <<c>> \o @, !.depth[c] = worker.depth[v] + 1]
    /\ UNCHANGED <<upstream, status, graphs, cache, req, snap, reader>>

\* One node of the queue, passed over when it has no depth.  Its children
\* come in the order of the edges, which were collected from Go maps.
computeDepths ==
    LET v == Head(worker.queue)  d == worker.depth[v] + 1
        improved == {c \in Children(worker.edges, v) :
                        /\ v \in DOMAIN worker.depth /\ worker.depth[v] # None
                        /\ worker.depth[c] = None \/ d < worker.depth[c]}
    IN
    /\ worker.pc = "depths"
    /\ worker.queue # <<>>
    /\ \E order \in SetToSeqs(improved) :
        worker' = [worker EXCEPT
            !.queue = Tail(@) \o order,
            !.depth = [c \in DOMAIN @ |-> IF c \in improved THEN d ELSE @[c]]]
    /\ UNCHANGED <<upstream, status, graphs, cache, req, snap, reader>>

\* One transaction: clear, insert nodes, summaries and edges, mark complete.
\* A root that is gone is an error, and the job is dropped.
CompleteResolve ==
    /\ worker.pc = "depths"
    /\ worker.queue = <<>>
    /\ IF status[worker.root] = None THEN UNCHANGED <<graphs, status>>
       ELSE /\ graphs' = [graphs EXCEPT ![worker.root] =
                               [depth |-> worker.depth, edges |-> worker.edges]]
            /\ status' = [status EXCEPT ![worker.root] = "complete"]
    /\ worker' = NoJob
    /\ UNCHANGED <<upstream, cache, req, snap, reader>>

\* UPDATE: nothing when the root is gone.
FailResolve ==
    /\ worker.pc = "fail"
    /\ status' = [status EXCEPT ![worker.root] = IF @ = None THEN None ELSE "failed"]
    /\ worker' = NoJob
    /\ UNCHANGED <<upstream, graphs, cache, req, snap, reader>>

-----------------------------------------------------------------------------
(* Access requests: DependencyContextService.Resolve.                      *)

\* A hit answers the request; a miss and an error go on to the summaries.
lookupCachedContext(c, a, reachable) ==
    /\ req[c].pc = "idle"
    /\ req' = [req EXCEPT ![c] = IF cache[a] # None /\ reachable THEN NoRequest
                                 ELSE [NoRequest EXCEPT !.pc = "stored", !.artifact = a]]
    /\ UNCHANGED <<upstream, status, graphs, worker, cache, snap, reader>>

lookupStoredContext(c) ==
    /\ req[c].pc = "stored"
    /\ \E found \in LookupResults(req[c].artifact) :
        req' = [req EXCEPT ![c].pc = IF found # None THEN "cache" ELSE "enqueue",
                           ![c].found = found]
    /\ UNCHANGED <<upstream, status, graphs, worker, cache, snap, reader>>

\* The lookup fails: so does Resolve.
StoredLookupFails(c) ==
    /\ req[c].pc = "stored"
    /\ req' = [req EXCEPT ![c] = NoRequest]
    /\ UNCHANGED <<upstream, status, graphs, worker, cache, snap, reader>>

\* The write may fail; the answer is what was found either way.
cacheStoredContext(c, reachable) ==
    /\ req[c].pc = "cache"
    /\ cache' = IF reachable THEN [cache EXCEPT ![req[c].artifact] = req[c].found] ELSE cache
    /\ req' = [req EXCEPT ![c] = NoRequest]
    /\ UNCHANGED <<upstream, status, graphs, worker, snap, reader>>

\* Tarball requests do not enqueue, and the queue may be out of reach.
shouldEnqueueDependencyGraphRoot(kind) == kind # "npm_tarball"

enqueueDependencyGraphRoot(c, kind, reachable) ==
    /\ req[c].pc = "enqueue"
    /\ IF shouldEnqueueDependencyGraphRoot(kind) /\ reachable
       THEN status' = EnqueueResolve(req[c].artifact)
       ELSE UNCHANGED status
    /\ req' = [req EXCEPT ![c] = NoRequest]
    /\ UNCHANGED <<upstream, graphs, worker, cache, snap, reader>>

\* Mutant: written without a lifetime.
BugExpire(a) == FALSE /\ UNCHANGED vars

\* Every entry is written with dependencyContextCacheTTL.
Expire(a) ==
    /\ cache[a] # None
    /\ cache' = [cache EXCEPT ![a] = None]
    /\ UNCHANGED <<upstream, status, graphs, worker, req, snap, reader>>

-----------------------------------------------------------------------------
(* The install snapshot: NPMInstallSnapshotService.ProcessSnapshot, with   *)
(* the detached context of the audit handler.                              *)

handleAuditBulk ==
    /\ snap.pc = "new"
    /\ snap' = [snap EXCEPT !.pc = "collect"]
    /\ UNCHANGED <<upstream, status, graphs, worker, cache, req, reader>>

\* Mutant: no semaphore.
BugStartLookup ==
    /\ snap.pc = "collect"
    /\ ~snap.expired
    /\ snap.next <= Len(Snapshot)
    /\ snap' = [snap EXCEPT !.next = @ + 1, !.fetching = @ \cup {Snapshot[snap.next]}]
    /\ UNCHANGED <<upstream, status, graphs, worker, cache, req, reader>>

\* The next package, once a slot of the semaphore is free.
StartLookup ==
    /\ snap.pc = "collect"
    /\ ~snap.expired
    /\ snap.next <= Len(Snapshot)
    /\ Cardinality(snap.fetching) < Concurrency
    /\ snap' = [snap EXCEPT !.next = @ + 1, !.fetching = @ \cup {Snapshot[snap.next]}]
    /\ UNCHANGED <<upstream, status, graphs, worker, cache, req, reader>>

ListManifestDependencyNames(p, ok) ==
    /\ p \in snap.fetching
    /\ ok => ~snap.expired
    /\ snap' = [snap EXCEPT !.fetching = @ \ {p},
                            !.looked = IF ok THEN @ \cup {p} ELSE @,
                            !.dependedOn = IF ok THEN @ \cup ManifestDeps[p] ELSE @,
                            !.failures = IF ok THEN @ ELSE @ + 1]
    /\ UNCHANGED <<upstream, status, graphs, worker, cache, req, reader>>

InferredRoots == {p \in Packages : p[1] \notin snap.dependedOn}

\* Mutant: failed lookups are not a reason to skip.
BugUnreliable == FALSE

\* Lookups failed and every package came out as a root.
Unreliable ==
    snap.failures > 0 /\ Cardinality(Packages) > 1 /\ InferredRoots = Packages

ProcessSnapshot ==
    /\ snap.pc = "collect"
    /\ snap.expired \/ snap.next > Len(Snapshot)
    /\ snap.fetching = {}
    /\ snap' = [snap EXCEPT !.pc = IF Unreliable THEN "done" ELSE "enqueue",
                            !.roots = IF Unreliable THEN {} ELSE InferredRoots]
    /\ UNCHANGED <<upstream, status, graphs, worker, cache, req, reader>>

\* A call under an expired context fails, as any call may.
EnqueueRoot(p, ok) ==
    /\ snap.pc = "enqueue"
    /\ p \in snap.roots
    /\ ok => ~snap.expired /\ upstream
    /\ status' = IF ok THEN EnqueueResolve(p) ELSE status
    /\ snap' = [snap EXCEPT !.roots = @ \ {p}, !.enqueued = IF ok THEN @ \cup {p} ELSE @]
    /\ UNCHANGED <<upstream, graphs, worker, cache, req, reader>>

\* snapshotProcessTimeout.
ContextExpires ==
    /\ snap.pc \in {"collect", "enqueue"}
    /\ ~snap.expired
    /\ snap' = [snap EXCEPT !.expired = TRUE]
    /\ UNCHANGED <<upstream, status, graphs, worker, cache, req, reader>>

-----------------------------------------------------------------------------
(* The management API: GetSnapshot, one query per table.                   *)

GetSnapshot(r) ==
    /\ reader.pc = "idle"
    /\ status[r] # None
    /\ reader' = [NoReader EXCEPT !.pc = "nodes", !.root = r, !.status = status[r],
                            !.was = graphs[r]]   \* history
    /\ UNCHANGED <<upstream, status, graphs, worker, cache, req, snap>>

LoadNodes ==
    /\ reader.pc = "nodes"
    /\ reader' = [reader EXCEPT !.pc = "edges",
            !.nodes = IF graphs[reader.root] = None THEN {} ELSE DOMAIN graphs[reader.root].depth]
    /\ UNCHANGED <<upstream, status, graphs, worker, cache, req, snap>>

LoadEdges ==
    /\ reader.pc = "edges"
    /\ reader' = [reader EXCEPT !.pc = "answer",
            !.edges = IF graphs[reader.root] = None THEN {} ELSE graphs[reader.root].edges]
    /\ UNCHANGED <<upstream, status, graphs, worker, cache, req, snap>>

toDependencyGraphResponse ==
    /\ reader.pc = "answer"
    /\ reader' = NoReader
    /\ UNCHANGED <<upstream, status, graphs, worker, cache, req, snap>>

-----------------------------------------------------------------------------
Init ==
    /\ upstream = TRUE
    /\ status = [a \in Artifacts |-> None]
    /\ graphs = [a \in Artifacts |-> None]
    /\ worker = NoJob
    /\ cache = [a \in Requested |-> None]
    /\ req = [c \in Clients |-> NoRequest]
    /\ snap = [pc |-> "new", next |-> 1, fetching |-> {}, looked |-> {}, dependedOn |-> {},
               failures |-> 0, roots |-> {}, enqueued |-> {}, expired |-> FALSE]
    /\ reader = NoReader

Resolve(c) ==
    \/ \E a \in Requested, ok \in BOOLEAN : lookupCachedContext(c, a, ok)
    \/ lookupStoredContext(c)
    \/ StoredLookupFails(c)
    \/ \E ok \in BOOLEAN : cacheStoredContext(c, ok)
    \/ \E kind \in {"npm_metadata", "npm_tarball"}, ok \in BOOLEAN :
            enqueueDependencyGraphRoot(c, kind, ok)

ResolveJob ==
    \/ \E r \in Roots : ClaimNextResolveJob(r)
    \/ ParsePackageLock
    \/ InstallFails
    \/ computeDepths
    \/ CompleteResolve
    \/ FailResolve

InstallSnapshot ==
    \/ handleAuditBulk
    \/ StartLookup
    \/ \E p \in Packages, ok \in BOOLEAN : ListManifestDependencyNames(p, ok)
    \/ ProcessSnapshot
    \/ \E p \in Packages, ok \in BOOLEAN : EnqueueRoot(p, ok)
    \/ ContextExpires

ReadGraph ==
    \/ \E r \in Roots : GetSnapshot(r)
    \/ LoadNodes
    \/ LoadEdges
    \/ toDependencyGraphResponse

Next ==
    \/ \E c \in Clients : Resolve(c)
    \/ ResolveJob
    \/ InstallSnapshot
    \/ ReadGraph
    \/ \E a \in Requested : Expire(a)
    \/ DeleteUpstream

\* A request that has begun goes on, and Valkey expires what has a lifetime.
Fairness ==
    /\ \A c \in Clients : WF_vars(\/ lookupStoredContext(c)
                                  \/ StoredLookupFails(c)
                                  \/ \E ok \in BOOLEAN : cacheStoredContext(c, ok))
    /\ \A a \in Requested : WF_vars(Expire(a))

Spec == Init /\ [][Next]_vars /\ Fairness

-----------------------------------------------------------------------------
(* Properties.                                                             *)

\* Types; edges join nodes of their graph, and manifest lookups keep to the
\* semaphore.
TypeOK ==
    /\ status \in [Artifacts -> Statuses \cup {None}]
    /\ \A a \in Requested : cache[a] \in Contexts \cup {None}
    /\ \A a \in Artifacts : graphs[a] # None =>
            \A e \in graphs[a].edges : {e.parent, e.child} \subseteq DOMAIN graphs[a].depth
    /\ \A c \in Clients : req[c].pc = "cache" => req[c].found \in Contexts
    /\ Cardinality(snap.fetching) <= Concurrency
    /\ worker.pc # "idle" => status[worker.root] = IF upstream THEN "resolving" ELSE None

\* The stored depth of a node is its distance from the root, in whatever
\* order the edges were collected (computeDepths).
DepthsShortest ==
    \A r \in Roots : graphs[r] # None =>
        \A v \in DOMAIN graphs[r].depth :
            graphs[r].depth[v] = Distance(graphs[r].edges, r, DOMAIN graphs[r].depth, v)

\* The context of an artifact, and so the key under which its decision is
\* cached, does not depend on the order in which PostgreSQL returns the rows.
RowOrderIrrelevant == \A a \in Artifacts : Cardinality(LookupResults(a)) = 1

\* A snapshot never enqueues all of its packages on the strength of lookups
\* that failed or were not made, whenever its context expires.
SnapshotNeverFansOut ==
    Cardinality(Packages) > 1 /\ snap.enqueued = Packages => snap.looked = Packages

\* A graph that is reported as complete is reported as it was when its status
\* was read, although root, nodes and edges are read by separate queries.
\* Only a deletion of the upstream in between takes something away, and then
\* all edges, or all nodes and edges: no edge is reported without its nodes.
CompleteGraphsReadWhole ==
    reader.pc = "answer" /\ reader.status = "complete" =>
        \/ reader.nodes = DOMAIN reader.was.depth /\ reader.edges = reader.was.edges
        \/ /\ ~upstream
           /\ reader.nodes \in {{}, DOMAIN reader.was.depth} /\ reader.edges = {}

\* A cached context that new graphs contradict goes: from some time on the
\* cache says what the stored graphs say.
StaleContextsDisappear ==
    <>[](\A a \in Requested : cache[a] # None => cache[a] \in LookupResults(a))
=============================================================================
