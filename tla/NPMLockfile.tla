----------------------------- MODULE NPMLockfile -----------------------------
(***************************************************************************)
(* What the resolver reads out of a package-lock.json: the nodes and edges *)
(* of a root's dependency graph.                                           *)
(*                                                                         *)
(* A lock file is a function from lock paths to packages.  A lock path is  *)
(* the sequence of package names between its "node_modules" segments, so   *)
(* node_modules/a/node_modules/b is <<"a", "b">> and the project itself is *)
(* <<>>.  An artifact is a pair of name and version.                       *)
(***************************************************************************)
EXTENDS Naturals, Sequences, FiniteSets

CONSTANT None

packageNameFromLockPath(path) == path[Len(path)]

\* The project at the top stands for the root that was asked for.  None
\* when the entry has no version.
artifactForLockPackage(root, path, pkg) ==
    CASE path = <<>> -> root
      [] path # <<>> /\ pkg.version = None -> None
      [] OTHER -> <<IF pkg.name # None THEN pkg.name ELSE packageNameFromLockPath(path),
                    pkg.version>>

\* The kind a dependency is declared as; the last list that names it wins.
dependencyEntries(pkg) ==
    [n \in pkg.prod \cup pkg.dev \cup pkg.peer \cup pkg.optional |->
        IF n \in pkg.optional THEN "optional"
        ELSE IF n \in pkg.peer THEN "peer"
        ELSE IF n \in pkg.dev THEN "dev" ELSE "prod"]

\* The nearest enclosing node_modules that has the package.
resolveDependencyPath(lock, parent, dep) ==
    LET has == {i \in 0..Len(parent) : Append(SubSeq(parent, 1, i), dep) \in DOMAIN lock}
    IN IF has = {} THEN None
       ELSE Append(SubSeq(parent, 1, CHOOSE i \in has : \A j \in has : j <= i), dep)

\* Lock paths of one name and version share a node.
buildDependencyGraphNodes(root, lock) ==
    [path \in DOMAIN lock |-> artifactForLockPackage(root, path, lock[path])]

\* A declared dependency that the lock file does not hold has no edge.
EdgesFrom(root, lock, path) ==
    LET nodeAt == buildDependencyGraphNodes(root, lock)
        entries == dependencyEntries(lock[path])
        at(n) == resolveDependencyPath(lock, path, n)
    IN {[parent |-> nodeAt[path], child |-> nodeAt[at(n)], type |-> entries[n]] :
            n \in {m \in DOMAIN entries : at(m) # None}}

buildDependencyGraphEdges(root, lock) == UNION {EdgesFrom(root, lock, path) : path \in DOMAIN lock}

LockNodes(root, lock) == {buildDependencyGraphNodes(root, lock)[path] : path \in DOMAIN lock}

\* The lock file cannot be read as a graph.
LockError(root, lock) == lock = <<>> \/ None \in LockNodes(root, lock)

Children(edges, node) == {e.child : e \in {f \in edges : f.parent = node}}

\* The reference for computeDepths: Within(edges, root, bound)[n] is what paths of
\* at most n edges reach.
Within(edges, root, bound) ==
    LET reached[n \in 0..bound] ==
            IF n = 0 THEN {root}
            ELSE reached[n - 1] \cup UNION {Children(edges, v) : v \in reached[n - 1]}
    IN reached

\* None when the node is not reachable.
Distance(edges, root, nodes, node) ==
    LET reached == Within(edges, root, Cardinality(nodes))
        at == {n \in 0..Cardinality(nodes) : node \in reached[n]}
    IN IF at = {} THEN None ELSE CHOOSE n \in at : \A m \in at : n <= m
=============================================================================
