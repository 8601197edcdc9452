----------------------- MODULE DependencyContext_proofs -----------------------
(***************************************************************************)
(* Stored graphs, contexts, install snapshots and graph readers, for any   *)
(* artifacts, lock files, snapshot and number of clients.                  *)
(***************************************************************************)
EXTENDS DependencyContext, FiniteSetTheorems, TLAPS

-----------------------------------------------------------------------------
(* Numbers and orderings.                                                  *)

\* Induction, as a fact about sets: a number outside S would leave a finite
\* set that the successor maps into a smaller one.
LEMMA Induction ==
    ASSUME NEW S, 0 \in S, \A n \in Nat : n \in S => n + 1 \in S
    PROVE  \A n \in Nat : n \in S
<1> SUFFICES ASSUME NEW n \in Nat, n \notin S
             PROVE  FALSE
    OBVIOUS
<1> DEFINE T == S \cap (0..n)
           U == T \ {0}
           successor == [x \in T |-> x + 1]
<1>1. IsFiniteSet(T)
    <2>1. IsFiniteSet(0..n)
        BY FS_Interval
    <2> QED BY <2>1, FS_Intersection
<1>2. successor \in [T -> U]
    <2> SUFFICES ASSUME NEW x \in T
                 PROVE  x + 1 \in U
        OBVIOUS
    <2>1. x \in Nat /\ x \in S /\ x <= n /\ x # n
        OBVIOUS
    <2>2. x + 1 \in S
        BY <2>1
    <2> QED BY <2>1, <2>2
<1>3. successor \in Injection(T, U)
    <2>1. \A x, y \in T : successor[x] = successor[y] => x = y
        OBVIOUS
    <2> QED BY <1>2, <2>1 DEF Injection, IsInjective
<1>4. IsFiniteSet(U) /\ Cardinality(U) = Cardinality(T) - 1
    <2>1. 0 \in T
        OBVIOUS
    <2> HIDE DEF T
    <2> QED BY <1>1, <2>1, FS_RemoveElement
<1>5. Cardinality(T) \in Nat
    BY <1>1, FS_CardinalityType
<1>6. Cardinality(T) <= Cardinality(U)
    <2> HIDE DEF successor, T, U
    <2> QED BY <1>3, <1>4, FS_Injection
<1> QED BY <1>4, <1>5, <1>6

\* A set of numbers with a bound has a greatest element.
LEMMA Greatest ==
    ASSUME NEW b \in Nat, NEW S \in SUBSET (0..b), S # {}
    PROVE  \E m \in S : \A k \in S : k <= m
<1> DEFINE P == {n \in Nat : \A T \in SUBSET (0..n) : T # {} => \E m \in T : \A k \in T : k <= m}
<1>1. 0 \in P
    <2> SUFFICES ASSUME NEW T \in SUBSET (0..0), T # {}
                 PROVE  \E m \in T : \A k \in T : k <= m
        OBVIOUS
    <2>1. \A k \in T : k = 0
        OBVIOUS
    <2>2. PICK m \in T : TRUE
        OBVIOUS
    <2> QED BY <2>1, <2>2
<1>2. ASSUME NEW n \in Nat, n \in P
      PROVE  n + 1 \in P
    <2> SUFFICES ASSUME NEW T \in SUBSET (0..(n + 1)), T # {}
                 PROVE  \E m \in T : \A k \in T : k <= m
        BY <1>2
    <2>1. CASE n + 1 \in T
        BY <2>1
    <2>2. CASE n + 1 \notin T
        <3>1. T \in SUBSET (0..n)
            BY <2>2
        <3> QED BY <3>1, <1>2
    <2> QED BY <2>1, <2>2
<1>3. b \in P
    <2> HIDE DEF P
    <2> QED BY <1>1, <1>2, Induction
<1> QED BY <1>3

\* What SetToSeqs enumerates: the finite set as a sequence of all its members.
LEMMA Orderings ==
    ASSUME NEW S, IsFiniteSet(S), NEW f \in SetToSeqs(S)
    PROVE  /\ f \in Seq(S) /\ Len(f) = Cardinality(S) /\ DOMAIN f = 1..Cardinality(S)
           /\ {f[i] : i \in DOMAIN f} = S
<1> DEFINE c == Cardinality(S)
<1>1. c \in Nat
    BY FS_CardinalityType
<1>2. f \in [1..c -> S] /\ \A i, j \in 1..c : i # j => f[i] # f[j]
    BY DEF SetToSeqs
<1>3. f \in Injection(1..c, S)
    BY <1>2 DEF Injection, IsInjective
<1>4. IsFiniteSet(1..c) /\ Cardinality(1..c) = c
    BY <1>1, FS_Interval
<1>5. f \in Surjection(1..c, S)
    <2> HIDE DEF c
    <2>1. c = Cardinality(S)
        BY DEF c
    <2> QED BY <1>3, <1>4, <2>1, FS_Injection
<1>6. \A s \in S : \E i \in 1..c : f[i] = s
    BY <1>5 DEF Surjection
<1>7. f \in Seq(S) /\ Len(f) = c
    BY <1>1, <1>2
<1> QED BY <1>1, <1>2, <1>6, <1>7

\* There is one.
LEMMA OrderingExists ==
    ASSUME NEW S, IsFiniteSet(S)
    PROVE  SetToSeqs(S) # {}
<1>1. ExistsBijection(1..Cardinality(S), S)
    BY FS_CardinalityType
<1>2. PICK f : f \in Bijection(1..Cardinality(S), S)
    BY <1>1 DEF ExistsBijection
<1>3. f \in SetToSeqs(S)
    BY <1>2 DEF Bijection, Injection, IsInjective, SetToSeqs
<1> QED BY <1>3

-----------------------------------------------------------------------------
(* Distances.                                                              *)

\* What a step along the edges reaches from the nodes in V.
Layer(edges, V) == UNION {Children(edges, u) : u \in V}

\* What paths of at most n edges reach.
Reach(edges, root, n) == Within(edges, root, n)[n]

\* The recursion that defines Within has a solution.
LEMMA WithinDef ==
    ASSUME NEW E, NEW r, NEW b \in Nat
    PROVE  Within(E, r, b) =
               [n \in 0..b |-> IF n = 0 THEN {r}
                               ELSE Within(E, r, b)[n - 1] \cup Layer(E, Within(E, r, b)[n - 1])]
<1> DEFINE G(f, n) == IF n = 0 THEN {r} ELSE f[n - 1] \cup Layer(E, f[n - 1])
           S == {k \in Nat : \E f : f = [n \in 0..k |-> G(f, n)]}
<1>1. 0 \in S
    <2> DEFINE f == [n \in 0..0 |-> {r}]
    <2>1. f = [n \in 0..0 |-> G(f, n)]
        OBVIOUS
    <2> QED BY <2>1
<1>2. ASSUME NEW k \in Nat, k \in S
      PROVE  k + 1 \in S
    <2>1. PICK f : f = [n \in 0..k |-> G(f, n)]
        BY <1>2
    <2> DEFINE g == [n \in 0..(k + 1) |-> IF n = k + 1 THEN f[k] \cup Layer(E, f[k]) ELSE f[n]]
    <2>2. g = [n \in 0..(k + 1) |-> G(g, n)]
        <3> SUFFICES ASSUME NEW n \in 0..(k + 1)
                     PROVE  g[n] = G(g, n)
            OBVIOUS
        <3>1. CASE n = 0
            BY <2>1, <3>1
        <3>2. CASE n = k + 1
            BY <3>2
        <3>3. CASE n # 0 /\ n # k + 1
            <4>1. n \in 0..k /\ n - 1 \in 0..k
                BY <3>3
            <4>2. g[n] = f[n] /\ g[n - 1] = f[n - 1]
                BY <3>3, <4>1
            <4>3. f[n] = G(f, n)
                BY <2>1, <4>1
            <4> QED BY <4>2, <4>3, <3>3
        <3> QED BY <3>1, <3>2, <3>3
    <2>3. \E h : h = [n \in 0..(k + 1) |-> G(h, n)]
        <3> HIDE DEF g
        <3> QED BY <2>2
    <2> QED BY <2>3
<1>3. b \in S
    <2> HIDE DEF S
    <2> QED BY <1>1, <1>2, Induction
<1>4. \E f : f = [n \in 0..b |-> G(f, n)]
    BY <1>3
<1>5. Within(E, r, b) =
        CHOOSE w : w = [n \in 0..b |-> IF n = 0 THEN {r}
                            ELSE w[n - 1] \cup UNION {Children(E, v) : v \in w[n - 1]}]
    BY DEF Within
<1> QED BY <1>4, <1>5 DEF Layer

\* The bound of Within does not matter below it.
LEMMA WithinIsReach ==
    ASSUME NEW E, NEW r, NEW b \in Nat, NEW n \in 0..b
    PROVE  Within(E, r, b)[n] = Reach(E, r, n)
<1> DEFINE S == {k \in Nat : \A c \in Nat : k <= c => Within(E, r, c)[k] = Within(E, r, k)[k]}
<1>1. 0 \in S
    <2> SUFFICES ASSUME NEW c \in Nat
                 PROVE  Within(E, r, c)[0] = Within(E, r, 0)[0]
        OBVIOUS
    <2>1. Within(E, r, c)[0] = {r}
        BY WithinDef
    <2>2. Within(E, r, 0)[0] = {r}
        BY WithinDef
    <2> QED BY <2>1, <2>2
<1>2. ASSUME NEW k \in Nat, k \in S
      PROVE  k + 1 \in S
    <2> DEFINE R == Within(E, r, k)[k]
    <2>1. ASSUME NEW c \in Nat, k + 1 <= c
          PROVE  Within(E, r, c)[k + 1] = R \cup Layer(E, R)
        <3>1. Within(E, r, c)[k] = R
            BY <1>2, <2>1
        <3>2. Within(E, r, c)[k + 1] = Within(E, r, c)[(k + 1) - 1]
                                         \cup Layer(E, Within(E, r, c)[(k + 1) - 1])
            <4>1. k + 1 \in 0..c /\ k + 1 # 0
                BY <2>1
            <4> DEFINE W == Within(E, r, c)
            <4>2. W = [m \in 0..c |-> IF m = 0 THEN {r} ELSE W[m - 1] \cup Layer(E, W[m - 1])]
                BY WithinDef
            <4> HIDE DEF W
            <4>3. W[k + 1] = W[(k + 1) - 1] \cup Layer(E, W[(k + 1) - 1])
                BY <4>1, <4>2
            <4> QED BY <4>3 DEF W
        <3>3. (k + 1) - 1 = k
            OBVIOUS
        <3> QED BY <3>1, <3>2, <3>3
    <2>2. Within(E, r, k + 1)[k + 1] = R \cup Layer(E, R)
        BY <2>1
    <2>3. \A c \in Nat : k + 1 <= c => Within(E, r, c)[k + 1] = Within(E, r, k + 1)[k + 1]
        <3> HIDE DEF R
        <3> QED BY <2>1, <2>2
    <2> QED BY <2>3
<1>3. n \in S
    <2> HIDE DEF S
    <2> QED BY <1>1, <1>2, Induction
<1> QED BY <1>3 DEF Reach

LEMMA ReachZero ==
    ASSUME NEW E, NEW r
    PROVE  Reach(E, r, 0) = {r}
BY WithinDef DEF Reach

LEMMA ReachNext ==
    ASSUME NEW E, NEW r, NEW n \in Nat
    PROVE  Reach(E, r, n + 1) = Reach(E, r, n) \cup Layer(E, Reach(E, r, n))
<1>1. Within(E, r, n + 1)[n + 1] = Within(E, r, n + 1)[(n + 1) - 1]
                                      \cup Layer(E, Within(E, r, n + 1)[(n + 1) - 1])
    <2>1. n + 1 \in 0..(n + 1) /\ n + 1 # 0 /\ n + 1 \in Nat
        OBVIOUS
    <2> QED BY <2>1, WithinDef
<1>2. (n + 1) - 1 = n
    OBVIOUS
<1>3. Within(E, r, n + 1)[n] = Reach(E, r, n)
    BY WithinIsReach
<1> QED BY <1>1, <1>2, <1>3 DEF Reach

\* Depths of the nodes of a graph.
IsDepth(E, D) ==
    /\ IsFiniteSet(DOMAIN D)
    /\ D \in [DOMAIN D -> Nat \cup {None}]
    /\ \A e \in E : e.parent \in DOMAIN D /\ e.child \in DOMAIN D

\* The children of u are no deeper than one below u.
Relaxed(E, D, u) == \A c \in Children(E, u) : D[c] # None /\ D[c] <= D[u] + 1

\* The invariant of computeDepths with the nodes in Q queued: a depth is the
\* length of a path, and only queued nodes may have children to improve.
DepthInv(E, root, D, Q) ==
    /\ root \in DOMAIN D => D[root] = 0
    /\ \A v \in DOMAIN D : D[v] # None => v \in Reach(E, root, D[v])
    /\ \A u \in DOMAIN D : D[u] # None /\ u \notin Q => Relaxed(E, D, u)

LEMMA NoneIsNoNumber == None \notin Nat
BY ContextAssumption

LEMMA ChildOf ==
    ASSUME NEW E, NEW D, IsDepth(E, D), NEW u, NEW c \in Children(E, u)
    PROVE  u \in DOMAIN D /\ c \in DOMAIN D
<1>1. PICK e \in E : e.parent = u /\ e.child = c
    BY DEF Children
<1> QED BY <1>1 DEF IsDepth

\* With an empty queue, no path is shorter than a depth.
LEMMA NoShorterPath ==
    ASSUME NEW E, NEW r, NEW D, IsDepth(E, D), DepthInv(E, r, D, {}), NEW n \in Nat
    PROVE  \A u \in DOMAIN D : u \in Reach(E, r, n) => D[u] # None /\ D[u] <= n
<1> DEFINE S == {k \in Nat : \A u \in DOMAIN D :
                    u \in Reach(E, r, k) => D[u] # None /\ D[u] <= k}
<1>1. 0 \in S
    <2> SUFFICES ASSUME NEW u \in DOMAIN D, u \in Reach(E, r, 0)
                 PROVE  D[u] # None /\ D[u] <= 0
        OBVIOUS
    <2>1. u = r
        BY ReachZero
    <2> QED BY <2>1, NoneIsNoNumber DEF DepthInv
<1>2. ASSUME NEW k \in Nat, k \in S
      PROVE  k + 1 \in S
    <2> SUFFICES ASSUME NEW u \in DOMAIN D, u \in Reach(E, r, k + 1)
                 PROVE  D[u] # None /\ D[u] <= k + 1
        OBVIOUS
    <2>1. D[u] \in Nat \cup {None}
        BY DEF IsDepth
    <2>2. CASE u \in Reach(E, r, k)
        BY <1>2, <2>1, <2>2
    <2>3. CASE u \in Layer(E, Reach(E, r, k))
        <3>1. PICK w \in Reach(E, r, k) : u \in Children(E, w)
            BY <2>3 DEF Layer
        <3>2. w \in DOMAIN D
            BY <3>1, ChildOf
        <3>3. D[w] # None /\ D[w] <= k
            BY <1>2, <3>2
        <3>4. D[w] \in Nat
            BY <3>2, <3>3 DEF IsDepth
        <3>5. D[u] # None /\ D[u] <= D[w] + 1
            BY <3>1, <3>2, <3>3 DEF DepthInv, Relaxed
        <3> QED BY <2>1, <3>3, <3>4, <3>5
    <2> QED BY <2>2, <2>3, ReachNext
<1>3. n \in S
    <2> HIDE DEF S
    <2> QED BY <1>1, <1>2, Induction
<1> QED BY <1>3

\* Every depth below one that occurs occurs too: the node before it on a path.
LEMMA DepthsAreDense ==
    ASSUME NEW E, NEW r, NEW D, IsDepth(E, D), DepthInv(E, r, D, {}),
           NEW v \in DOMAIN D, D[v] # None, NEW d \in 0..D[v]
    PROVE  \E u \in DOMAIN D : D[u] = d
<1>1. D[v] \in Nat
    BY DEF IsDepth
<1> DEFINE S == {k \in Nat : k <= D[v] => \E u \in DOMAIN D : D[u] = D[v] - k}
<1>2. 0 \in S
    BY <1>1
<1>3. ASSUME NEW k \in Nat, k \in S
      PROVE  k + 1 \in S
    <2> SUFFICES ASSUME k + 1 <= D[v]
                 PROVE  \E u \in DOMAIN D : D[u] = D[v] - (k + 1)
        OBVIOUS
    <2>1. PICK u \in DOMAIN D : D[u] = D[v] - k
        BY <1>1, <1>3
    <2> DEFINE m == D[v] - (k + 1)
    <2>2. m \in Nat /\ D[u] = m + 1
        BY <1>1, <2>1
    <2> HIDE DEF m
    <2>3. D[u] # None /\ u \in Reach(E, r, m + 1)
        <3>1. D[u] # None
            BY <2>2, NoneIsNoNumber
        <3> QED BY <2>2, <3>1 DEF DepthInv
    <2>4. u \notin Reach(E, r, m)
        BY <2>2, NoShorterPath
    <2>5. u \in Layer(E, Reach(E, r, m))
        BY <2>2, <2>3, <2>4, ReachNext
    <2>6. PICK w \in Reach(E, r, m) : u \in Children(E, w)
        BY <2>5 DEF Layer
    <2>7. w \in DOMAIN D
        BY <2>6, ChildOf
    <2>8. D[w] # None /\ D[w] <= m
        BY <2>2, <2>7, NoShorterPath
    <2>9. D[w] \in Nat
        BY <2>7, <2>8 DEF IsDepth
    <2>10. D[u] <= D[w] + 1
        BY <2>6, <2>7, <2>8 DEF DepthInv, Relaxed
    <2>11. D[w] = m
        BY <2>2, <2>8, <2>9, <2>10
    <2> QED BY <2>7, <2>11 DEF m
<1>4. \A k \in Nat : k \in S
    <2> HIDE DEF S
    <2> QED BY <1>2, <1>3, Induction
<1>5. D[v] - d \in Nat /\ D[v] - d <= D[v] /\ D[v] - (D[v] - d) = d
    BY <1>1
<1> QED BY <1>4, <1>5

\* So a depth is less than the number of nodes.
LEMMA DepthsAreBounded ==
    ASSUME NEW E, NEW r, NEW D, IsDepth(E, D), DepthInv(E, r, D, {}),
           NEW v \in DOMAIN D, D[v] # None
    PROVE  D[v] \in 0..Cardinality(DOMAIN D)
<1>1. D[v] \in Nat
    BY DEF IsDepth
<1> DEFINE at == [d \in 0..D[v] |-> CHOOSE u \in DOMAIN D : D[u] = d]
<1>2. \A d \in 0..D[v] : at[d] \in DOMAIN D /\ D[at[d]] = d
    BY DepthsAreDense
<1>3. at \in [0..D[v] -> DOMAIN D]
    BY <1>2
<1> HIDE DEF at
<1>4. at \in Injection(0..D[v], DOMAIN D)
    BY <1>2, <1>3 DEF Injection, IsInjective
<1>5. Cardinality(0..D[v]) <= Cardinality(DOMAIN D)
    BY <1>4, FS_Injection DEF IsDepth
<1>6. Cardinality(0..D[v]) = D[v] + 1
    BY <1>1, FS_Interval
<1>7. Cardinality(DOMAIN D) \in Nat
    BY FS_CardinalityType DEF IsDepth
<1> QED BY <1>1, <1>5, <1>6, <1>7

\* With an empty queue the depths are the distances.
LEMMA DepthsAreDistances ==
    ASSUME NEW E, NEW r, NEW D, IsDepth(E, D), DepthInv(E, r, D, {}), NEW v \in DOMAIN D
    PROVE  D[v] = Distance(E, r, DOMAIN D, v)
<1> DEFINE N == Cardinality(DOMAIN D)
           at == {n \in 0..N : v \in Within(E, r, N)[n]}
<1>1. N \in Nat
    BY FS_CardinalityType DEF IsDepth
<1>2. \A n \in 0..N : n \in at <=> v \in Reach(E, r, n)
    BY <1>1, WithinIsReach
<1>3. Distance(E, r, DOMAIN D, v) = IF at = {} THEN None ELSE CHOOSE n \in at : \A m \in at : n <= m
    BY DEF Distance
<1>4. at \subseteq 0..N
    OBVIOUS
<1>5. CASE D[v] = None
    <2>1. at = {}
        <3> SUFFICES ASSUME NEW n \in at
                     PROVE  FALSE
            OBVIOUS
        <3>1. n \in Nat /\ v \in Reach(E, r, n)
            BY <1>1, <1>2
        <3> QED BY <1>5, <3>1, NoShorterPath
    <2> QED BY <1>3, <1>5, <2>1
<1>6. CASE D[v] # None
    <2>1. D[v] \in 0..N /\ D[v] \in Nat
        BY <1>6, DepthsAreBounded DEF IsDepth
    <2>2. D[v] \in at
        BY <1>2, <1>6, <2>1 DEF DepthInv
    <2>3. \A m \in at : D[v] <= m
        <3> SUFFICES ASSUME NEW m \in at
                     PROVE  D[v] <= m
            OBVIOUS
        <3>1. m \in Nat /\ v \in Reach(E, r, m)
            BY <1>1, <1>2
        <3> QED BY <3>1, NoShorterPath
    <2> HIDE DEF at, N
    <2>4. \A n \in at : (\A m \in at : n <= m) => n = D[v]
        BY <1>1, <1>4, <2>1, <2>2, <2>3
    <2>5. (CHOOSE n \in at : \A m \in at : n <= m) = D[v]
        BY <2>2, <2>3, <2>4
    <2> QED BY <1>3, <2>2, <2>5
<1> QED BY <1>5, <1>6

\* The children that node v of the queue improves, and the depths after it.
Improved(E, D, v) ==
    {c \in Children(E, v) : /\ v \in DOMAIN D /\ D[v] # None
                            /\ D[c] = None \/ D[v] + 1 < D[c]}
Lowered(E, D, v) == [c \in DOMAIN D |-> IF c \in Improved(E, D, v) THEN D[v] + 1 ELSE D[c]]

\* One node of the queue.
LEMMA RelaxStep ==
    ASSUME NEW E, NEW r, NEW D, NEW Q, IsDepth(E, D), DepthInv(E, r, D, Q), NEW v,
           NEW Q2, Q \subseteq Q2 \cup {v}, Improved(E, D, v) \subseteq Q2
    PROVE  IsDepth(E, Lowered(E, D, v)) /\ DepthInv(E, r, Lowered(E, D, v), Q2)
<1> DEFINE improved == {c \in Children(E, v) : /\ v \in DOMAIN D /\ D[v] # None
                                               /\ D[c] = None \/ D[v] + 1 < D[c]}
           D2 == [c \in DOMAIN D |-> IF c \in improved THEN D[v] + 1 ELSE D[c]]
<1>0. improved \subseteq Q2 /\ D2 = Lowered(E, D, v)
    BY DEF Improved, Lowered
<1>1. DOMAIN D2 = DOMAIN D
    OBVIOUS
<1>2. \A u \in DOMAIN D : D[u] \in Nat \cup {None}
    BY DEF IsDepth
<1>3. \A c \in improved : D[v] \in Nat /\ v \in DOMAIN D /\ c \in Children(E, v)
    BY <1>2
<1>4. \A u \in DOMAIN D : D2[u] \in Nat \cup {None}
    BY <1>2, <1>3
<1>5. IsDepth(E, D2)
    BY <1>1, <1>4 DEF IsDepth
\* A depth never grows.
<1>6. \A u \in DOMAIN D : D[u] # None => D2[u] # None /\ D2[u] <= D[u]
    BY <1>2, <1>3, NoneIsNoNumber
<1>7. r \in DOMAIN D2 => D2[r] = 0
    <2> SUFFICES ASSUME r \in DOMAIN D
                 PROVE  D2[r] = 0
        BY <1>1
    <2>1. D[r] = 0
        BY DEF DepthInv
    <2>2. r \notin improved
        BY <1>3, <2>1, NoneIsNoNumber
    <2> QED BY <2>1, <2>2
<1>8. \A u \in DOMAIN D2 : D2[u] # None => u \in Reach(E, r, D2[u])
    <2> SUFFICES ASSUME NEW u \in DOMAIN D, D2[u] # None
                 PROVE  u \in Reach(E, r, D2[u])
        BY <1>1
    <2>1. CASE u \in improved
        <3>1. D2[u] = D[v] + 1 /\ D[v] \in Nat /\ v \in DOMAIN D /\ u \in Children(E, v)
            BY <1>3, <2>1
        <3>2. v \in Reach(E, r, D[v])
            BY <3>1, NoneIsNoNumber DEF DepthInv
        <3>3. u \in Layer(E, Reach(E, r, D[v]))
            BY <3>1, <3>2 DEF Layer
        <3>4. u \in Reach(E, r, D[v] + 1)
            BY <3>1, <3>3, ReachNext
        <3> QED BY <3>1, <3>4
    <2>2. CASE u \notin improved
        <3>1. D2[u] = D[u]
            BY <2>2
        <3> QED BY <3>1 DEF DepthInv
    <2> QED BY <2>1, <2>2
<1>9. \A u \in DOMAIN D2 : D2[u] # None /\ u \notin Q2 => Relaxed(E, D2, u)
    <2> SUFFICES ASSUME NEW u \in DOMAIN D, D2[u] # None, u \notin Q2, NEW c \in Children(E, u)
                 PROVE  D2[c] # None /\ D2[c] <= D2[u] + 1
        BY <1>1 DEF Relaxed
    <2>1. u \notin improved /\ D2[u] = D[u] /\ D[u] \in Nat
        BY <1>0, <1>2
    <2>2. c \in DOMAIN D
        BY ChildOf
    <2>3. D[c] \in Nat \cup {None} /\ D2[c] \in Nat \cup {None}
        BY <1>2, <1>4, <2>2
    <2>4. CASE u \in Q
        <3>1. u = v
            BY <2>4
        <3>2. CASE c \in improved
            BY <2>1, <2>2, <3>1, <3>2, NoneIsNoNumber
        <3>3. CASE c \notin improved
            <4>1. D[c] # None /\ ~(D[v] + 1 < D[c])
                BY <2>1, <3>1, <3>3, NoneIsNoNumber
            <4> QED BY <2>1, <2>2, <2>3, <3>1, <3>3, <4>1
        <3> QED BY <3>2, <3>3
    <2>5. CASE u \notin Q
        <3>1. D[c] # None /\ D[c] <= D[u] + 1
            BY <2>1, <2>5, NoneIsNoNumber DEF DepthInv, Relaxed
        <3>2. D2[c] # None /\ D2[c] <= D[c]
            BY <1>6, <2>2, <3>1
        <3> QED BY <2>1, <2>3, <3>1, <3>2
    <2> QED BY <2>4, <2>5
<1>10. DepthInv(E, r, D2, Q2)
    BY <1>7, <1>8, <1>9 DEF DepthInv
<1> HIDE DEF D2
<1> QED BY <1>0, <1>5, <1>10

-----------------------------------------------------------------------------
(* The inductive invariant.                                                *)

Elements(s) == {s[i] : i \in DOMAIN s}

\* Graphs that are stored have the distances from their root as depths, and
\* nothing is stored for an upstream that was deleted.
StoreInv ==
    /\ status \in [Artifacts -> Statuses \cup {None}]
    /\ graphs \in [Artifacts -> Graphs \cup {None}]
    /\ \A a \in Artifacts : graphs[a] # None =>
            /\ IsDepth(graphs[a].edges, graphs[a].depth)
            /\ DepthInv(graphs[a].edges, a, graphs[a].depth, {})
    /\ \A a \in Artifacts : status[a] = "complete" => graphs[a] # None
    /\ upstream \in BOOLEAN
    /\ ~upstream => \A a \in Artifacts : status[a] = None /\ graphs[a] = None

\* The job of the resolver, on its way there.
WorkerInv ==
    /\ worker = [pc |-> worker.pc, root |-> worker.root, edges |-> worker.edges,
                 queue |-> worker.queue, depth |-> worker.depth]
    /\ worker.pc \in {"idle", "install", "depths", "fail"}
    /\ worker.pc # "idle" => /\ worker.root \in Roots
                             /\ upstream => status[worker.root] = "resolving"
    /\ worker.pc = "depths" =>
            /\ [depth |-> worker.depth, edges |-> worker.edges] \in Graphs
            /\ IsDepth(worker.edges, worker.depth)
            /\ worker.queue \in Seq(Artifacts)
            /\ DepthInv(worker.edges, worker.root, worker.depth, Elements(worker.queue))

\* What a reader has loaded of a complete graph, as it was when the status was
\* read and, while the upstream exists, still is.
ReaderInv ==
    /\ reader = [pc |-> reader.pc, root |-> reader.root, status |-> reader.status,
                 was |-> reader.was, nodes |-> reader.nodes, edges |-> reader.edges]
    /\ reader.pc \in {"idle", "nodes", "edges", "answer"}
    /\ reader.pc # "idle" => reader.root \in Artifacts
    /\ reader.pc # "idle" /\ reader.status = "complete" /\ upstream =>
            status[reader.root] = "complete" /\ graphs[reader.root] = reader.was
    /\ reader.pc \in {"edges", "answer"} /\ reader.status = "complete" =>
            \/ reader.nodes = DOMAIN reader.was.depth
            \/ ~upstream /\ reader.nodes = {}
    /\ CompleteGraphsReadWhole

RequestInv ==
    /\ cache \in [Requested -> Contexts \cup {None}]
    /\ req \in [Clients -> [pc : {"idle", "stored", "cache", "enqueue"},
                            artifact : Requested \cup {None}, found : Contexts \cup {None}]]
    /\ \A c \in Clients : /\ req[c].pc # "idle" => req[c].artifact \in Requested
                          /\ req[c].pc = "cache" => req[c].found \in Contexts

SnapShape ==
    snap = [pc |-> snap.pc, next |-> snap.next, fetching |-> snap.fetching,
            looked |-> snap.looked, dependedOn |-> snap.dependedOn, failures |-> snap.failures,
            roots |-> snap.roots, enqueued |-> snap.enqueued, expired |-> snap.expired]

\* Until a lookup fails every package the loop has come to is looked up or
\* being looked up, and nothing is enqueued before the loop has come to all.
SnapInv ==
    /\ SnapShape
    /\ snap.pc \in {"new", "collect", "enqueue", "done"}
    /\ snap.next \in Nat \ {0} /\ snap.next <= Len(Snapshot) + 1
    /\ snap.failures \in Nat /\ snap.expired \in BOOLEAN
    /\ snap.looked \subseteq Packages /\ snap.fetching \subseteq Packages
    /\ IsFiniteSet(snap.fetching) /\ Cardinality(snap.fetching) <= Concurrency
    /\ snap.failures = 0 =>
            \A i \in 1..Len(Snapshot) : i < snap.next => Snapshot[i] \in snap.looked \cup snap.fetching
    /\ snap.pc # "collect" => snap.fetching = {}
    /\ snap.pc # "enqueue" => snap.enqueued = {}
    /\ snap.pc = "enqueue" => /\ snap.roots \cup snap.enqueued \subseteq InferredRoots
                              /\ ~Unreliable
                              /\ snap.expired \/ snap.next > Len(Snapshot)
    /\ snap.enqueued # {} => snap.next > Len(Snapshot)

ContextInv == StoreInv /\ WorkerInv /\ ReaderInv /\ RequestInv /\ SnapInv

-----------------------------------------------------------------------------
(* Lock files.                                                             *)

\* The nearest enclosing node_modules is in the lock file.
LEMMA ResolvedPathIsThere ==
    ASSUME NEW lock, NEW path, Len(path) \in Nat, NEW n, resolveDependencyPath(lock, path, n) # None
    PROVE  resolveDependencyPath(lock, path, n) \in DOMAIN lock
<1> DEFINE has == {i \in 0..Len(path) : Append(SubSeq(path, 1, i), n) \in DOMAIN lock}
           nearest == CHOOSE i \in has : \A j \in has : j <= i
<1>1. resolveDependencyPath(lock, path, n) =
        IF has = {} THEN None ELSE Append(SubSeq(path, 1, nearest), n)
    BY DEF resolveDependencyPath
<1>2. has # {} /\ resolveDependencyPath(lock, path, n) = Append(SubSeq(path, 1, nearest), n)
    <2> HIDE DEF has, nearest
    <2> QED BY <1>1
<1>3. has \in SUBSET (0..Len(path))
    OBVIOUS
<1>4. \E i \in has : \A j \in has : j <= i
    <2> HIDE DEF has
    <2> QED BY <1>2, <1>3, Greatest
<1>5. nearest \in has
    <2> HIDE DEF has
    <2> QED BY <1>4
<1>6. Append(SubSeq(path, 1, nearest), n) \in DOMAIN lock
    <2> HIDE DEF nearest
    <2> QED BY <1>5
<1> QED BY <1>2, <1>6

\* The edges of a lock file join its nodes.
LEMMA LockEdges ==
    ASSUME NEW r \in Roots, NEW lock \in Locks[r], NEW e \in buildDependencyGraphEdges(r, lock)
    PROVE  /\ e.parent \in LockNodes(r, lock) /\ e.child \in LockNodes(r, lock)
           /\ e.type \in Kinds
           /\ e = [parent |-> e.parent, child |-> e.child, type |-> e.type]
<1>1. PICK path \in DOMAIN lock : e \in EdgesFrom(r, lock, path)
    BY DEF buildDependencyGraphEdges
<1> DEFINE nodeAt == buildDependencyGraphNodes(r, lock)
           entries == dependencyEntries(lock[path])
           at(n) == resolveDependencyPath(lock, path, n)
<1>2. PICK n \in DOMAIN entries :
        at(n) # None /\ e = [parent |-> nodeAt[path], child |-> nodeAt[at(n)], type |-> entries[n]]
    BY <1>1 DEF EdgesFrom
<1>3. at(n) \in DOMAIN lock
    BY <1>2, ContextAssumption, ResolvedPathIsThere
<1>4. nodeAt[path] \in LockNodes(r, lock) /\ nodeAt[at(n)] \in LockNodes(r, lock)
    BY <1>3 DEF LockNodes
<1>5. entries[n] \in Kinds
    BY <1>2 DEF dependencyEntries, Kinds
<1> HIDE DEF nodeAt, entries, at
<1> QED BY <1>2, <1>4, <1>5

LEMMA LockNodesFinite ==
    ASSUME NEW r \in Roots, NEW lock \in Locks[r]
    PROVE  IsFiniteSet(LockNodes(r, lock))
<1> DEFINE nodeAt == buildDependencyGraphNodes(r, lock)
<1>1. IsFiniteSet(DOMAIN lock)
    BY ContextAssumption
<1>2. nodeAt \in [DOMAIN lock -> LockNodes(r, lock)]
    BY DEF LockNodes, buildDependencyGraphNodes
<1>3. \A v \in LockNodes(r, lock) : \E path \in DOMAIN lock : nodeAt[path] = v
    BY DEF LockNodes
<1>4. nodeAt \in Surjection(DOMAIN lock, LockNodes(r, lock))
    BY <1>2, <1>3 DEF Surjection
<1> HIDE DEF nodeAt
<1> QED BY <1>1, <1>4, FS_Surjection

\* A lock file that can be read starts a graph with the root queued.
LEMMA LockStartsGraph ==
    ASSUME NEW r \in Roots, NEW lock \in Locks[r], ~LockError(r, lock),
           NEW E, E = buildDependencyGraphEdges(r, lock),
           NEW D, D = [v \in LockNodes(r, lock) |-> IF v = r THEN 0 ELSE None]
    PROVE  /\ [depth |-> D, edges |-> E] \in Graphs
           /\ IsDepth(E, D)
           /\ DepthInv(E, r, D, {r})
<1>1. LockNodes(r, lock) \subseteq Artifacts
    BY ContextAssumption DEF LockError
<1>2. D \in [LockNodes(r, lock) -> Nat \cup {None}] /\ DOMAIN D = LockNodes(r, lock)
    OBVIOUS
<1>3. E \subseteq [parent : Artifacts, child : Artifacts, type : Kinds]
    <2> SUFFICES ASSUME NEW e \in E
                 PROVE  e \in [parent : Artifacts, child : Artifacts, type : Kinds]
        OBVIOUS
    <2> QED BY <1>1, LockEdges
<1>4. [depth |-> D, edges |-> E] \in Graphs
    <2>1. D \in UNION {[nodes -> Nat \cup {None}] : nodes \in SUBSET Artifacts}
        BY <1>1, <1>2
    <2> QED BY <1>3, <2>1 DEF Graphs
<1>5. IsDepth(E, D)
    BY <1>2, LockNodesFinite, LockEdges DEF IsDepth
<1>6. DepthInv(E, r, D, {r})
    <2>1. \A v \in DOMAIN D : D[v] # None => v = r /\ D[v] = 0
        BY <1>2
    <2>2. r \in Reach(E, r, 0)
        BY ReachZero
    <2> QED BY <1>2, <2>1, <2>2 DEF DepthInv
<1> QED BY <1>4, <1>5, <1>6

-----------------------------------------------------------------------------
(* The parts of the invariant that a step leaves alone.                    *)

LEMMA StoreFrame == StoreInv /\ UNCHANGED <<upstream, status, graphs>> => StoreInv'
BY DEF StoreInv

LEMMA WorkerFrame == WorkerInv /\ UNCHANGED <<upstream, status, worker>> => WorkerInv'
BY DEF WorkerInv

LEMMA ReaderFrame == ReaderInv /\ UNCHANGED <<upstream, status, graphs, reader>> => ReaderInv'
BY DEF ReaderInv, CompleteGraphsReadWhole

LEMMA RequestFrame == RequestInv /\ UNCHANGED <<cache, req>> => RequestInv'
BY DEF RequestInv

LEMMA SnapFrame == SnapInv /\ UNCHANGED snap => SnapInv'
BY DEF SnapInv, SnapShape, InferredRoots, Unreliable

\* A row that is enqueued is new: complete rows and the resolver's stay.
LEMMA EnqueueStep ==
    ASSUME StoreInv, WorkerInv, ReaderInv, NEW a \in Artifacts, status' = EnqueueResolve(a),
           UNCHANGED <<upstream, graphs, worker, reader>>
    PROVE  StoreInv' /\ WorkerInv' /\ ReaderInv'
<1>1. /\ status' \in [Artifacts -> Statuses \cup {None}]
      /\ \A b \in Artifacts : status'[b] = status[b] \/ (status[b] = None /\ status'[b] = "pending")
    BY DEF StoreInv, EnqueueResolve, Statuses
<1>2. \A b \in Artifacts : /\ status[b] = "resolving" => status'[b] = "resolving"
                           /\ status[b] = "complete" <=> status'[b] = "complete"
    BY <1>1, ContextAssumption DEF Statuses
<1>3. StoreInv'
    <2>1. ~upstream => \A b \in Artifacts : status'[b] = None
        BY DEF StoreInv, EnqueueResolve
    <2> QED BY <1>1, <1>2, <2>1 DEF StoreInv
<1>4. WorkerInv'
    BY <1>2, ContextAssumption DEF WorkerInv
<1>5. ReaderInv'
    BY <1>2 DEF ReaderInv, CompleteGraphsReadWhole
<1> QED BY <1>3, <1>4, <1>5

-----------------------------------------------------------------------------
(* The resolver.                                                           *)

\* The queue without its head and with all of I at its end.
LEMMA QueueStep ==
    ASSUME NEW A, NEW Q \in Seq(A), Q # <<>>, NEW I \in SUBSET A,
           NEW order \in Seq(I), Elements(order) = I
    PROVE  /\ Tail(Q) \o order \in Seq(A)
           /\ Elements(Q) \subseteq Elements(Tail(Q) \o order) \cup {Head(Q)}
           /\ I \subseteq Elements(Tail(Q) \o order)
<1> DEFINE L == Tail(Q)
           T == L \o order
<1>1. /\ L \in Seq(A) /\ Len(L) = Len(Q) - 1 /\ Len(Q) \in Nat /\ Len(Q) # 0
      /\ \A k \in 1..Len(L) : L[k] = Q[k + 1]
    OBVIOUS
<1>2. order \in Seq(A) /\ Len(order) \in Nat
    OBVIOUS
<1> HIDE DEF L
<1>3. /\ T \in Seq(A) /\ Len(T) = Len(L) + Len(order) /\ DOMAIN T = 1..Len(T)
      /\ \A k \in 1..Len(L) : T[k] = L[k]
      /\ \A k \in 1..Len(order) : T[Len(L) + k] = order[k]
    <2>1. L \in Seq(A)
        BY <1>1
    <2>2. T \in Seq(A) /\ Len(T) = Len(L) + Len(order) /\ DOMAIN T = 1..Len(T)
        BY <1>2, <2>1
    <2>3. \A k \in 1..Len(L) : T[k] = L[k]
        BY <1>2, <2>1
    <2>4. ASSUME NEW k \in 1..Len(order)
          PROVE  T[Len(L) + k] = order[k]
        BY <1>2, <2>1
    <2> QED BY <2>2, <2>3, <2>4
<1> HIDE DEF T
<1>4. ASSUME NEW x \in Elements(Q), x # Head(Q)
      PROVE  x \in Elements(T)
    <2>1. PICK i \in 1..Len(Q) : x = Q[i]
        BY DEF Elements
    <2>2. i # 1
        BY <1>4, <2>1
    <2>3. i - 1 \in 1..Len(L) /\ L[i - 1] = x
        BY <1>1, <2>1, <2>2
    <2>4. i - 1 \in DOMAIN T /\ T[i - 1] = x
        BY <1>1, <1>2, <1>3, <2>3
    <2> QED BY <2>4 DEF Elements
<1>5. ASSUME NEW x \in I
      PROVE  x \in Elements(T)
    <2>1. PICK i \in 1..Len(order) : x = order[i]
        BY DEF Elements
    <2>2. Len(L) + i \in DOMAIN T /\ T[Len(L) + i] = x
        BY <1>1, <1>2, <1>3, <2>1
    <2> QED BY <2>2 DEF Elements
<1> QED BY <1>3, <1>4, <1>5 DEF T, L

LEMMA ClaimStep ==
    ASSUME ContextInv, NEW r \in Roots, ClaimNextResolveJob(r)
    PROVE  ContextInv'
<1>1. r \in Artifacts /\ status[r] # "complete" /\ status[r] # None /\ upstream
    BY ContextAssumption DEF ClaimNextResolveJob, ContextInv, StoreInv, Statuses
<1>2. StoreInv'
    BY <1>1 DEF ContextInv, StoreInv, ClaimNextResolveJob, Statuses
<1>3. WorkerInv'
    BY <1>1 DEF ContextInv, StoreInv, WorkerInv, ClaimNextResolveJob, NoJob
<1>4. ReaderInv'
    <2>1. \A a \in Artifacts : status[a] = "complete" => status'[a] = "complete"
        BY <1>1 DEF ContextInv, StoreInv, ClaimNextResolveJob
    <2> QED BY <2>1 DEF ContextInv, ReaderInv, CompleteGraphsReadWhole, ClaimNextResolveJob
<1>5. RequestInv' /\ SnapInv'
    BY RequestFrame, SnapFrame DEF ContextInv, ClaimNextResolveJob
<1> QED BY <1>2, <1>3, <1>4, <1>5 DEF ContextInv

\* A step that changes only the resolver's job.
LEMMA JobFrame ==
    ASSUME ContextInv, WorkerInv', UNCHANGED <<upstream, status, graphs, cache, req, snap, reader>>
    PROVE  ContextInv'
BY StoreFrame, ReaderFrame, RequestFrame, SnapFrame DEF ContextInv

LEMMA ParseStep ==
    ASSUME ContextInv, ParsePackageLock
    PROVE  ContextInv'
<1> DEFINE r == worker.root
<1>1. r \in Roots /\ (upstream => status[r] = "resolving") /\ r \in Artifacts
    BY ContextAssumption DEF ContextInv, WorkerInv, ParsePackageLock
<1>2. PICK lock \in Locks[r] :
        worker' = IF LockError(r, lock) THEN [worker EXCEPT !.pc = "fail"]
                  ELSE [worker EXCEPT !.pc = "depths",
                            !.edges = buildDependencyGraphEdges(r, lock),
                            !.queue = <<r>>,
                            !.depth = [v \in LockNodes(r, lock) |-> IF v = r THEN 0 ELSE None]]
    BY DEF ParsePackageLock
<1>3. worker = [pc |-> worker.pc, root |-> r, edges |-> worker.edges,
                queue |-> worker.queue, depth |-> worker.depth]
    BY DEF ContextInv, WorkerInv
<1>4. UNCHANGED <<upstream, status, graphs, cache, req, snap, reader>>
    BY DEF ParsePackageLock
<1>5. CASE LockError(r, lock)
    <2>1. worker' = [pc |-> "fail", root |-> r, edges |-> worker.edges,
                     queue |-> worker.queue, depth |-> worker.depth]
        BY <1>2, <1>3, <1>5
    <2> HIDE DEF r
    <2>2. WorkerInv'
        BY <1>1, <1>4, <2>1 DEF WorkerInv
    <2> QED BY <1>4, <2>2, JobFrame
<1>6. CASE ~LockError(r, lock)
    <2> DEFINE E == buildDependencyGraphEdges(r, lock)
               D == [v \in LockNodes(r, lock) |-> IF v = r THEN 0 ELSE None]
    <2>1. worker' = [pc |-> "depths", root |-> r, edges |-> E, queue |-> <<r>>, depth |-> D]
        BY <1>2, <1>3, <1>6
    <2>2. /\ [depth |-> D, edges |-> E] \in Graphs
          /\ IsDepth(E, D)
          /\ DepthInv(E, r, D, {r})
        BY <1>1, <1>6, LockStartsGraph
    <2>3. <<r>> \in Seq(Artifacts) /\ Elements(<<r>>) = {r}
        BY <1>1 DEF Elements
    <2> HIDE DEF r, E, D
    <2>4. WorkerInv'
        BY <1>1, <1>4, <2>1, <2>2, <2>3 DEF WorkerInv
    <2> QED BY <1>4, <2>4, JobFrame
<1> QED BY <1>5, <1>6

LEMMA InstallFailsStep ==
    ASSUME ContextInv, InstallFails
    PROVE  ContextInv'
<1>1. WorkerInv'
    BY DEF ContextInv, WorkerInv, InstallFails
<1> QED BY <1>1, JobFrame DEF InstallFails

LEMMA DepthsStep ==
    ASSUME ContextInv, computeDepths
    PROVE  ContextInv'
<1> DEFINE r == worker.root  E == worker.edges  D == worker.depth  Q == worker.queue
           v == Head(Q)
           improved == Improved(E, D, v)
           D2 == Lowered(E, D, v)
<1>1. /\ worker = [pc |-> "depths", root |-> r, edges |-> E, queue |-> Q, depth |-> D]
      /\ r \in Roots /\ (upstream => status[r] = "resolving")
      /\ [depth |-> D, edges |-> E] \in Graphs
      /\ IsDepth(E, D)
      /\ Q \in Seq(Artifacts) /\ Q # <<>>
      /\ DepthInv(E, r, D, Elements(Q))
    BY DEF ContextInv, WorkerInv, computeDepths
<1>2. PICK order \in SetToSeqs(improved) :
        worker' = [worker EXCEPT !.queue = Tail(Q) \o order, !.depth = D2]
    BY DEF computeDepths, Improved, Lowered
<1>3. UNCHANGED <<upstream, status, graphs, cache, req, snap, reader>>
    BY DEF computeDepths
<1>4. worker' = [pc |-> "depths", root |-> r, edges |-> E, queue |-> Tail(Q) \o order, depth |-> D2]
    <2> HIDE DEF Q, D2, D, E, r
    <2> QED BY <1>1, <1>2
<1>5. improved \subseteq DOMAIN D /\ DOMAIN D \subseteq Artifacts
    <2>1. improved \subseteq DOMAIN D
        BY <1>1, ChildOf DEF Improved
    <2>2. DOMAIN D \subseteq Artifacts
        BY <1>1 DEF Graphs
    <2> QED BY <2>1, <2>2
<1>6. IsFiniteSet(improved)
    BY <1>1, <1>5, FS_Subset DEF IsDepth
<1>7. order \in Seq(improved) /\ Elements(order) = improved
    <2> HIDE DEF improved
    <2> QED BY <1>6, Orderings DEF Elements
<1>8. /\ Tail(Q) \o order \in Seq(Artifacts)
      /\ Elements(Q) \subseteq Elements(Tail(Q) \o order) \cup {v}
      /\ improved \subseteq Elements(Tail(Q) \o order)
    <2> HIDE DEF improved, Q, D
    <2> QED BY <1>1, <1>5, <1>7, QueueStep
<1>9. IsDepth(E, D2) /\ DepthInv(E, r, D2, Elements(Tail(Q) \o order))
    <2> DEFINE Q2 == Elements(Tail(Q) \o order)
    <2>1. Elements(Q) \subseteq Q2 \cup {v} /\ Improved(E, D, v) \subseteq Q2
        BY <1>8
    <2> HIDE DEF Q2, v, E, D, Q, r
    <2> QED BY <1>1, <2>1, RelaxStep DEF Q2
<1>10. [depth |-> D2, edges |-> E] \in Graphs
    <2>1. D2 \in [DOMAIN D -> Nat \cup {None}] /\ DOMAIN D2 = DOMAIN D
        BY <1>9 DEF IsDepth, Lowered
    <2>2. D2 \in UNION {[nodes -> Nat \cup {None}] : nodes \in SUBSET Artifacts}
        <3> HIDE DEF D2
        <3> QED BY <1>5, <2>1
    <2>3. E \in SUBSET [parent : Artifacts, child : Artifacts, type : Kinds]
        BY <1>1 DEF Graphs
    <2> QED BY <2>2, <2>3 DEF Graphs
<1>11. WorkerInv'
    <2> HIDE DEF r, E, D, Q, D2
    <2> QED BY <1>1, <1>3, <1>4, <1>8, <1>9, <1>10 DEF WorkerInv
<1> QED BY <1>3, <1>11, JobFrame

\* The answers under way survive a step that keeps what is complete.
LEMMA ReaderStays ==
    ASSUME ReaderInv, UNCHANGED <<upstream, reader>>,
           \A a \in Artifacts : status[a] = "complete" =>
                status'[a] = "complete" /\ graphs'[a] = graphs[a]
    PROVE  ReaderInv'
BY DEF ReaderInv, CompleteGraphsReadWhole

\* A job whose root was deleted is dropped.
LEMMA DropStep ==
    ASSUME ContextInv, worker' = NoJob, UNCHANGED <<upstream, status, graphs, cache, req, snap, reader>>
    PROVE  ContextInv'
<1>1. WorkerInv'
    BY DEF WorkerInv, NoJob
<1> QED BY <1>1, JobFrame

LEMMA CompleteStep ==
    ASSUME ContextInv, CompleteResolve, status[worker.root] # None
    PROVE  ContextInv'
<1> DEFINE r == worker.root
           g == [depth |-> worker.depth, edges |-> worker.edges]
<1>1. /\ r \in Artifacts /\ upstream /\ status[r] = "resolving"
      /\ g \in Graphs /\ IsDepth(g.edges, g.depth) /\ DepthInv(g.edges, r, g.depth, {})
    <2>1. Elements(worker.queue) = {}
        BY DEF CompleteResolve, Elements
    <2>2. r \in Artifacts
        BY ContextAssumption DEF ContextInv, WorkerInv, CompleteResolve
    <2>3. upstream
        BY <2>2 DEF ContextInv, StoreInv
    <2> QED BY <2>1, <2>2, <2>3 DEF ContextInv, WorkerInv, CompleteResolve
<1>2. /\ graphs' = [graphs EXCEPT ![r] = g]
      /\ status' = [status EXCEPT ![r] = "complete"]
      /\ worker' = NoJob
      /\ UNCHANGED <<upstream, cache, req, snap, reader>>
    BY DEF CompleteResolve
<1> HIDE DEF r, g
<1>3. g # None
    BY <1>1, ContextAssumption
<1>4. StoreInv'
    <2>1. /\ status' \in [Artifacts -> Statuses \cup {None}]
          /\ graphs' \in [Artifacts -> Graphs \cup {None}]
        BY <1>1, <1>2 DEF ContextInv, StoreInv, Statuses
    <2>2. ASSUME NEW a \in Artifacts
          PROVE  /\ graphs'[a] # None => /\ IsDepth(graphs'[a].edges, graphs'[a].depth)
                                         /\ DepthInv(graphs'[a].edges, a, graphs'[a].depth, {})
                 /\ status'[a] = "complete" => graphs'[a] # None
        <3>1. CASE a = r
            BY <1>1, <1>2, <1>3, <3>1 DEF ContextInv, StoreInv
        <3>2. CASE a # r
            <4>1. graphs'[a] = graphs[a] /\ status'[a] = status[a]
                BY <1>2, <3>2 DEF ContextInv, StoreInv
            <4> QED BY <4>1 DEF ContextInv, StoreInv
        <3> QED BY <3>1, <3>2
    <2>3. upstream' = TRUE
        BY <1>1, <1>2 DEF ContextInv, StoreInv
    <2> QED BY <2>1, <2>2, <2>3 DEF StoreInv
<1>5. WorkerInv'
    BY <1>2 DEF WorkerInv, NoJob
<1>6. ReaderInv'
    <2>1. \A a \in Artifacts : status[a] = "complete" =>
                status'[a] = "complete" /\ graphs'[a] = graphs[a]
        BY <1>1, <1>2 DEF ContextInv, StoreInv
    <2> QED BY <1>2, <2>1, ReaderStays DEF ContextInv
<1>7. RequestInv' /\ SnapInv'
    BY <1>2, RequestFrame, SnapFrame DEF ContextInv
<1> QED BY <1>4, <1>5, <1>6, <1>7 DEF ContextInv

LEMMA FailStep ==
    ASSUME ContextInv, FailResolve, status[worker.root] # None
    PROVE  ContextInv'
<1>1. worker.root \in Artifacts /\ upstream /\ status[worker.root] = "resolving"
    <2>1. worker.root \in Artifacts
        BY ContextAssumption DEF ContextInv, WorkerInv, FailResolve
    <2>2. upstream
        BY <2>1 DEF ContextInv, StoreInv
    <2> QED BY <2>1, <2>2 DEF ContextInv, WorkerInv, FailResolve
<1>2. status' = [status EXCEPT ![worker.root] = "failed"] /\ UNCHANGED <<upstream, graphs, reader>>
    BY <1>1 DEF FailResolve, ContextInv, StoreInv
<1>3. StoreInv'
    BY <1>1, <1>2 DEF ContextInv, StoreInv, Statuses
<1>4. WorkerInv'
    BY DEF WorkerInv, FailResolve, NoJob
<1>5. ReaderInv'
    <2>1. \A a \in Artifacts : status[a] = "complete" =>
                status'[a] = "complete" /\ graphs'[a] = graphs[a]
        BY <1>1, <1>2 DEF ContextInv, StoreInv
    <2> QED BY <1>2, <2>1, ReaderStays DEF ContextInv
<1>6. RequestInv' /\ SnapInv'
    BY RequestFrame, SnapFrame DEF ContextInv, FailResolve
<1> QED BY <1>3, <1>4, <1>5, <1>6 DEF ContextInv

\* The job ends, one way or another.
LEMMA EndStep ==
    ASSUME ContextInv, CompleteResolve \/ FailResolve
    PROVE  ContextInv'
<1>1. CASE status[worker.root] # None
    BY <1>1, CompleteStep, FailStep
<1>2. CASE status[worker.root] = None
    <2>1. worker' = NoJob /\ UNCHANGED <<upstream, graphs, cache, req, snap, reader>>
        BY <1>2 DEF CompleteResolve, FailResolve
    <2>2. status' = status
        BY <1>2 DEF CompleteResolve, FailResolve, ContextInv, StoreInv
    <2> QED BY <2>1, <2>2, DropStep
<1> QED BY <1>1, <1>2

\* The upstream goes, with all that is stored for it.
LEMMA DeleteStep ==
    ASSUME ContextInv, DeleteUpstream
    PROVE  ContextInv'
<1>1. /\ upstream = TRUE /\ upstream' = FALSE
      /\ status' = [a \in Artifacts |-> None] /\ graphs' = [a \in Artifacts |-> None]
      /\ UNCHANGED <<worker, cache, req, snap, reader>>
    BY DEF DeleteUpstream, ContextInv, StoreInv
<1>2. StoreInv'
    <2>1. \A a \in Artifacts : status'[a] = None /\ graphs'[a] = None
        BY <1>1
    <2>2. status' \in [Artifacts -> Statuses \cup {None}] /\ graphs' \in [Artifacts -> Graphs \cup {None}]
        BY <1>1
    <2>3. None # "complete"
        BY ContextAssumption DEF Statuses
    <2> QED BY <1>1, <2>1, <2>2, <2>3 DEF StoreInv
<1>3. WorkerInv'
    BY <1>1 DEF ContextInv, WorkerInv
<1>4. ReaderInv'
    BY <1>1 DEF ContextInv, ReaderInv, CompleteGraphsReadWhole
<1>5. RequestInv' /\ SnapInv'
    BY <1>1, RequestFrame, SnapFrame DEF ContextInv
<1> QED BY <1>2, <1>3, <1>4, <1>5 DEF ContextInv

-----------------------------------------------------------------------------
(* Context lookups.                                                        *)

\* What merging the rows S comes to, whatever their order.
Merged(S) ==
    IF \E x, y \in S : x.scope # y.scope THEN NewUnknownDependencyContext
    ELSE [scope |-> (CHOOSE x \in S : TRUE).scope,
          types |-> UNION {x.types : x \in S},
          graphs |-> UNION {x.graphs : x \in S}]

LEMMA MergeIgnoresOrder ==
    ASSUME NEW S, \A x \in S : x.scope \in {"direct", "transitive"},
           NEW f, 1 \in DOMAIN f, {f[i] : i \in DOMAIN f} = S
    PROVE  mergeDependencyContexts(f) = Merged(S)
<1>1. f[1] \in S /\ (\A i \in DOMAIN f : f[i] \in S) /\ \A x \in S : \E i \in DOMAIN f : f[i] = x
    OBVIOUS
<1> DEFINE conflict == \E i \in DOMAIN f : f[i].scope \in {"unknown"} \cup
                            ({"direct", "transitive"} \ {f[1].scope})
<1>2. conflict <=> \E x \in S : x.scope # f[1].scope
    BY <1>1
<1>3. (\E x \in S : x.scope # f[1].scope) <=> \E x, y \in S : x.scope # y.scope
    BY <1>1
<1>4. UNION {f[i].types : i \in DOMAIN f} = UNION {x.types : x \in S}
    BY <1>1
<1>5. UNION {f[i].graphs : i \in DOMAIN f} = UNION {x.graphs : x \in S}
    BY <1>1
<1>6. CASE conflict
    BY <1>2, <1>3, <1>6 DEF mergeDependencyContexts, Merged
<1>7. CASE ~conflict
    <2>1. (CHOOSE x \in S : TRUE) \in S
        BY <1>1
    <2>2. (CHOOSE x \in S : TRUE).scope = f[1].scope
        BY <1>2, <1>7, <2>1
    <2>3. mergeDependencyContexts(f) =
            [scope |-> f[1].scope, types |-> UNION {f[i].types : i \in DOMAIN f},
             graphs |-> UNION {f[i].graphs : i \in DOMAIN f}]
        BY <1>7 DEF mergeDependencyContexts
    <2>4. Merged(S) = [scope |-> (CHOOSE x \in S : TRUE).scope,
                       types |-> UNION {x.types : x \in S},
                       graphs |-> UNION {x.graphs : x \in S}]
        BY <1>2, <1>3, <1>7 DEF Merged
    <2> QED BY <1>4, <1>5, <2>2, <2>3, <2>4
<1> QED BY <1>6, <1>7

\* The rows of an artifact: one per graph that holds it.
LEMMA SummaryRows ==
    ASSUME StoreInv, NEW a \in Artifacts
    PROVE  /\ IsFiniteSet(Summaries(a))
           /\ \A s \in Summaries(a) : s \in Contexts /\ s.scope \in {"direct", "transitive"}
<1> DEFINE holding == {q \in Roots : graphs[q] # None /\ a \in DOMAIN graphs[q].depth}
           row == [r \in holding |-> dependencyContextForNode(r, graphs[r], a)]
<1>1. IsFiniteSet(holding)
    BY ContextAssumption, FS_Subset
<1>2. Summaries(a) = {row[r] : r \in holding}
    BY DEF Summaries
<1>3. row \in Surjection(holding, Summaries(a))
    <2>1. row \in [holding -> Summaries(a)]
        BY <1>2
    <2>2. \A s \in Summaries(a) : \E r \in holding : row[r] = s
        BY <1>2
    <2> HIDE DEF row, holding
    <2> QED BY <2>1, <2>2 DEF Surjection
<1>4. IsFiniteSet(Summaries(a))
    <2> HIDE DEF row, holding
    <2> QED BY <1>1, <1>3, FS_Surjection
<1>5. ASSUME NEW r \in holding
      PROVE  row[r] \in Contexts /\ row[r].scope \in {"direct", "transitive"}
    <2> DEFINE g == graphs[r]
               types == DependencyTypes(g, a)
               direct == g.depth[a] = 0
    <2>1. r \in Artifacts /\ g \in Graphs
        BY ContextAssumption DEF StoreInv
    <2>2. types \in SUBSET Kinds
        BY <2>1 DEF DependencyTypes, Graphs
    <2>3. row[r] = [scope |-> IF direct THEN "direct" ELSE "transitive",
                    types |-> IF direct /\ types = {} THEN {"prod"} ELSE types,
                    graphs |-> {r}]
        BY DEF dependencyContextForNode
    <2> HIDE DEF row, types, direct
    <2>4. (IF direct /\ types = {} THEN {"prod"} ELSE types) \in SUBSET Kinds
        BY <2>2 DEF Kinds
    <2>5. {r} \in SUBSET Artifacts
        BY <2>1
    <2> QED BY <2>3, <2>4, <2>5 DEF Contexts
<1> HIDE DEF row, holding
<1> QED BY <1>2, <1>4, <1>5

\* A lookup has one result.
LEMMA LookupIsMerged ==
    ASSUME StoreInv, NEW a \in Artifacts
    PROVE  /\ Summaries(a) = {} => LookupResults(a) = {None}
           /\ Summaries(a) # {} => LookupResults(a) = {Merged(Summaries(a))}
<1> DEFINE S == Summaries(a)
<1>1. IsFiniteSet(S) /\ \A s \in S : s.scope \in {"direct", "transitive"}
    BY SummaryRows
<1>2. S = {} => LookupResults(a) = {None}
    BY DEF LookupResults
<1>3. ASSUME S # {}
      PROVE  LookupResults(a) = {Merged(S)}
    <2>1. LookupResults(a) = {mergeDependencyContexts(rows) : rows \in SetToSeqs(S)}
        BY <1>3 DEF LookupResults
    <2> HIDE DEF S
    <2>2. ASSUME NEW rows \in SetToSeqs(S)
          PROVE  mergeDependencyContexts(rows) = Merged(S)
        <3>1. Cardinality(S) \in Nat /\ Cardinality(S) # 0
            BY <1>1, <1>3, FS_CardinalityType, FS_EmptySet
        <3>2. DOMAIN rows = 1..Cardinality(S) /\ {rows[i] : i \in DOMAIN rows} = S
            BY <1>1, Orderings
        <3>3. 1 \in DOMAIN rows
            BY <3>1, <3>2
        <3> QED BY <1>1, <3>2, <3>3, MergeIgnoresOrder
    <2>3. SetToSeqs(S) # {}
        BY <1>1, OrderingExists
    <2> QED BY <2>1, <2>2, <2>3
<1> QED BY <1>2, <1>3

LEMMA MergedType ==
    ASSUME NEW S, S # {}, \A s \in S : s \in Contexts
    PROVE  Merged(S) \in Contexts
<1> DEFINE first == CHOOSE x \in S : TRUE
           types == UNION {x.types : x \in S}
           sources == UNION {x.graphs : x \in S}
<1>1. first \in S
    OBVIOUS
<1>2. first.scope \in {"direct", "transitive", "unknown"}
    BY <1>1 DEF Contexts
<1>3. types \in SUBSET Kinds /\ sources \in SUBSET Artifacts
    BY DEF Contexts
<1>4. \/ Merged(S) = NewUnknownDependencyContext
      \/ Merged(S) = [scope |-> first.scope, types |-> types, graphs |-> sources]
    BY DEF Merged
<1> HIDE DEF first, types, sources
<1>5. NewUnknownDependencyContext \in Contexts
    <2>1. {} \in SUBSET Kinds /\ {} \in SUBSET Artifacts
        OBVIOUS
    <2> QED BY <2>1 DEF NewUnknownDependencyContext, Contexts
<1>6. [scope |-> first.scope, types |-> types, graphs |-> sources] \in Contexts
    BY <1>2, <1>3 DEF Contexts
<1> QED BY <1>4, <1>5, <1>6

LEMMA LookupType ==
    ASSUME StoreInv, NEW a \in Artifacts, NEW found \in LookupResults(a)
    PROVE  found \in Contexts \cup {None}
<1>1. CASE Summaries(a) = {}
    BY <1>1, LookupIsMerged
<1>2. CASE Summaries(a) # {}
    <2>1. found = Merged(Summaries(a))
        BY <1>2, LookupIsMerged
    <2>2. \A s \in Summaries(a) : s \in Contexts
        BY SummaryRows
    <2> QED BY <1>2, <2>1, <2>2, MergedType
<1> QED BY <1>1, <1>2

-----------------------------------------------------------------------------
(* Access requests.                                                        *)

\* A step that changes only requests and cache.
LEMMA ResolveFrame ==
    ASSUME ContextInv, RequestInv', UNCHANGED <<upstream, status, graphs, worker, snap, reader>>
    PROVE  ContextInv'
BY StoreFrame, WorkerFrame, ReaderFrame, SnapFrame DEF ContextInv

LEMMA IdleRequest ==
    ASSUME RequestInv, NEW c \in Clients, req' = [req EXCEPT ![c] = NoRequest],
           cache' \in [Requested -> Contexts \cup {None}]
    PROVE  RequestInv'
BY DEF RequestInv, NoRequest

LEMMA CachedLookupStep ==
    ASSUME ContextInv, NEW c \in Clients, NEW a \in Requested, NEW ok \in BOOLEAN,
           lookupCachedContext(c, a, ok)
    PROVE  ContextInv'
<1>1. RequestInv'
    <2>1. cache' \in [Requested -> Contexts \cup {None}]
        BY DEF ContextInv, RequestInv, lookupCachedContext
    <2>2. CASE cache[a] # None /\ ok
        BY <2>1, <2>2, IdleRequest DEF ContextInv, lookupCachedContext
    <2>3. CASE ~(cache[a] # None /\ ok)
        BY <2>1, <2>3 DEF ContextInv, RequestInv, lookupCachedContext, NoRequest
    <2> QED BY <2>2, <2>3
<1> QED BY <1>1, ResolveFrame DEF lookupCachedContext

LEMMA StoredLookupStep ==
    ASSUME ContextInv, NEW c \in Clients, lookupStoredContext(c)
    PROVE  ContextInv'
<1>1. req[c].artifact \in Requested /\ req[c].artifact \in Artifacts
    BY ContextAssumption DEF ContextInv, RequestInv, lookupStoredContext
<1>2. PICK found \in LookupResults(req[c].artifact) :
        req' = [req EXCEPT ![c].pc = IF found # None THEN "cache" ELSE "enqueue", ![c].found = found]
    BY DEF lookupStoredContext
<1>3. found \in Contexts \cup {None}
    BY <1>1, LookupType DEF ContextInv
<1>4. RequestInv'
    BY <1>1, <1>2, <1>3 DEF ContextInv, RequestInv, lookupStoredContext
<1> QED BY <1>4, ResolveFrame DEF lookupStoredContext

LEMMA StoredLookupFailsStep ==
    ASSUME ContextInv, NEW c \in Clients, StoredLookupFails(c)
    PROVE  ContextInv'
<1>1. RequestInv'
    BY IdleRequest DEF ContextInv, RequestInv, StoredLookupFails
<1> QED BY <1>1, ResolveFrame DEF StoredLookupFails

LEMMA CacheStep ==
    ASSUME ContextInv, NEW c \in Clients, NEW ok \in BOOLEAN, cacheStoredContext(c, ok)
    PROVE  ContextInv'
<1>1. cache' \in [Requested -> Contexts \cup {None}]
    BY DEF ContextInv, RequestInv, cacheStoredContext
<1>2. RequestInv'
    BY <1>1, IdleRequest DEF ContextInv, cacheStoredContext
<1> QED BY <1>2, ResolveFrame DEF cacheStoredContext

LEMMA EnqueueRequestStep ==
    ASSUME ContextInv, NEW c \in Clients, NEW kind, NEW ok \in BOOLEAN,
           enqueueDependencyGraphRoot(c, kind, ok)
    PROVE  ContextInv'
<1>1. req[c].artifact \in Artifacts
    BY ContextAssumption DEF ContextInv, RequestInv, enqueueDependencyGraphRoot
<1>2. RequestInv'
    BY IdleRequest DEF ContextInv, RequestInv, enqueueDependencyGraphRoot
<1>3. SnapInv'
    BY SnapFrame DEF ContextInv, enqueueDependencyGraphRoot
<1>4. CASE status' = EnqueueResolve(req[c].artifact)
    BY <1>1, <1>2, <1>3, <1>4, EnqueueStep DEF ContextInv, enqueueDependencyGraphRoot
<1>5. CASE UNCHANGED status
    BY <1>2, <1>5, ResolveFrame DEF enqueueDependencyGraphRoot
<1> QED BY <1>4, <1>5 DEF enqueueDependencyGraphRoot

LEMMA ExpireStep ==
    ASSUME ContextInv, NEW a \in Requested, Expire(a)
    PROVE  ContextInv'
<1>1. RequestInv'
    BY DEF ContextInv, RequestInv, Expire
<1> QED BY <1>1, ResolveFrame DEF Expire

-----------------------------------------------------------------------------
(* The install snapshot.                                                   *)

\* A step that changes only the snapshot.
LEMMA SnapshotFrame ==
    ASSUME ContextInv, SnapInv', UNCHANGED <<upstream, status, graphs, worker, cache, req, reader>>
    PROVE  ContextInv'
BY StoreFrame, WorkerFrame, ReaderFrame, RequestFrame DEF ContextInv

LEMMA AuditStep ==
    ASSUME ContextInv, handleAuditBulk
    PROVE  ContextInv'
<1>1. snap' = [pc |-> "collect", next |-> snap.next, fetching |-> snap.fetching,
               looked |-> snap.looked, dependedOn |-> snap.dependedOn, failures |-> snap.failures,
               roots |-> snap.roots, enqueued |-> snap.enqueued, expired |-> snap.expired]
    BY DEF ContextInv, SnapInv, SnapShape, handleAuditBulk
<1>2. SnapInv'
    BY <1>1 DEF ContextInv, SnapInv, SnapShape, handleAuditBulk
<1> QED BY <1>2, SnapshotFrame DEF handleAuditBulk

LEMMA StartLookupStep ==
    ASSUME ContextInv, StartLookup
    PROVE  ContextInv'
<1> DEFINE p == Snapshot[snap.next]
<1>1. snap' = [pc |-> "collect", next |-> snap.next + 1, fetching |-> snap.fetching \cup {p},
               looked |-> snap.looked, dependedOn |-> snap.dependedOn, failures |-> snap.failures,
               roots |-> snap.roots, enqueued |-> snap.enqueued, expired |-> snap.expired]
    BY DEF ContextInv, SnapInv, SnapShape, StartLookup
<1>2. Len(Snapshot) \in Nat /\ DOMAIN Snapshot = 1..Len(Snapshot) /\ snap.next \in 1..Len(Snapshot)
    BY ContextAssumption DEF ContextInv, SnapInv, StartLookup
<1>3. p \in Packages
    BY <1>2 DEF Packages
<1>4. /\ IsFiniteSet(snap.fetching \cup {p})
      /\ Cardinality(snap.fetching \cup {p}) <= Concurrency
    <2>1. IsFiniteSet(snap.fetching) /\ Cardinality(snap.fetching) < Concurrency
        BY DEF ContextInv, SnapInv, StartLookup
    <2>2. Cardinality(snap.fetching) \in Nat /\ Concurrency \in Nat
        BY <2>1, FS_CardinalityType, ContextAssumption
    <2>3. /\ IsFiniteSet(snap.fetching \cup {p})
          /\ Cardinality(snap.fetching \cup {p}) <= Cardinality(snap.fetching) + 1
        <3> HIDE DEF p
        <3> DEFINE F == snap.fetching
        <3>1. /\ IsFiniteSet(F \cup {p})
              /\ Cardinality(F \cup {p}) = IF p \in F THEN Cardinality(F) ELSE Cardinality(F) + 1
            <4>1. IsFiniteSet(F)
                BY <2>1
            <4> HIDE DEF F
            <4> QED BY <4>1, FS_AddElement
        <3> QED BY <2>2, <3>1
    <2> HIDE DEF p
    <2>4. Cardinality(snap.fetching \cup {p}) \in Nat
        BY <2>3, FS_CardinalityType
    <2> QED BY <2>1, <2>2, <2>3, <2>4
<1>5. snap.failures = 0 => \A i \in 1..Len(Snapshot) : i < snap.next + 1 =>
            Snapshot[i] \in snap.looked \cup (snap.fetching \cup {p})
    <2> SUFFICES ASSUME snap.failures = 0, NEW i \in 1..Len(Snapshot), i < snap.next + 1
                 PROVE  Snapshot[i] \in snap.looked \cup (snap.fetching \cup {p})
        OBVIOUS
    <2>1. CASE i = snap.next
        BY <2>1
    <2>2. CASE i # snap.next
        <3>1. i < snap.next
            BY <1>2, <2>2
        <3> QED BY <3>1 DEF ContextInv, SnapInv
    <2> QED BY <2>1, <2>2
<1> HIDE DEF p
<1>6. /\ snap'.pc = "collect" /\ snap'.next = snap.next + 1
      /\ snap'.fetching = snap.fetching \cup {p} /\ snap'.looked = snap.looked
      /\ snap'.failures = snap.failures /\ snap'.enqueued = snap.enqueued
      /\ snap'.expired = snap.expired
    BY <1>1
<1>7. snap.enqueued = {} /\ snap.next + 1 \in Nat \ {0} /\ snap.next + 1 <= Len(Snapshot) + 1
    BY <1>2 DEF ContextInv, SnapInv, StartLookup
<1>8. SnapShape'
    BY <1>1 DEF SnapShape
<1>9. SnapInv'
    BY <1>3, <1>4, <1>5, <1>6, <1>7, <1>8 DEF ContextInv, SnapInv
<1> QED BY <1>9, SnapshotFrame DEF StartLookup

LEMMA ManifestStep ==
    ASSUME ContextInv, NEW p \in Packages, NEW ok \in BOOLEAN, ListManifestDependencyNames(p, ok)
    PROVE  ContextInv'
<1> DEFINE looked2 == IF ok THEN snap.looked \cup {p} ELSE snap.looked
           dependedOn2 == IF ok THEN snap.dependedOn \cup ManifestDeps[p] ELSE snap.dependedOn
           failures2 == IF ok THEN snap.failures ELSE snap.failures + 1
<1>1. snap' = [pc |-> "collect", next |-> snap.next, fetching |-> snap.fetching \ {p},
               looked |-> looked2, dependedOn |-> dependedOn2, failures |-> failures2,
               roots |-> snap.roots, enqueued |-> snap.enqueued, expired |-> snap.expired]
    <2>1. snap.pc = "collect"
        BY DEF ContextInv, SnapInv, ListManifestDependencyNames
    <2> QED BY <2>1 DEF ContextInv, SnapInv, SnapShape, ListManifestDependencyNames
<1>2. looked2 \subseteq Packages /\ failures2 \in Nat
    BY DEF ContextInv, SnapInv
<1>3. /\ IsFiniteSet(snap.fetching \ {p})
      /\ Cardinality(snap.fetching \ {p}) <= Concurrency
    <2>1. IsFiniteSet(snap.fetching) /\ Cardinality(snap.fetching) <= Concurrency
        BY DEF ContextInv, SnapInv
    <2>2. snap.fetching \ {p} \in SUBSET snap.fetching
        OBVIOUS
    <2>3. /\ IsFiniteSet(snap.fetching \ {p})
          /\ Cardinality(snap.fetching \ {p}) <= Cardinality(snap.fetching)
        BY <2>1, <2>2, FS_Subset
    <2>4. /\ Cardinality(snap.fetching) \in Nat /\ Cardinality(snap.fetching \ {p}) \in Nat
          /\ Concurrency \in Nat
        BY <2>1, <2>3, FS_CardinalityType, ContextAssumption
    <2> QED BY <2>1, <2>3, <2>4
<1>4. failures2 = 0 => \A i \in 1..Len(Snapshot) : i < snap.next =>
            Snapshot[i] \in looked2 \cup (snap.fetching \ {p})
    BY DEF ContextInv, SnapInv
<1>5. snap.pc = "collect" /\ snap.fetching \ {p} \subseteq Packages
    BY DEF ContextInv, SnapInv, ListManifestDependencyNames
<1> HIDE DEF looked2, dependedOn2, failures2
<1>6. SnapInv'
    BY <1>1, <1>2, <1>3, <1>4, <1>5 DEF ContextInv, SnapInv, SnapShape
<1> QED BY <1>6, SnapshotFrame DEF ListManifestDependencyNames

LEMMA ProcessStep ==
    ASSUME ContextInv, ProcessSnapshot
    PROVE  ContextInv'
<1>1. CASE Unreliable
    <2>1. snap' = [pc |-> "done", next |-> snap.next, fetching |-> snap.fetching,
                   looked |-> snap.looked, dependedOn |-> snap.dependedOn,
                   failures |-> snap.failures, roots |-> {}, enqueued |-> snap.enqueued,
                   expired |-> snap.expired]
        BY <1>1 DEF ContextInv, SnapInv, SnapShape, ProcessSnapshot
    <2>2. /\ snap'.pc = "done" /\ snap'.next = snap.next
          /\ snap'.fetching = snap.fetching /\ snap'.looked = snap.looked
          /\ snap'.failures = snap.failures /\ snap'.enqueued = snap.enqueued
          /\ snap'.expired = snap.expired
        BY <2>1
    <2>3. snap.enqueued = {} /\ snap.fetching = {}
        BY DEF ContextInv, SnapInv, ProcessSnapshot
    <2>4. SnapShape'
        BY <2>1 DEF SnapShape
    <2>5. SnapInv'
        BY <2>2, <2>3, <2>4 DEF ContextInv, SnapInv
    <2> QED BY <2>5, SnapshotFrame DEF ProcessSnapshot
<1>2. CASE ~Unreliable
    <2>1. snap' = [pc |-> "enqueue", next |-> snap.next, fetching |-> snap.fetching,
                   looked |-> snap.looked, dependedOn |-> snap.dependedOn,
                   failures |-> snap.failures, roots |-> InferredRoots,
                   enqueued |-> snap.enqueued, expired |-> snap.expired]
        BY <1>2 DEF ContextInv, SnapInv, SnapShape, ProcessSnapshot
    <2>2. InferredRoots' = InferredRoots /\ snap.enqueued = {}
        BY <2>1 DEF InferredRoots, ContextInv, SnapInv, ProcessSnapshot
    <2>3. ~Unreliable'
        BY <1>2, <2>1, <2>2 DEF Unreliable
    <2>4. SnapInv'
        BY <2>1, <2>2, <2>3 DEF ContextInv, SnapInv, SnapShape, ProcessSnapshot
    <2> QED BY <2>4, SnapshotFrame DEF ProcessSnapshot
<1> QED BY <1>1, <1>2

LEMMA EnqueueRootStep ==
    ASSUME ContextInv, NEW p \in Packages, NEW ok \in BOOLEAN, EnqueueRoot(p, ok)
    PROVE  ContextInv'
<1> DEFINE enqueued2 == IF ok THEN snap.enqueued \cup {p} ELSE snap.enqueued
<1>1. snap' = [pc |-> "enqueue", next |-> snap.next, fetching |-> snap.fetching,
               looked |-> snap.looked, dependedOn |-> snap.dependedOn,
               failures |-> snap.failures, roots |-> snap.roots \ {p},
               enqueued |-> enqueued2, expired |-> snap.expired]
    BY DEF ContextInv, SnapInv, SnapShape, EnqueueRoot
<1>2. InferredRoots' = InferredRoots
    BY <1>1 DEF InferredRoots
<1>3. ~Unreliable'
    BY <1>1, <1>2 DEF Unreliable, ContextInv, SnapInv, EnqueueRoot
<1>4. (snap.roots \ {p}) \cup enqueued2 \subseteq InferredRoots
    BY DEF ContextInv, SnapInv, EnqueueRoot
<1>5. enqueued2 # {} => snap.next > Len(Snapshot)
    BY DEF ContextInv, SnapInv, EnqueueRoot
<1>6. SnapInv'
    <2> HIDE DEF enqueued2
    <2>1. /\ snap'.pc = "enqueue" /\ snap'.next = snap.next
          /\ snap'.fetching = snap.fetching /\ snap'.looked = snap.looked
          /\ snap'.failures = snap.failures /\ snap'.roots = snap.roots \ {p}
          /\ snap'.enqueued = enqueued2 /\ snap'.expired = snap.expired
        BY <1>1
    <2>2. snap.pc = "enqueue" /\ snap.fetching = {}
        BY DEF ContextInv, SnapInv, EnqueueRoot
    <2>3. SnapShape'
        BY <1>1 DEF SnapShape
    <2> QED BY <1>2, <1>3, <1>4, <1>5, <2>1, <2>2, <2>3 DEF ContextInv, SnapInv
<1>7. RequestInv'
    BY RequestFrame DEF ContextInv, EnqueueRoot
<1>8. p \in Artifacts
    BY ContextAssumption DEF Packages
<1>9. CASE ok
    BY <1>6, <1>7, <1>8, <1>9, EnqueueStep DEF ContextInv, EnqueueRoot
<1>10. CASE ~ok
    BY <1>6, <1>10, SnapshotFrame DEF EnqueueRoot
<1> QED BY <1>9, <1>10

LEMMA ContextExpiresStep ==
    ASSUME ContextInv, ContextExpires
    PROVE  ContextInv'
<1>1. snap' = [pc |-> snap.pc, next |-> snap.next, fetching |-> snap.fetching,
               looked |-> snap.looked, dependedOn |-> snap.dependedOn, failures |-> snap.failures,
               roots |-> snap.roots, enqueued |-> snap.enqueued, expired |-> TRUE]
    BY DEF ContextInv, SnapInv, SnapShape, ContextExpires
<1>2. InferredRoots' = InferredRoots
    BY <1>1 DEF InferredRoots
<1>3. Unreliable' <=> Unreliable
    BY <1>1, <1>2 DEF Unreliable
<1>4. SnapInv'
    BY <1>1, <1>2, <1>3 DEF ContextInv, SnapInv, SnapShape
<1> QED BY <1>4, SnapshotFrame DEF ContextExpires

-----------------------------------------------------------------------------
(* The reader of a graph.                                                  *)

LEMMA ReadFrame ==
    ASSUME ContextInv, ReaderInv', UNCHANGED <<upstream, status, graphs, worker, cache, req, snap>>
    PROVE  ContextInv'
BY StoreFrame, WorkerFrame, RequestFrame, SnapFrame DEF ContextInv

LEMMA GetSnapshotStep ==
    ASSUME ContextInv, NEW r \in Roots, GetSnapshot(r)
    PROVE  ContextInv'
<1>1. reader' = [pc |-> "nodes", root |-> r, status |-> status[r], was |-> graphs[r],
                 nodes |-> {}, edges |-> {}]
    BY DEF GetSnapshot, NoReader
<1>2. r \in Artifacts /\ UNCHANGED <<upstream, status, graphs>>
    BY ContextAssumption DEF GetSnapshot
<1>3. ReaderInv'
    BY <1>1, <1>2 DEF ReaderInv, CompleteGraphsReadWhole
<1> QED BY <1>3, ReadFrame DEF GetSnapshot

LEMMA LoadNodesStep ==
    ASSUME ContextInv, LoadNodes
    PROVE  ContextInv'
<1> DEFINE nodes == IF graphs[reader.root] = None THEN {} ELSE DOMAIN graphs[reader.root].depth
<1>1. reader' = [pc |-> "edges", root |-> reader.root, status |-> reader.status,
                 was |-> reader.was, nodes |-> nodes, edges |-> reader.edges]
    BY DEF ContextInv, ReaderInv, LoadNodes
<1>2. reader.root \in Artifacts /\ UNCHANGED <<upstream, status, graphs>>
    BY DEF ContextInv, ReaderInv, LoadNodes
<1>3. reader.status = "complete" /\ upstream => /\ status[reader.root] = "complete"
                                                /\ graphs[reader.root] = reader.was
                                                /\ nodes = DOMAIN reader.was.depth
    BY <1>2 DEF ContextInv, ReaderInv, StoreInv, LoadNodes
<1>4. ~upstream => nodes = {}
    BY <1>2 DEF ContextInv, StoreInv
<1> HIDE DEF nodes
<1>5. /\ reader'.pc = "edges" /\ reader'.root = reader.root /\ reader'.status = reader.status
      /\ reader'.was = reader.was /\ reader'.nodes = nodes /\ reader'.edges = reader.edges
      /\ reader' = [pc |-> reader'.pc, root |-> reader'.root, status |-> reader'.status,
                    was |-> reader'.was, nodes |-> reader'.nodes, edges |-> reader'.edges]
    BY <1>1
<1>6. ReaderInv'
    BY <1>2, <1>3, <1>4, <1>5 DEF ReaderInv, CompleteGraphsReadWhole
<1> QED BY <1>6, ReadFrame DEF LoadNodes

LEMMA LoadEdgesStep ==
    ASSUME ContextInv, LoadEdges
    PROVE  ContextInv'
<1> DEFINE edges == IF graphs[reader.root] = None THEN {} ELSE graphs[reader.root].edges
<1>1. reader' = [pc |-> "answer", root |-> reader.root, status |-> reader.status,
                 was |-> reader.was, nodes |-> reader.nodes, edges |-> edges]
    BY DEF ContextInv, ReaderInv, LoadEdges
<1>2. reader.root \in Artifacts /\ UNCHANGED <<upstream, status, graphs>>
    BY DEF ContextInv, ReaderInv, LoadEdges
<1>3. reader.status = "complete" /\ upstream => /\ status[reader.root] = "complete"
                                                /\ graphs[reader.root] = reader.was
                                                /\ edges = reader.was.edges
    BY <1>2 DEF ContextInv, ReaderInv, StoreInv, LoadEdges
<1>4. ~upstream => edges = {}
    BY <1>2 DEF ContextInv, StoreInv
<1>5. reader.status = "complete" => \/ reader.nodes = DOMAIN reader.was.depth
                                    \/ ~upstream /\ reader.nodes = {}
    BY DEF ContextInv, ReaderInv, LoadEdges
<1> HIDE DEF edges
<1>6. /\ reader'.pc = "answer" /\ reader'.root = reader.root /\ reader'.status = reader.status
      /\ reader'.was = reader.was /\ reader'.nodes = reader.nodes /\ reader'.edges = edges
      /\ reader' = [pc |-> reader'.pc, root |-> reader'.root, status |-> reader'.status,
                    was |-> reader'.was, nodes |-> reader'.nodes, edges |-> reader'.edges]
    BY <1>1
<1>7. CompleteGraphsReadWhole'
    BY <1>2, <1>3, <1>4, <1>5, <1>6 DEF CompleteGraphsReadWhole
<1>8. ReaderInv'
    BY <1>2, <1>3, <1>5, <1>6, <1>7 DEF ReaderInv
<1> QED BY <1>8, ReadFrame DEF LoadEdges

LEMMA AnswerStep ==
    ASSUME ContextInv, toDependencyGraphResponse
    PROVE  ContextInv'
<1>1. ReaderInv'
    BY DEF ReaderInv, CompleteGraphsReadWhole, toDependencyGraphResponse, NoReader
<1> QED BY <1>1, ReadFrame DEF toDependencyGraphResponse

-----------------------------------------------------------------------------
(* The invariance theorem.                                                 *)

LEMMA ContextInit == Init => ContextInv
<1> SUFFICES ASSUME Init
             PROVE  ContextInv
    OBVIOUS
<1>1. StoreInv
    BY ContextAssumption DEF Init, StoreInv, Statuses
<1>2. WorkerInv /\ ReaderInv
    BY DEF Init, WorkerInv, ReaderInv, CompleteGraphsReadWhole, NoJob, NoReader
<1>3. RequestInv
    BY DEF Init, RequestInv, NoRequest
<1>4. SnapInv
    <2>1. /\ SnapShape /\ snap.pc = "new" /\ snap.next = 1 /\ snap.fetching = {} /\ snap.looked = {}
          /\ snap.failures = 0 /\ snap.enqueued = {} /\ snap.expired = FALSE
        BY DEF Init, SnapShape
    <2>2. Len(Snapshot) \in Nat /\ Concurrency \in Nat
        BY ContextAssumption
    <2>3. IsFiniteSet({}) /\ Cardinality({}) = 0
        BY FS_EmptySet
    <2>4. IsFiniteSet(snap.fetching) /\ Cardinality(snap.fetching) <= Concurrency
        BY <2>1, <2>2, <2>3
    <2>5. snap.expired \in BOOLEAN
        BY <2>1
    <2>6. /\ snap.next \in Nat \ {0} /\ snap.next <= Len(Snapshot) + 1 /\ snap.failures \in Nat
          /\ \A i \in 1..Len(Snapshot) : ~(i < snap.next)
        BY <2>1, <2>2
    <2>7. SnapShape /\ snap.pc = "new" /\ snap.fetching = {} /\ snap.looked = {} /\ snap.enqueued = {}
        BY <2>1
    <2> QED BY <2>4, <2>5, <2>6, <2>7 DEF SnapInv
<1> QED BY <1>1, <1>2, <1>3, <1>4 DEF ContextInv

LEMMA ContextNext == ContextInv /\ [Next]_vars => ContextInv'
<1> SUFFICES ASSUME ContextInv, [Next]_vars
             PROVE  ContextInv'
    OBVIOUS
<1>1. ASSUME NEW c \in Clients, Resolve(c)
      PROVE  ContextInv'
    BY <1>1, CachedLookupStep, StoredLookupStep, StoredLookupFailsStep, CacheStep,
       EnqueueRequestStep DEF Resolve
<1>2. CASE ResolveJob
    BY <1>2, ClaimStep, ParseStep, InstallFailsStep, DepthsStep, EndStep
       DEF ResolveJob
<1>3. CASE InstallSnapshot
    BY <1>3, AuditStep, StartLookupStep, ManifestStep, ProcessStep, EnqueueRootStep,
       ContextExpiresStep DEF InstallSnapshot
<1>4. CASE ReadGraph
    BY <1>4, GetSnapshotStep, LoadNodesStep, LoadEdgesStep, AnswerStep DEF ReadGraph
<1>5. ASSUME NEW a \in Requested, Expire(a)
      PROVE  ContextInv'
    BY <1>5, ExpireStep
<1>6. CASE DeleteUpstream
    BY <1>6, DeleteStep
<1>7. CASE UNCHANGED vars
    BY <1>7, StoreFrame, WorkerFrame, ReaderFrame, RequestFrame, SnapFrame DEF ContextInv, vars
<1> QED BY <1>1, <1>2, <1>3, <1>4, <1>5, <1>6, <1>7 DEF Next

\* Everything below rests on this invariant of the five parts.
THEOREM ContextInvariant == Spec => []ContextInv
<1> QED BY ContextInit, ContextNext, PTL DEF Spec

\* Every variable keeps its type, stored edges join stored nodes, manifest
\* lookups keep to the semaphore and the resolver owns its root's row.
THEOREM ContextTypeCorrect == Spec => []TypeOK
<1>1. ContextInv => TypeOK
    <2> SUFFICES ASSUME ContextInv
                 PROVE  TypeOK
        OBVIOUS
    <2>1. \A a \in Artifacts : graphs[a] # None =>
            \A e \in graphs[a].edges : {e.parent, e.child} \subseteq DOMAIN graphs[a].depth
        BY DEF ContextInv, StoreInv, IsDepth
    <2>2. \A a \in Requested : cache[a] \in Contexts \cup {None}
        BY DEF ContextInv, RequestInv
    <2>3. worker.pc # "idle" => status[worker.root] = IF upstream THEN "resolving" ELSE None
        BY ContextAssumption DEF ContextInv, StoreInv, WorkerInv
    <2> QED BY <2>1, <2>2, <2>3 DEF ContextInv, StoreInv, RequestInv, SnapInv, TypeOK
<1> QED BY <1>1, ContextInvariant, PTL

\* computeDepths: the breadth-first search stores the distances from the
\* root, for every lock file and every order of the edges.
THEOREM DepthsAreShortest == Spec => []DepthsShortest
<1>1. ContextInv => DepthsShortest
    <2> SUFFICES ASSUME ContextInv, NEW r \in Roots, graphs[r] # None,
                        NEW v \in DOMAIN graphs[r].depth
                 PROVE  graphs[r].depth[v] =
                            Distance(graphs[r].edges, r, DOMAIN graphs[r].depth, v)
        BY DEF DepthsShortest
    <2>1. r \in Artifacts
        BY ContextAssumption
    <2>2. IsDepth(graphs[r].edges, graphs[r].depth) /\ DepthInv(graphs[r].edges, r, graphs[r].depth, {})
        BY <2>1 DEF ContextInv, StoreInv
    <2> QED BY <2>2, DepthsAreDistances
<1> QED BY <1>1, ContextInvariant, PTL

\* LookupContext: the rows of dependency_context_summaries give one context,
\* in whatever order PostgreSQL returns them.
THEOREM RowOrderNeverMatters == Spec => []RowOrderIrrelevant
<1>1. ContextInv => RowOrderIrrelevant
    <2> SUFFICES ASSUME ContextInv, NEW a \in Artifacts
                 PROVE  Cardinality(LookupResults(a)) = 1
        BY DEF RowOrderIrrelevant
    <2>1. \E x : LookupResults(a) = {x}
        BY LookupIsMerged DEF ContextInv
    <2> QED BY <2>1, FS_Singleton
<1> QED BY <1>1, ContextInvariant, PTL

\* ProcessSnapshot: packages that were not looked up never make the whole
\* snapshot a set of roots, whatever fails and whenever the context expires.
THEOREM SnapshotsNeverFanOut == Spec => []SnapshotNeverFansOut
<1>1. ContextInv => SnapshotNeverFansOut
    <2> SUFFICES ASSUME ContextInv, Cardinality(Packages) > 1, snap.enqueued = Packages
                 PROVE  snap.looked = Packages
        BY DEF SnapshotNeverFansOut
    <2>1. Packages # {}
        BY FS_EmptySet
    <2>2. snap.pc = "enqueue" /\ snap.next > Len(Snapshot)
        BY <2>1 DEF ContextInv, SnapInv
    <2>3. snap.fetching = {} /\ ~Unreliable /\ snap.failures \in Nat
        BY <2>2 DEF ContextInv, SnapInv
    <2>4. InferredRoots = Packages
        <3>1. Packages \subseteq InferredRoots
            BY <2>2 DEF ContextInv, SnapInv
        <3> QED BY <3>1 DEF InferredRoots
    <2>5. snap.failures = 0
        BY <2>3, <2>4 DEF Unreliable
    <2>6. \A i \in 1..Len(Snapshot) : Snapshot[i] \in snap.looked
        BY <2>2, <2>3, <2>5, ContextAssumption DEF ContextInv, SnapInv
    <2>7. Packages \subseteq snap.looked
        BY <2>6, ContextAssumption DEF Packages
    <2> QED BY <2>7 DEF ContextInv, SnapInv
<1> QED BY <1>1, ContextInvariant, PTL

\* GetSnapshot: a graph that is reported complete is reported as it was when
\* its status was read, unless the upstream was deleted between the queries;
\* then the edges are missing, or nodes and edges.
THEOREM CompleteGraphsAreReadWhole == Spec => []CompleteGraphsReadWhole
<1>1. ContextInv => CompleteGraphsReadWhole
    BY DEF ContextInv, ReaderInv, CompleteGraphsReadWhole
<1> QED BY <1>1, ContextInvariant, PTL

\* CompleteResolve is final: the graph and the status of a complete root
\* never change again, so contexts only gain evidence, until the upstream is
\* deleted, which takes all of it.
THEOREM CompleteGraphsAreFinal ==
    Spec => [][\A a \in Artifacts : status[a] = "complete" =>
                    \/ status'[a] = "complete" /\ graphs'[a] = graphs[a]
                    \/ upstream /\ ~upstream' /\ graphs'[a] = None]_vars
<1> DEFINE Final == \A a \in Artifacts : status[a] = "complete" =>
                        \/ status'[a] = "complete" /\ graphs'[a] = graphs[a]
                        \/ upstream /\ ~upstream' /\ graphs'[a] = None
<1>1. ASSUME ContextInv, Next
      PROVE  Final
    <2>1. CASE UNCHANGED <<upstream, status, graphs>>
        BY <2>1
    <2>2. ASSUME NEW a, a \in Artifacts, status' = EnqueueResolve(a), UNCHANGED graphs
          PROVE  Final
        BY <1>1, <2>2, ContextAssumption DEF EnqueueResolve, ContextInv, StoreInv, Statuses
    <2>3. ASSUME NEW r \in Roots, ClaimNextResolveJob(r)
          PROVE  Final
        BY <1>1, <2>3 DEF ClaimNextResolveJob, ContextInv, StoreInv
    <2>4. CASE CompleteResolve /\ status[worker.root] # None
        <3>1. /\ status[worker.root] # "complete"
              /\ status' = [status EXCEPT ![worker.root] = "complete"]
              /\ \E g : graphs' = [graphs EXCEPT ![worker.root] = g]
            <4>1. upstream
                BY <1>1, <2>4, ContextAssumption DEF CompleteResolve, ContextInv, WorkerInv, StoreInv
            <4> QED BY <1>1, <2>4, <4>1 DEF CompleteResolve, ContextInv, WorkerInv
        <3>2. status \in [Artifacts -> Statuses \cup {None}] /\ graphs \in [Artifacts -> Graphs \cup {None}]
            BY <1>1 DEF ContextInv, StoreInv
        <3>3. \A a \in Artifacts : a # worker.root => status'[a] = status[a] /\ graphs'[a] = graphs[a]
            BY <3>1, <3>2
        <3> QED BY <3>1, <3>3
    <2>5. CASE FailResolve /\ status[worker.root] # None
        <3>1. /\ status[worker.root] # "complete" /\ UNCHANGED graphs
              /\ status' = [status EXCEPT ![worker.root] = "failed"]
            <4>1. upstream /\ worker.root \in Artifacts
                BY <1>1, <2>5, ContextAssumption DEF FailResolve, ContextInv, WorkerInv, StoreInv
            <4> QED BY <1>1, <2>5, <4>1 DEF FailResolve, ContextInv, WorkerInv, StoreInv
        <3>2. status \in [Artifacts -> Statuses \cup {None}]
            BY <1>1 DEF ContextInv, StoreInv
        <3>3. \A a \in Artifacts : a # worker.root => status'[a] = status[a]
            BY <3>1, <3>2
        <3> QED BY <3>1, <3>3
    <2>6. CASE (CompleteResolve \/ FailResolve) /\ status[worker.root] = None
        <3>1. UNCHANGED <<status, graphs>>
            BY <1>1, <2>6 DEF CompleteResolve, FailResolve, ContextInv, StoreInv
        <3> QED BY <3>1
    <2>7. CASE DeleteUpstream
        BY <2>7 DEF DeleteUpstream
    <2>8. ASSUME NEW c \in Clients, Resolve(c)
          PROVE  Final
        <3>1. ASSUME NEW kind, NEW ok \in BOOLEAN, enqueueDependencyGraphRoot(c, kind, ok)
              PROVE  Final
            <4>1. req[c].artifact \in Artifacts
                BY <1>1, <3>1, ContextAssumption DEF ContextInv, RequestInv, enqueueDependencyGraphRoot
            <4> QED BY <2>1, <2>2, <3>1, <4>1 DEF enqueueDependencyGraphRoot
        <3> QED BY <2>1, <2>8, <3>1 DEF Resolve, lookupCachedContext, lookupStoredContext,
                StoredLookupFails, cacheStoredContext
    <2>9. CASE ResolveJob
        BY <2>1, <2>3, <2>4, <2>5, <2>9, <2>6 DEF ResolveJob, ParsePackageLock, InstallFails, computeDepths
    <2>10. CASE InstallSnapshot
        <3>1. ASSUME NEW p \in Packages, NEW ok \in BOOLEAN, EnqueueRoot(p, ok)
              PROVE  Final
            <4>1. p \in Artifacts
                BY ContextAssumption DEF Packages
            <4> QED BY <2>1, <2>2, <3>1, <4>1 DEF EnqueueRoot
        <3> QED BY <2>1, <2>10, <3>1 DEF InstallSnapshot, handleAuditBulk, StartLookup,
                ListManifestDependencyNames, ProcessSnapshot, ContextExpires
    <2>11. CASE ReadGraph
        BY <2>1, <2>11 DEF ReadGraph, GetSnapshot, LoadNodes, LoadEdges, toDependencyGraphResponse
    <2>12. ASSUME NEW a \in Requested, Expire(a)
           PROVE  Final
        BY <2>1, <2>12 DEF Expire
    <2> HIDE DEF Final
    <2> QED BY <1>1, <2>8, <2>9, <2>10, <2>11, <2>12, <2>7 DEF Next
<1>2. ContextInv /\ [Next]_vars => [Final]_vars
    BY <1>1
<1> QED BY <1>2, ContextInvariant, PTL DEF Spec
=============================================================================
