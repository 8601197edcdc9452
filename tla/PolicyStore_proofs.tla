------------------------- MODULE PolicyStore_proofs -------------------------
(***************************************************************************)
(* What the control plane's management of a tenant guarantees, for any     *)
(* number of administrators, policies, upstreams and requests.             *)
(*                                                                         *)
(* There are three inductions.  The first is about rows, versions and the  *)
(* shape of requests in flight, deletions included.  The second and third  *)
(* rest on it: policies that fit their upstream while no two checks        *)
(* overlap, and commits that a request still has to record or invalidate.  *)
(***************************************************************************)
EXTENDS PolicyStore, FiniteSetTheorems, TLAPS

CurrentVersion(p) == IF policies[p] = None THEN 0 ELSE policies[p].version

Newest(n) == {k \in 1..n : n - k < MaxRetainedPolicyVersions}

\* What a request in flight carries at each stage.
OpShape(o) ==
    /\ o.pc = "lookup" => o.kind = "import"
    /\ o.pc = "write" => o.kind \in Kinds
    /\ o.pc = "write" /\ o.kind \in {"update", "rollback", "delete"} => o.policy \in PolicyIDs
    /\ o.pc = "write" /\ o.kind \in {"create", "update"} => o.def \in StoredDefinitions
    /\ o.pc = "write" /\ o.kind = "import" => o.todo # <<>>
    /\ o.pc = "write" /\ o.kind = "upstream" =>
            o.upstream \in UpstreamIDs /\ o.request \in Requests /\ ~o.mutated

\* A deletion in flight: what it saw disabled is gone, or changed since, or
\* is still disabled.
DeleteInv(o) ==
    o.pc = "write" /\ o.kind = "delete" =>
        IF policies[o.policy] = None THEN o.policy \in retired
        ELSE \/ o.number < policies[o.policy].version
             \/ o.number = policies[o.policy].version /\ ~policies[o.policy].def.enabled

\* The first inductive invariant.
StoreInv ==
    /\ TypeOK
    /\ HistoryIntact
    /\ \A a \in Admins : OpShape(op[a]) /\ DeleteInv(op[a])

-----------------------------------------------------------------------------
(* Rows and versions.                                                      *)

\* Pruning after version n + 1 was added to the newest versions up to n
\* leaves the newest versions up to n + 1, unchanged.
LEMMA PruneKeepsNewest ==
    ASSUME NEW n \in Nat, NEW vs, DOMAIN vs = Newest(n) \cup {n + 1}
    PROVE  /\ DOMAIN prunePolicyVersions(vs) = Newest(n + 1)
           /\ \A k \in Newest(n + 1) : prunePolicyVersions(vs)[k] = vs[k]
<1>1. MaxRetainedPolicyVersions \in Nat \ {0} BY RetentionAssumption
<1>2. ASSUME NEW m \in DOMAIN vs
      PROVE  {k \in DOMAIN vs : k > m} = (m + 1)..(n + 1)
  BY <1>1 DEF Newest
<1>3. ASSUME NEW m \in DOMAIN vs
      PROVE  Cardinality({k \in DOMAIN vs : k > m}) = n + 1 - m
  <2>1. m \in 1..(n + 1) BY DEF Newest
  <2> DEFINE lo == m + 1
             hi == n + 1
  <2>2. lo \in Int /\ hi \in Int BY <2>1
  <2>3. {k \in DOMAIN vs : k > m} = lo..hi BY <1>2
  <2>4. hi - lo + 1 = n + 1 - m /\ (lo > hi => n + 1 - m = 0) BY <2>1
  <2> HIDE DEF lo, hi
  <2>5. Cardinality(lo..hi) = IF lo > hi THEN 0 ELSE hi - lo + 1 BY <2>2, FS_Interval
  <2> QED BY <2>3, <2>4, <2>5
<1>4. Newest(n + 1) = {m \in DOMAIN vs : n + 1 - m < MaxRetainedPolicyVersions}
  BY <1>1 DEF Newest
<1>5. {m \in DOMAIN vs : Cardinality({k \in DOMAIN vs : k > m}) < MaxRetainedPolicyVersions}
        = Newest(n + 1)
  BY <1>3, <1>4
<1> QED BY <1>5 DEF prunePolicyVersions

\* What the history says of a row, whether it exists or not.
LEMMA HistoryOf ==
    ASSUME TypeOK, HistoryIntact, NEW p \in PolicyIDs
    PROVE  /\ CurrentVersion(p) \in Nat
           /\ DOMAIN versions[p] = Newest(CurrentVersion(p))
<1>1. policies[p] \in PolicyRow \cup {None} BY DEF TypeOK
<1>2. CASE policies[p] = None
  BY <1>2 DEF HistoryIntact, CurrentVersion, Newest
<1>3. CASE policies[p] # None
  BY <1>1, <1>3 DEF HistoryIntact, CurrentVersion, Newest, PolicyRow
<1> QED BY <1>2, <1>3

\* Writing the next version of a row, the first one included.
LEMMA SaveKeeps ==
    ASSUME TypeOK, HistoryIntact, NEW p \in PolicyIDs, NEW d \in StoredDefinitions,
           SavePolicy(p, d, CurrentVersion(p) + 1)
    PROVE  /\ policies' \in [PolicyIDs -> PolicyRow \cup {None}]
           /\ policies' = [policies EXCEPT ![p] = [def |-> d, version |-> CurrentVersion(p) + 1]]
           /\ policies'[p] # None
           /\ \A q \in PolicyIDs \ {p} : /\ policies'[q] = policies[q]
                                         /\ versions'[q] = versions[q]
           /\ versions' \in [PolicyIDs -> {versions'[q] : q \in PolicyIDs}]
           /\ \A q \in PolicyIDs : /\ versions'[q] \in [DOMAIN versions'[q] -> StoredDefinitions]
                                   /\ DOMAIN versions'[q] \subseteq Nat
           /\ DOMAIN versions'[p] = Newest(CurrentVersion(p) + 1)
           /\ \A k \in DOMAIN versions'[p] :
                versions'[p][k] = IF k = CurrentVersion(p) + 1 THEN d ELSE versions[p][k]
           /\ \A k \in DOMAIN versions'[p] :
                k # CurrentVersion(p) + 1 => k \in DOMAIN versions[p]
           /\ HistoryIntact'
<1> DEFINE n == CurrentVersion(p)
           vs == [m \in DOMAIN versions[p] \cup {n + 1} |-> IF m = n + 1 THEN d ELSE versions[p][m]]
           row == [def |-> d, version |-> n + 1]
<1>1. n \in Nat /\ DOMAIN versions[p] = Newest(n) BY HistoryOf
<1>2. /\ policies' = [policies EXCEPT ![p] = row]
      /\ versions' = [versions EXCEPT ![p] = prunePolicyVersions(vs)]
  BY DEF SavePolicy
<1>3. row \in PolicyRow /\ row # None BY <1>1, NoneAssumption DEF PolicyRow
<1> HIDE DEF n
<1>4. /\ policies \in [PolicyIDs -> PolicyRow \cup {None}]
      /\ versions \in [PolicyIDs -> {versions[q] : q \in PolicyIDs}]
      /\ \A q \in PolicyIDs : /\ versions[q] \in [DOMAIN versions[q] -> StoredDefinitions]
                              /\ DOMAIN versions[q] \subseteq Nat
  BY DEF TypeOK
<1>5. policies' \in [PolicyIDs -> PolicyRow \cup {None}] /\ policies'[p] = row
      /\ \A q \in PolicyIDs \ {p} : policies'[q] = policies[q]
  BY <1>2, <1>3, <1>4
<1>6. /\ versions'[p] = prunePolicyVersions(vs)
      /\ \A q \in PolicyIDs \ {p} : versions'[q] = versions[q]
      /\ versions' \in [PolicyIDs -> {versions'[q] : q \in PolicyIDs}]
  BY <1>2, <1>4
<1>7. DOMAIN vs = Newest(n) \cup {n + 1} BY <1>1
<1>8. /\ DOMAIN versions'[p] = Newest(n + 1)
      /\ \A k \in Newest(n + 1) : versions'[p][k] = vs[k]
  <2> HIDE DEF vs
  <2>1. /\ DOMAIN prunePolicyVersions(vs) = Newest(n + 1)
        /\ \A k \in Newest(n + 1) : prunePolicyVersions(vs)[k] = vs[k]
    BY <1>1, <1>7, PruneKeepsNewest
  <2> QED BY <1>6, <2>1
<1>9. \A k \in Newest(n + 1) : k # n + 1 => k \in Newest(n)
  BY <1>1, RetentionAssumption DEF Newest
<1>10. \A k \in DOMAIN versions'[p] :
            versions'[p][k] = IF k = n + 1 THEN d ELSE versions[p][k]
  BY <1>1, <1>8, <1>9
<1>11. \A k \in DOMAIN versions'[p] : versions'[p][k] \in StoredDefinitions
  BY <1>1, <1>4, <1>8, <1>9, <1>10
<1>12. versions'[p] \in [DOMAIN versions'[p] -> StoredDefinitions]
       /\ DOMAIN versions'[p] \subseteq Nat
  <2>1. versions'[p] = [k \in DOMAIN versions'[p] |-> versions'[p][k]]
    BY <1>6 DEF prunePolicyVersions
  <2>2. DOMAIN versions'[p] \subseteq Nat BY <1>1, <1>8 DEF Newest
  <2> QED BY <1>11, <2>1, <2>2
<1>13. \A q \in PolicyIDs : /\ versions'[q] \in [DOMAIN versions'[q] -> StoredDefinitions]
                            /\ DOMAIN versions'[q] \subseteq Nat
  BY <1>4, <1>6, <1>12
<1>14. HistoryIntact'
  <2> SUFFICES ASSUME NEW q \in PolicyIDs
               PROVE  IF policies'[q] = None THEN DOMAIN versions'[q] = {}
                      ELSE LET m == policies'[q].version IN
                           /\ DOMAIN versions'[q] = {k \in 1..m : m - k < MaxRetainedPolicyVersions}
                           /\ versions'[q][m] = policies'[q].def
    BY DEF HistoryIntact
  <2>1. CASE q # p BY <2>1, <1>5, <1>6 DEF HistoryIntact
  <2>2. CASE q = p
    <3>1. policies'[p].version = n + 1 /\ policies'[p].def = d /\ policies'[p] # None
      BY <1>3, <1>5
    <3>2. n + 1 \in Newest(n + 1) BY <1>1, RetentionAssumption DEF Newest
    <3>3. versions'[p][n + 1] = d BY <1>8, <1>10, <3>2
    <3> QED BY <2>2, <1>8, <3>1, <3>3 DEF Newest
  <2> QED BY <2>1, <2>2
<1> QED BY <1>1, <1>2, <1>3, <1>5, <1>6, <1>8, <1>9, <1>10, <1>13, <1>14 DEF n

-----------------------------------------------------------------------------
(* Steps of the first induction.                                           *)

LEMMA OpKeeps ==
    ASSUME TypeOK, \A b \in Admins : OpShape(op[b]), NEW a \in Admins,
           NEW o \in Operation, OpShape(o), op' = [op EXCEPT ![a] = o]
    PROVE  /\ op' \in [Admins -> Operation]
           /\ op'[a] = o
           /\ \A b \in Admins \ {a} : op'[b] = op[b]
           /\ \A b \in Admins : OpShape(op'[b])
<1>1. op \in [Admins -> Operation] BY DEF TypeOK
<1>2. op'[a] = o /\ \A b \in Admins \ {a} : op'[b] = op[b] BY <1>1
<1>3. \A b \in Admins : OpShape(op'[b])
  <2> SUFFICES ASSUME NEW b \in Admins PROVE OpShape(op'[b]) OBVIOUS
  <2>1. CASE b = a BY <1>2, <2>1
  <2>2. CASE b # a BY <1>2, <2>2
  <2> QED BY <2>1, <2>2
<1> QED BY <1>1, <1>2, <1>3

LEMMA NoOpIsFine == NoOp \in Operation /\ OpShape(NoOp) /\ DeleteInv(NoOp)
<1>1. [s \in {} |-> None] \in UNION {[S -> PolicyIDs] : S \in SUBSET Names}
  <2>1. [s \in {} |-> None] \in [{} -> PolicyIDs] OBVIOUS
  <2> QED BY <2>1
<1>2. <<>> \in Seq(StoredDefinitions) OBVIOUS
<1>3. NoOp \in Operation BY <1>1, <1>2 DEF NoOp, Operation, PCs
<1> QED BY <1>3 DEF NoOp, OpShape, DeleteInv

\* A step that moves one request and leaves rows, versions and ids alone.
LEMMA OpStep ==
    ASSUME StoreInv, NEW a \in Admins, NEW o \in Operation, OpShape(o), DeleteInv(o),
           op' = [op EXCEPT ![a] = o],
           UNCHANGED <<upstreams, policies, versions, retired>>,
           revisions' \in Seq(SUBSET StoredDefinitions), referenced' \subseteq PolicyIDs,
           stale' \in BOOLEAN, unfinished' \in BOOLEAN, overlapped' \in BOOLEAN,
           calls' \in Nat, faults' \in Nat
    PROVE  StoreInv'
<1>1. /\ TypeOK /\ HistoryIntact
      /\ \A b \in Admins : OpShape(op[b]) /\ DeleteInv(op[b])
  BY DEF StoreInv
<1>2. /\ op' \in [Admins -> Operation]
      /\ op'[a] = o
      /\ \A b \in Admins \ {a} : op'[b] = op[b]
      /\ \A b \in Admins : OpShape(op'[b])
  BY <1>1, OpKeeps
<1>3. TypeOK' BY <1>1, <1>2 DEF TypeOK
<1>4. HistoryIntact' BY <1>1 DEF HistoryIntact
<1>5. \A b \in Admins : DeleteInv(op[b])'
  BY <1>1, <1>2 DEF DeleteInv
<1>6. \A b \in Admins : OpShape(op[b])' BY <1>2 DEF OpShape
<1> QED BY <1>3, <1>4, <1>5, <1>6 DEF StoreInv

\* A row moves on to its next version; a new row has an id never used.
Advances(p) == policies[p] # None \/ p \notin retired

LEMMA WriteStep ==
    ASSUME StoreInv, NEW a \in Admins, NEW o \in Operation, OpShape(o),
           o.pc = "write" => o.kind = "import",
           NEW p \in PolicyIDs, NEW d \in StoredDefinitions, Advances(p),
           SavePolicy(p, d, CurrentVersion(p) + 1),
           WriteDone(a, o), UNCHANGED <<retired, referenced>>
    PROVE  StoreInv'
<1>1. /\ TypeOK /\ HistoryIntact
      /\ \A b \in Admins : OpShape(op[b]) /\ DeleteInv(op[b])
  BY DEF StoreInv
<1>2. op' = [op EXCEPT ![a] = o] BY DEF WriteDone
<1>3. /\ op' \in [Admins -> Operation]
      /\ op'[a] = o
      /\ \A b \in Admins \ {a} : op'[b] = op[b]
      /\ \A b \in Admins : OpShape(op'[b])
  BY <1>1, <1>2, OpKeeps
<1>4. /\ policies' \in [PolicyIDs -> PolicyRow \cup {None}]
      /\ policies' = [policies EXCEPT ![p] = [def |-> d, version |-> CurrentVersion(p) + 1]]
      /\ policies'[p] # None
      /\ \A q \in PolicyIDs \ {p} : policies'[q] = policies[q]
      /\ versions' \in [PolicyIDs -> {versions'[q] : q \in PolicyIDs}]
      /\ \A q \in PolicyIDs : /\ versions'[q] \in [DOMAIN versions'[q] -> StoredDefinitions]
                              /\ DOMAIN versions'[q] \subseteq Nat
      /\ HistoryIntact'
  BY <1>1, SaveKeeps
<1>5. TypeOK' BY <1>1, <1>3, <1>4 DEF TypeOK, WriteDone
<1>6. ASSUME NEW b \in Admins PROVE DeleteInv(op[b])'
  <2>1. CASE b = a BY <2>1, <1>3 DEF DeleteInv, OpShape
  <2>2. CASE b # a /\ op[b].policy # p
    BY <2>2, <1>1, <1>3, <1>4 DEF DeleteInv, OpShape
  <2>3. CASE b # a /\ op[b].policy = p /\ op[b].pc = "write" /\ op[b].kind = "delete"
    <3>1. policies[p] # None BY <2>3, <1>1 DEF DeleteInv, Advances
    <3>2. policies[p].version \in Nat /\ policies'[p].version = policies[p].version + 1
      BY <1>1, <1>4, <3>1 DEF CurrentVersion, TypeOK, PolicyRow
    <3>3. op[b].number \in Nat BY <1>1 DEF TypeOK, Operation
    <3>4. op[b].number < policies'[p].version
      BY <2>3, <1>1, <3>1, <3>2, <3>3 DEF DeleteInv
    <3> QED BY <2>3, <1>3, <1>4, <3>4 DEF DeleteInv
  <2>4. CASE b # a /\ ~(op[b].pc = "write" /\ op[b].kind = "delete")
    BY <2>4, <1>3 DEF DeleteInv
  <2> QED BY <2>1, <2>2, <2>3, <2>4
<1>7. \A b \in Admins : OpShape(op[b])' BY <1>3 DEF OpShape
<1> QED BY <1>4, <1>5, <1>6, <1>7 DEF StoreInv

\* A valid definition of a request is one the tables may hold.
LEMMA RequestedDefinition ==
    /\ \A d \in Definitions : ValidatePolicy(policyFromRequest(d)) =>
            policyFromRequest(d) \in StoredDefinitions
    /\ \A ds \in Imports : prepareImportedPolicies(toCorePolicyFile(ds)) =>
            toCorePolicyFile(ds) \in Seq(StoredDefinitions)
<1>1. \A d \in Definitions : ValidatePolicy(policyFromRequest(d)) =>
            policyFromRequest(d) \in StoredDefinitions
  BY DEF StoredDefinitions
<1>2. ASSUME NEW ds \in Imports, prepareImportedPolicies(toCorePolicyFile(ds))
      PROVE  toCorePolicyFile(ds) \in Seq(StoredDefinitions)
  <2> DEFINE cs == toCorePolicyFile(ds)
  <2>1. DOMAIN cs = 1..Len(ds) /\ Len(ds) \in Nat
    BY DocumentAssumption DEF toCorePolicyFile
  <2>2. \A i \in DOMAIN cs : ValidatePolicy(cs[i])
    BY <1>2 DEF prepareImportedPolicies, toDomainPolicy
  <2>3. \A i \in DOMAIN cs : cs[i] \in Range(cs) BY DEF Range
  <2>4. \A i \in DOMAIN cs : cs[i] \in StoredDefinitions
    BY <2>2, <2>3 DEF StoredDefinitions
  <2>5. cs = [i \in 1..Len(ds) |-> cs[i]] BY <2>1 DEF toCorePolicyFile
  <2> HIDE DEF cs
  <2>6. cs \in [1..Len(ds) -> StoredDefinitions] BY <2>1, <2>4, <2>5
  <2>7. cs \in Seq(StoredDefinitions) BY <2>1, <2>6
  <2> QED BY <2>7 DEF cs
<1> QED BY <1>1, <1>2

\* Requests that pass their check.
LEMMA StartStep ==
    ASSUME StoreInv, NEW a \in Admins, NEW o \in Operation, OpShape(o), DeleteInv(o),
           StartPolicyOp(a, o)
    PROVE  StoreInv'
<1>1. /\ revisions \in Seq(SUBSET StoredDefinitions) /\ referenced \subseteq PolicyIDs
      /\ stale \in BOOLEAN /\ unfinished \in BOOLEAN /\ overlapped \in BOOLEAN
      /\ calls \in Nat /\ faults \in Nat
  BY DEF StoreInv, TypeOK
<1>2. overlapped' \in BOOLEAN BY <1>1 DEF StartPolicyOp
<1>3. calls' \in Nat BY <1>1 DEF StartPolicyOp
<1>4. /\ op' = [op EXCEPT ![a] = o]
      /\ UNCHANGED <<upstreams, policies, versions, retired>>
      /\ revisions' = revisions /\ referenced' = referenced /\ stale' = stale
      /\ unfinished' = unfinished /\ faults' = faults
  BY DEF StartPolicyOp
<1> QED BY <1>1, <1>2, <1>3, <1>4, OpStep

LEMMA PolicyRequestStep ==
    ASSUME StoreInv, NEW a \in Admins, PolicyRequest(a)
    PROVE  StoreInv'
<1> USE NoOpIsFine
<1>1. CASE createPolicy(a)
  <2>1. PICK d \in Definitions : Create(a, policyFromRequest(d)) BY <1>1 DEF createPolicy
  <2> DEFINE e == policyFromRequest(d)
             o == [NoOp EXCEPT !.pc = "write", !.kind = "create", !.def = e]
  <2>2. e \in StoredDefinitions
    BY <2>1, RequestedDefinition DEF Create, validatePolicyMutation
  <2>3. StartPolicyOp(a, o) BY <2>1 DEF Create
  <2> HIDE DEF e
  <2>4. o \in Operation /\ OpShape(o) /\ DeleteInv(o)
    BY <2>2 DEF NoOp, Operation, PCs, Kinds, OpShape, DeleteInv
  <2> HIDE DEF o
  <2> QED BY <2>3, <2>4, StartStep
<1>2. CASE updatePolicy(a)
  <2>1. PICK p \in PolicyIDs, d \in Definitions : Update(a, p, policyFromRequest(d))
    BY <1>2 DEF updatePolicy
  <2> DEFINE e == policyFromRequest(d)
             o == [NoOp EXCEPT !.pc = "write", !.kind = "update", !.policy = p, !.def = e]
  <2>2. e \in StoredDefinitions
    BY <2>1, RequestedDefinition DEF Update, validatePolicyMutation
  <2>3. StartPolicyOp(a, o) BY <2>1 DEF Update
  <2> HIDE DEF e
  <2>4. o \in Operation /\ OpShape(o) /\ DeleteInv(o)
    BY <2>2 DEF NoOp, Operation, PCs, Kinds, OpShape, DeleteInv
  <2> HIDE DEF o
  <2> QED BY <2>3, <2>4, StartStep
<1>3. CASE rollbackPolicy(a)
  <2>1. PICK p \in PolicyIDs, n \in 1..MaxCalls : RollbackToVersion(a, p, n)
    BY <1>3 DEF rollbackPolicy
  <2> DEFINE o == [NoOp EXCEPT !.pc = "write", !.kind = "rollback", !.policy = p, !.number = n]
  <2>2. StartPolicyOp(a, o) BY <2>1 DEF RollbackToVersion
  <2>3. n \in Nat BY BoundsAssumption
  <2>4. o \in Operation BY <2>3 DEF NoOp, Operation, PCs, Kinds
  <2>5. OpShape(o) /\ DeleteInv(o) BY DEF NoOp, Kinds, OpShape, DeleteInv
  <2> HIDE DEF o
  <2> QED BY <2>2, <2>4, <2>5, StartStep
<1>4. CASE deletePolicy(a)
  <2>1. PICK p \in PolicyIDs, force \in BOOLEAN : Delete(a, p, force)
    BY <1>4 DEF deletePolicy
  <2> DEFINE n == policies[p].version
             o == [NoOp EXCEPT !.pc = "write", !.kind = "delete", !.policy = p,
                               !.force = force, !.number = n]
  <2>2. StartPolicyOp(a, o) BY <2>1 DEF Delete
  <2>3. policies[p] # None /\ ~policies[p].def.enabled BY <2>1 DEF Delete
  <2>4. n \in Nat BY <2>3 DEF StoreInv, TypeOK, PolicyRow
  <2>5. o \in Operation /\ OpShape(o)
    BY <2>4 DEF NoOp, Operation, PCs, Kinds, OpShape
  <2>6. DeleteInv(o) BY <2>3 DEF DeleteInv, NoOp
  <2> HIDE DEF o
  <2> QED BY <2>2, <2>5, <2>6, StartStep
<1>5. CASE importPolicies(a)
  <2>1. PICK ds \in Imports : ImportPolicies(a, toCorePolicyFile(ds))
    BY <1>5 DEF importPolicies
  <2> DEFINE cs == toCorePolicyFile(ds)
             o == [NoOp EXCEPT !.pc = "lookup", !.kind = "import", !.todo = cs]
  <2>2. cs \in Seq(StoredDefinitions) BY <2>1, RequestedDefinition DEF ImportPolicies
  <2>3. StartPolicyOp(a, o) BY <2>1 DEF ImportPolicies
  <2> HIDE DEF cs
  <2>4. o \in Operation /\ OpShape(o) /\ DeleteInv(o)
    BY <2>2 DEF NoOp, Operation, PCs, Kinds, OpShape, DeleteInv
  <2> HIDE DEF o
  <2> QED BY <2>3, <2>4, StartStep
<1> QED BY <1>1, <1>2, <1>3, <1>4, <1>5 DEF PolicyRequest

\* Facts about a request in flight.
LEMMA Typing ==
    ASSUME StoreInv, NEW a \in Admins
    PROVE  /\ op[a] \in Operation /\ OpShape(op[a]) /\ DeleteInv(op[a])
           /\ revisions \in Seq(SUBSET StoredDefinitions) /\ referenced \subseteq PolicyIDs
           /\ stale \in BOOLEAN /\ unfinished \in BOOLEAN /\ overlapped \in BOOLEAN
           /\ calls \in Nat /\ faults \in Nat
BY DEF StoreInv, TypeOK

\* Going on to record a revision, or to invalidate, or to end.
LEMMA FinalStages ==
    ASSUME NEW o \in Operation, NEW pc \in {"list", "number", "record", "invalidate"}
    PROVE  /\ [o EXCEPT !.pc = pc] \in Operation
           /\ OpShape([o EXCEPT !.pc = pc]) /\ DeleteInv([o EXCEPT !.pc = pc])
<1>1. [o EXCEPT !.pc = pc] \in Operation BY DEF Operation, PCs
<1>2. [o EXCEPT !.pc = pc].pc = pc BY DEF Operation
<1> QED BY <1>1, <1>2 DEF OpShape, DeleteInv

LEMMA FailStep ==
    ASSUME StoreInv, NEW a \in Admins, op' = importPersistenceError(a),
           UNCHANGED <<upstreams, policies, versions, revisions, retired, referenced, stale,
                       calls, overlapped>>,
           unfinished' \in BOOLEAN, faults' \in Nat
    PROVE  StoreInv'
<1> DEFINE o == IF op[a].mutated THEN [op[a] EXCEPT !.pc = "list"] ELSE NoOp
<1>1. op' = [op EXCEPT ![a] = o] BY DEF importPersistenceError
<1>2. o \in Operation /\ OpShape(o) /\ DeleteInv(o)
  <2>1. op[a] \in Operation BY Typing
  <2>2. CASE op[a].mutated BY <2>1, <2>2, FinalStages
  <2>3. CASE ~op[a].mutated BY <2>3, NoOpIsFine
  <2> QED BY <2>2, <2>3
<1> HIDE DEF o
<1> QED BY <1>1, <1>2, OpStep, Typing

LEMMA WriteFailsStep ==
    ASSUME StoreInv, NEW a \in Admins, WriteFails(a)
    PROVE  StoreInv'
<1>1. unfinished' \in BOOLEAN /\ faults' \in Nat BY Typing DEF WriteFails
<1> QED BY <1>1, FailStep DEF WriteFails

\* The rows UpdatePolicy and InsertPolicy write.
LEMMA RowWrites ==
    ASSUME NEW p, NEW d
    PROVE  /\ UpdatePolicy(p, d) => Advances(p) /\ SavePolicy(p, d, CurrentVersion(p) + 1)
           /\ p \in FreshPolicyIDs /\ InsertPolicy(p, d) =>
                p \in PolicyIDs /\ Advances(p) /\ SavePolicy(p, d, CurrentVersion(p) + 1)
BY DEF UpdatePolicy, InsertPolicy, FreshPolicyIDs, Advances, CurrentVersion

LEMMA LookupStep ==
    ASSUME StoreInv, NEW a \in Admins, existingPoliciesByName(a)
    PROVE  StoreInv'
<1> DEFINE found == [s \in {policies[p].def.name : p \in PolicyRows} |->
                        CHOOSE p \in PolicyRows : policies[p].def.name = s]
           o == IF op[a].todo = <<>> THEN NoOp
                ELSE [op[a] EXCEPT !.pc = "write", !.names = found]
<1>1. op[a].pc = "lookup" /\ op' = [op EXCEPT ![a] = o] BY DEF existingPoliciesByName
<1>2. op[a] \in Operation /\ op[a].kind = "import" BY <1>1, Typing DEF OpShape
<1>3. found \in UNION {[S -> PolicyIDs] : S \in SUBSET Names}
  <2> DEFINE S == {policies[p].def.name : p \in PolicyRows}
  <2>1. \A p \in PolicyRows : p \in PolicyIDs /\ policies[p] \in PolicyRow
    BY DEF PolicyRows, StoreInv, TypeOK
  <2>2. S \in SUBSET Names BY <2>1 DEF Names, PolicyRow
  <2>3. \A s \in S : (CHOOSE p \in PolicyRows : policies[p].def.name = s) \in PolicyIDs
    BY <2>1
  <2>4. found \in [S -> PolicyIDs] BY <2>3
  <2> HIDE DEF S, found
  <2> QED BY <2>2, <2>4
<1> HIDE DEF found
<1>4. o \in Operation /\ OpShape(o) /\ DeleteInv(o)
  <2>1. CASE op[a].todo = <<>> BY <2>1, NoOpIsFine
  <2>2. CASE op[a].todo # <<>>
    <3>1. o = [op[a] EXCEPT !.pc = "write", !.names = found] BY <2>2
    <3>2. o \in Operation BY <1>2, <1>3, <3>1 DEF Operation, PCs
    <3>3. o.pc = "write" /\ o.kind = "import" /\ o.todo = op[a].todo
      BY <1>2, <3>1 DEF Operation
    <3> QED BY <2>2, <3>2, <3>3 DEF OpShape, DeleteInv, Kinds
  <2> QED BY <2>1, <2>2
<1> HIDE DEF o
<1> QED BY <1>1, <1>4, OpStep, Typing DEF existingPoliciesByName

\* The definition that a request's transaction writes.
Source(a, p, d) ==
    \/ op[a].kind \in {"create", "update"} /\ d = op[a].def
    \/ /\ op[a].kind = "rollback" /\ p = op[a].policy
       /\ op[a].number \in DOMAIN versions[p] /\ d = versions[p][op[a].number]
    \/ op[a].kind = "import" /\ d = op[a].todo[1]

\* A transaction that writes a row.
Commit(a, p, d, o) ==
    /\ op[a].pc = "write" /\ Source(a, p, d)
    /\ RowAllowed(p, d) /\ Advances(p) /\ SavePolicy(p, d, CurrentVersion(p) + 1)
    /\ WriteDone(a, o) /\ UNCHANGED <<retired, referenced>>
    /\ \/ o = [op[a] EXCEPT !.pc = "list"]
       \/ /\ op[a].kind = "import" /\ op[a].todo # <<>>
          /\ o = [op[a] EXCEPT !.todo = Tail(op[a].todo), !.mutated = TRUE,
                               !.pc = IF Len(op[a].todo) = 1 THEN "list" ELSE "write"]

\* A transaction that deletes a row.
Remove(a, p) ==
    /\ op[a].pc = "write" /\ op[a].kind = "delete" /\ p = op[a].policy
    /\ policies[p] # None
    /\ policies' = [policies EXCEPT ![p] = None]
    /\ versions' = [versions EXCEPT ![p] = <<>>]
    /\ referenced' = referenced \ {p}
    /\ retired' = retired \cup {p}
    /\ WriteDone(a, [op[a] EXCEPT !.pc = "list"])

\* Every transaction is one of these, or fails and writes nothing.
LEMMA WriteCases ==
    ASSUME StoreInv, NEW a \in Admins, PolicyWrite(a)
    PROVE  \/ existingPoliciesByName(a)
           \/ op[a].pc = "write" /\ op[a].kind \in Kinds \ {"upstream"} /\ WriteFails(a)
           \/ \E p \in PolicyIDs, d \in StoredDefinitions : \E o : Commit(a, p, d, o)
           \/ \E p \in PolicyIDs : Remove(a, p)
<1>1. op[a] \in Operation /\ OpShape(op[a]) BY Typing
<1> DEFINE listing == [op[a] EXCEPT !.pc = "list"]
<1>2. CASE CreateRow(a) /\ ~WriteFails(a)
  <2>1. PICK p \in FreshPolicyIDs : InsertPolicy(p, op[a].def) BY <1>2 DEF CreateRow
  <2>2. p \in PolicyIDs /\ Advances(p)
        /\ SavePolicy(p, op[a].def, CurrentVersion(p) + 1)
    BY <2>1, RowWrites
  <2>3. op[a].def \in StoredDefinitions BY <1>1, <1>2 DEF CreateRow, OpShape
  <2>4. Commit(a, p, op[a].def, listing)
    BY <1>2, <2>1, <2>2 DEF CreateRow, Commit, Source, InsertPolicy
  <2> QED BY <2>2, <2>3, <2>4
<1>3. CASE UpdateRow(a) /\ ~WriteFails(a)
  <2> DEFINE p == op[a].policy
  <2>1. UpdatePolicy(p, op[a].def) BY <1>3 DEF UpdateRow
  <2>2. Advances(p) /\ SavePolicy(p, op[a].def, CurrentVersion(p) + 1)
    BY <2>1, RowWrites
  <2>3. p \in PolicyIDs /\ op[a].def \in StoredDefinitions
    BY <1>1, <1>3 DEF UpdateRow, OpShape
  <2>4. Commit(a, p, op[a].def, listing)
    BY <1>3, <2>1, <2>2 DEF UpdateRow, Commit, Source, UpdatePolicy
  <2> QED BY <2>3, <2>4
<1>4. CASE RollbackRow(a) /\ ~WriteFails(a)
  <2> DEFINE p == op[a].policy
             d == versions[p][op[a].number]
  <2>1. UpdatePolicy(p, d) /\ op[a].number \in DOMAIN versions[p]
    BY <1>4 DEF RollbackRow, loadRollbackPolicyVersion
  <2>2. Advances(p) /\ SavePolicy(p, d, CurrentVersion(p) + 1) BY <2>1, RowWrites
  <2>3. p \in PolicyIDs BY <1>1, <1>4 DEF RollbackRow, OpShape
  <2>4. d \in StoredDefinitions BY <2>1, <2>3 DEF StoreInv, TypeOK
  <2>5. RowAllowed(p, d) BY <2>1 DEF UpdatePolicy
  <2>6. Source(a, p, d) BY <1>4, <2>1 DEF RollbackRow, Source
  <2>7. op[a].pc = "write" /\ WriteDone(a, listing) /\ UNCHANGED <<retired, referenced>>
    BY <1>4 DEF RollbackRow
  <2> HIDE DEF p, d
  <2>8. Commit(a, p, d, listing) BY <2>2, <2>5, <2>6, <2>7 DEF Commit
  <2> QED BY <2>3, <2>4, <2>8
<1>5. CASE DeleteRow(a) /\ ~WriteFails(a)
  <2>1. op[a].policy \in PolicyIDs BY <1>1, <1>5 DEF DeleteRow, OpShape
  <2>2. Remove(a, op[a].policy) BY <1>5 DEF DeleteRow, Remove
  <2> QED BY <2>1, <2>2
<1>6. CASE persistImportedPolicy(a) /\ ~WriteFails(a)
  <2> DEFINE d == Head(op[a].todo)
             rest == [op[a] EXCEPT !.todo = Tail(op[a].todo), !.mutated = TRUE,
                                   !.pc = IF Len(op[a].todo) = 1 THEN "list" ELSE "write"]
  <2>1. op[a].pc = "write" /\ op[a].kind = "import" BY <1>6 DEF persistImportedPolicy
  <2>2. op[a].todo \in Seq(StoredDefinitions) /\ op[a].todo # <<>>
    BY <1>1, <2>1 DEF Operation, OpShape
  <2>3. d \in StoredDefinitions /\ d = op[a].todo[1] BY <2>2
  <2>4. PICK p \in PolicyIDs : /\ RowAllowed(p, d) /\ Advances(p)
                               /\ SavePolicy(p, d, CurrentVersion(p) + 1)
    <3>1. CASE d.name \in DOMAIN op[a].names
      <4>1. op[a].names[d.name] \in PolicyIDs
        <5>1. PICK S \in SUBSET Names : op[a].names \in [S -> PolicyIDs]
          BY <1>1 DEF Operation
        <5> QED BY <3>1, <5>1
      <4>2. UpdatePolicy(op[a].names[d.name], d) BY <1>6, <3>1 DEF persistImportedPolicy
      <4> QED BY <4>1, <4>2, RowWrites DEF UpdatePolicy
    <3>2. CASE d.name \notin DOMAIN op[a].names
      <4>1. PICK p \in FreshPolicyIDs : InsertPolicy(p, d)
        BY <1>6, <3>2 DEF persistImportedPolicy
      <4> QED BY <4>1, RowWrites DEF InsertPolicy
    <3> QED BY <3>1, <3>2
  <2>5. WriteDone(a, rest) /\ UNCHANGED <<retired, referenced>>
    BY <1>6 DEF persistImportedPolicy
  <2>6. Source(a, p, d) BY <2>1, <2>3 DEF Source
  <2>7. Commit(a, p, d, rest) BY <2>1, <2>2, <2>4, <2>5, <2>6 DEF Commit
  <2> QED BY <2>3, <2>7
<1>7. CASE existingPoliciesByName(a) BY <1>7
<1>8. CASE WriteFails(a) /\ ~existingPoliciesByName(a)
  <2>1. op[a].pc = "write" /\ op[a].kind \in {"create", "update", "rollback", "delete", "import"}
    BY <1>8 DEF PolicyWrite, CreateRow, UpdateRow, RollbackRow, DeleteRow, persistImportedPolicy
  <2> QED BY <1>8, <2>1 DEF Kinds
<1> QED BY <1>2, <1>3, <1>4, <1>5, <1>6, <1>7, <1>8 DEF PolicyWrite

LEMMA TailNonEmpty ==
    ASSUME NEW S, NEW s \in Seq(S), s # <<>>, Len(s) # 1
    PROVE  Tail(s) # <<>>
<1>1. Len(s) \in Nat /\ Len(s) # 0 OBVIOUS
<1>2. Len(Tail(s)) = Len(s) - 1 BY <1>1
<1>3. Len(Tail(s)) # 0 BY <1>1, <1>2
<1>4. Len(<<>>) = 0 OBVIOUS
<1>5. SUFFICES ASSUME Tail(s) = <<>> PROVE FALSE OBVIOUS
<1> QED BY <1>3, <1>4, <1>5, Zenon

\* The request after its commit.
LEMMA CommitOp ==
    ASSUME StoreInv, NEW a \in Admins, NEW p, NEW d, NEW o, Commit(a, p, d, o)
    PROVE  /\ o \in Operation /\ OpShape(o)
           /\ \/ o.pc = "list"
              \/ /\ o.pc = "write" /\ o.kind = "import" /\ op[a].kind = "import" /\ o.mutated
                 /\ o.todo = Tail(op[a].todo) /\ op[a].todo # <<>>
<1>1. op[a] \in Operation /\ OpShape(op[a]) BY Typing
<1>2. CASE o = [op[a] EXCEPT !.pc = "list"]
  <2>1. o \in Operation /\ OpShape(o) BY <1>1, <1>2, FinalStages
  <2>2. o.pc = "list" BY <1>1, <1>2 DEF Operation
  <2> QED BY <2>1, <2>2
<1>3. CASE /\ op[a].kind = "import" /\ op[a].todo # <<>>
           /\ o = [op[a] EXCEPT !.todo = Tail(op[a].todo), !.mutated = TRUE,
                                !.pc = IF Len(op[a].todo) = 1 THEN "list" ELSE "write"]
  <2>1. op[a].todo \in Seq(StoredDefinitions) BY <1>1 DEF Operation
  <2>2. Tail(op[a].todo) \in Seq(StoredDefinitions) BY <1>3, <2>1
  <2>3. Len(op[a].todo) # 1 => Tail(op[a].todo) # <<>> BY <1>3, <2>1, TailNonEmpty
  <2>4. o \in Operation BY <1>1, <1>3, <2>2 DEF Operation, PCs
  <2>5. /\ o.pc = IF Len(op[a].todo) = 1 THEN "list" ELSE "write"
        /\ o.kind = "import" /\ o.todo = Tail(op[a].todo) /\ o.mutated
    BY <1>1, <1>3 DEF Operation
  <2>6. OpShape(o) BY <2>3, <2>5 DEF OpShape, Kinds
  <2> QED BY <1>3, <2>4, <2>5, <2>6
<1> QED BY <1>2, <1>3 DEF Commit

LEMMA RemoveStep ==
    ASSUME StoreInv, NEW a \in Admins, NEW p \in PolicyIDs, Remove(a, p)
    PROVE  StoreInv'
<1> DEFINE o == [op[a] EXCEPT !.pc = "list"]
<1>1. /\ TypeOK /\ HistoryIntact
      /\ \A b \in Admins : OpShape(op[b]) /\ DeleteInv(op[b])
  BY DEF StoreInv
<1>2. o \in Operation /\ OpShape(o) /\ o.pc = "list"
  <2>1. op[a] \in Operation BY Typing
  <2> QED BY <2>1, FinalStages DEF Operation
<1>3. op' = [op EXCEPT ![a] = o] BY DEF Remove, WriteDone
<1> HIDE DEF o
<1>4. /\ op' \in [Admins -> Operation]
      /\ op'[a] = o
      /\ \A b \in Admins \ {a} : op'[b] = op[b]
      /\ \A b \in Admins : OpShape(op'[b])
  BY <1>1, <1>2, <1>3, OpKeeps
<1>5. /\ policies' \in [PolicyIDs -> PolicyRow \cup {None}]
      /\ policies'[p] = None /\ versions'[p] = <<>>
      /\ \A q \in PolicyIDs \ {p} : policies'[q] = policies[q] /\ versions'[q] = versions[q]
      /\ versions' \in [PolicyIDs -> {versions'[q] : q \in PolicyIDs}]
      /\ retired' = retired \cup {p} /\ p \in retired'
  BY <1>1 DEF Remove, TypeOK
<1>6. \A q \in PolicyIDs : /\ versions'[q] \in [DOMAIN versions'[q] -> StoredDefinitions]
                           /\ DOMAIN versions'[q] \subseteq Nat
  <2> SUFFICES ASSUME NEW q \in PolicyIDs
               PROVE  /\ versions'[q] \in [DOMAIN versions'[q] -> StoredDefinitions]
                      /\ DOMAIN versions'[q] \subseteq Nat
    OBVIOUS
  <2>1. CASE q = p BY <1>5, <2>1
  <2>2. CASE q # p BY <1>1, <1>5, <2>2 DEF TypeOK
  <2> QED BY <2>1, <2>2
<1>7. TypeOK'
  BY <1>1, <1>4, <1>5, <1>6 DEF TypeOK, Remove, WriteDone
<1>8. HistoryIntact'
  <2> SUFFICES ASSUME NEW q \in PolicyIDs
               PROVE  IF policies'[q] = None THEN DOMAIN versions'[q] = {}
                      ELSE LET m == policies'[q].version IN
                           /\ DOMAIN versions'[q] = {k \in 1..m : m - k < MaxRetainedPolicyVersions}
                           /\ versions'[q][m] = policies'[q].def
    BY DEF HistoryIntact
  <2>1. CASE q = p BY <1>5, <2>1
  <2>2. CASE q # p BY <1>1, <1>5, <2>2 DEF HistoryIntact
  <2> QED BY <2>1, <2>2
<1>9. \A b \in Admins : DeleteInv(op[b])'
  BY <1>1, <1>2, <1>4, <1>5 DEF DeleteInv, OpShape
<1>10. \A b \in Admins : OpShape(op[b])' BY <1>4 DEF OpShape
<1> QED BY <1>7, <1>8, <1>9, <1>10 DEF StoreInv

LEMMA PolicyWriteStep ==
    ASSUME StoreInv, NEW a \in Admins, PolicyWrite(a)
    PROVE  StoreInv'
<1>1. CASE existingPoliciesByName(a) BY <1>1, LookupStep
<1>2. CASE WriteFails(a) BY <1>2, WriteFailsStep
<1>3. CASE \E p \in PolicyIDs, d \in StoredDefinitions : \E o : Commit(a, p, d, o)
  <2>1. PICK p \in PolicyIDs, d \in StoredDefinitions : \E o : Commit(a, p, d, o) BY <1>3
  <2>2. PICK o : Commit(a, p, d, o) BY <2>1
  <2>3. o \in Operation /\ OpShape(o) /\ (o.pc = "write" => o.kind = "import")
    BY <2>2, CommitOp
  <2> QED BY <2>2, <2>3, WriteStep DEF Commit
<1>4. CASE \E p \in PolicyIDs : Remove(a, p) BY <1>4, RemoveStep
<1> QED BY <1>1, <1>2, <1>3, <1>4, WriteCases

LEMMA FinalizeStep ==
    ASSUME StoreInv, NEW a \in Admins, finalizeTenantMutation(a)
    PROVE  StoreInv'
<1>1. /\ op[a] \in Operation
      /\ revisions \in Seq(SUBSET StoredDefinitions) /\ referenced \subseteq PolicyIDs
      /\ stale \in BOOLEAN /\ unfinished \in BOOLEAN /\ overlapped \in BOOLEAN
      /\ calls \in Nat /\ faults \in Nat
  BY Typing
<1>2. CASE ListForRevision(a)
  <2> DEFINE o == [op[a] EXCEPT !.pc = "number", !.hash = HashPolicies]
  <2>1. HashPolicies \in SUBSET StoredDefinitions
    BY DEF HashPolicies, PolicyRows, StoreInv, TypeOK, PolicyRow
  <2>2. op' = [op EXCEPT ![a] = o]
    <3>1. op \in [Admins -> Operation] BY DEF StoreInv, TypeOK
    <3> QED BY <1>2, <3>1 DEF ListForRevision, Operation
  <2>3. o \in Operation /\ o.pc = "number" BY <1>1, <2>1 DEF Operation, PCs
  <2>4. OpShape(o) /\ DeleteInv(o) BY <2>3 DEF OpShape, DeleteInv
  <2> HIDE DEF o
  <2> QED BY <1>1, <1>2, <2>2, <2>3, <2>4, OpStep DEF ListForRevision
<1>3. CASE NextGeneration(a)
  <2> DEFINE o == [op[a] EXCEPT !.pc = "record", !.number = Len(revisions) + 1]
  <2>1. op' = [op EXCEPT ![a] = o]
    <3>1. op \in [Admins -> Operation] BY DEF StoreInv, TypeOK
    <3> QED BY <1>3, <3>1 DEF NextGeneration, Operation
  <2>2. Len(revisions) + 1 \in Nat BY <1>1
  <2>3. o \in Operation /\ o.pc = "record" BY <1>1, <2>2 DEF Operation, PCs
  <2>4. OpShape(o) /\ DeleteInv(o) BY <2>3 DEF OpShape, DeleteInv
  <2> HIDE DEF o
  <2> QED BY <1>1, <1>3, <2>1, <2>3, <2>4, OpStep DEF NextGeneration
<1>4. CASE CreateRevision(a)
  <2> DEFINE o == [op[a] EXCEPT !.pc = "invalidate"]
  <2>1. op' = [op EXCEPT ![a] = o] BY <1>4 DEF CreateRevision
  <2>2. o \in Operation /\ OpShape(o) /\ DeleteInv(o) BY <1>1, FinalStages
  <2>3. op[a].hash \in SUBSET StoredDefinitions BY <1>1 DEF Operation
  <2>4. Append(revisions, op[a].hash) \in Seq(SUBSET StoredDefinitions) BY <1>1, <2>3
  <2>5. revisions' \in Seq(SUBSET StoredDefinitions) BY <1>1, <1>4, <2>4 DEF CreateRevision
  <2>6. unfinished' \in BOOLEAN BY <1>1, <1>4 DEF CreateRevision
  <2> HIDE DEF o
  <2> QED BY <1>1, <1>4, <2>1, <2>2, <2>5, <2>6, OpStep DEF CreateRevision
<1>5. CASE InvalidateTenant(a)
  BY <1>1, <1>5, NoOpIsFine, OpStep DEF InvalidateTenant
<1> QED BY <1>2, <1>3, <1>4, <1>5 DEF finalizeTenantMutation

LEMMA CallFailsStep ==
    ASSUME StoreInv, NEW a \in Admins, CallFails(a)
    PROVE  StoreInv'
<1>1. /\ op[a] \in Operation
      /\ revisions \in Seq(SUBSET StoredDefinitions) /\ referenced \subseteq PolicyIDs
      /\ stale \in BOOLEAN /\ unfinished \in BOOLEAN /\ overlapped \in BOOLEAN
      /\ calls \in Nat /\ faults \in Nat
  BY Typing
<1>2. unfinished' \in BOOLEAN BY <1>1 DEF CallFails
<1>3. faults' \in Nat BY <1>1 DEF CallFails
<1>4. CASE op[a].pc = "write"
  <2>1. op' = importPersistenceError(a) BY <1>4 DEF CallFails
  <2> QED BY <1>2, <1>3, <2>1, FailStep DEF CallFails
<1>5. CASE op[a].pc \in {"list", "number", "record"}
  <2> DEFINE o == [op[a] EXCEPT !.pc = "invalidate"]
  <2>1. op' = [op EXCEPT ![a] = o] BY <1>5 DEF CallFails
  <2>2. o \in Operation /\ OpShape(o) /\ DeleteInv(o) BY <1>1, FinalStages
  <2> HIDE DEF o
  <2> QED BY <1>1, <1>2, <1>3, <2>1, <2>2, OpStep DEF CallFails
<1>6. CASE op[a].pc \notin {"write", "list", "number", "record"}
  <2>1. op' = [op EXCEPT ![a] = NoOp] BY <1>6 DEF CallFails
  <2> QED BY <1>1, <1>2, <1>3, <2>1, NoOpIsFine, OpStep DEF CallFails
<1> QED BY <1>4, <1>5, <1>6

LEMMA AbandonStep ==
    ASSUME StoreInv, NEW a \in Admins, Abandon(a)
    PROVE  StoreInv'
<1>1. /\ op[a] \in Operation
      /\ revisions \in Seq(SUBSET StoredDefinitions) /\ referenced \subseteq PolicyIDs
      /\ stale \in BOOLEAN /\ unfinished \in BOOLEAN /\ overlapped \in BOOLEAN
      /\ calls \in Nat /\ faults \in Nat
  BY Typing
<1>2. unfinished' \in BOOLEAN BY <1>1 DEF Abandon
<1>3. faults' \in Nat BY <1>1 DEF Abandon
<1> QED BY <1>1, <1>2, <1>3, NoOpIsFine, OpStep DEF Abandon

\* A step that leaves policies, versions and requests alone.
LEMMA StoreStep ==
    ASSUME StoreInv, UNCHANGED <<policies, versions, revisions, op, stale, faults, unfinished,
                                 overlapped>>,
           upstreams' \in [UpstreamIDs -> UpstreamRecord \cup {None}],
           retired \subseteq retired', retired' \subseteq PolicyIDs \cup UpstreamIDs,
           referenced' \subseteq PolicyIDs, calls' \in Nat
    PROVE  StoreInv'
<1>1. /\ TypeOK /\ HistoryIntact
      /\ \A b \in Admins : OpShape(op[b]) /\ DeleteInv(op[b])
  BY DEF StoreInv
<1>2. TypeOK' BY <1>1 DEF TypeOK
<1>3. HistoryIntact' BY <1>1 DEF HistoryIntact
<1>4. \A b \in Admins : DeleteInv(op[b])' BY <1>1 DEF DeleteInv
<1>5. \A b \in Admins : OpShape(op[b])' BY <1>1 DEF OpShape
<1> QED BY <1>2, <1>3, <1>4, <1>5 DEF StoreInv

\* Rows that requests write are upstream records.
LEMMA WrittenUpstream ==
    ASSUME NEW r \in Requests \cup {InitialUpstream}, NEW row \in UpstreamRecord
    PROVE  UpstreamRow(r, "none") \in UpstreamRecord /\ UpstreamRow(r, row.auth) \in UpstreamRecord
<1>1. row.auth \in Auths
  <2>1. PICK q \in Requests \cup {InitialUpstream}, kept \in Auths : row = UpstreamRow(q, kept)
    BY DEF UpstreamRecord
  <2>2. row.auth = authColumns(q.auth, kept) BY <2>1 DEF UpstreamRow
  <2> QED BY <2>2 DEF authColumns, Auths
<1>2. "none" \in Auths BY DEF Auths
<1> QED BY <1>1, <1>2 DEF UpstreamRecord

LEMMA FirstUpstream ==
    ASSUME NEW r \in Requests \cup {InitialUpstream}
    PROVE  UpstreamRow(r, "none") \in UpstreamRecord
BY DEF UpstreamRecord, Auths

LEMMA UpstreamRequestStep ==
    ASSUME StoreInv, NEW a \in Admins, UpstreamRequest(a)
    PROVE  StoreInv'
<1>1. /\ op[a] \in Operation /\ OpShape(op[a])
      /\ revisions \in Seq(SUBSET StoredDefinitions) /\ referenced \subseteq PolicyIDs
      /\ stale \in BOOLEAN /\ unfinished \in BOOLEAN /\ overlapped \in BOOLEAN
      /\ calls \in Nat /\ faults \in Nat
  BY Typing
<1>2. /\ upstreams \in [UpstreamIDs -> UpstreamRecord \cup {None}]
      /\ retired \subseteq PolicyIDs \cup UpstreamIDs
  BY DEF StoreInv, TypeOK
<1>3. CASE createUpstream(a)
  <2>1. PICK u \in UpstreamIDs, r \in Requests : CreateUpstream(a, u, r)
    BY <1>3 DEF createUpstream
  <2>2. UpstreamRow(r, "none") \in UpstreamRecord BY FirstUpstream
  <2>3. upstreams' \in [UpstreamIDs -> UpstreamRecord \cup {None}]
    BY <1>2, <2>1, <2>2 DEF CreateUpstream, InsertUpstream
  <2>4. calls' \in Nat BY <1>1, <2>1 DEF CreateUpstream
  <2> QED BY <1>1, <1>2, <2>1, <2>3, <2>4, StoreStep DEF CreateUpstream
<1>4. CASE updateUpstream(a)
  <2>1. PICK u \in UpstreamIDs, r \in Requests : UpdateUpstream(a, u, r)
    BY <1>4 DEF updateUpstream
  <2> DEFINE o == [NoOp EXCEPT !.pc = "write", !.kind = "upstream", !.upstream = u,
                               !.request = r]
  <2>2. op' = [op EXCEPT ![a] = o] BY <2>1 DEF UpdateUpstream
  <2>3. o \in Operation /\ OpShape(o) /\ DeleteInv(o)
    BY NoOpIsFine DEF NoOp, Operation, PCs, Kinds, OpShape, DeleteInv
  <2>4. calls' \in Nat BY <1>1, <2>1 DEF UpdateUpstream
  <2>5. overlapped' \in BOOLEAN BY <1>1, <2>1 DEF UpdateUpstream
  <2> HIDE DEF o
  <2> QED BY <1>1, <2>1, <2>2, <2>3, <2>4, <2>5, OpStep DEF UpdateUpstream
<1>5. CASE UpdateUpstreamRow(a)
  <2> DEFINE u == op[a].upstream
  <2>1. u \in UpstreamIDs /\ op[a].request \in Requests
    BY <1>1, <1>5 DEF UpdateUpstreamRow, OpShape
  <2>2. upstreams' \in [UpstreamIDs -> UpstreamRecord \cup {None}]
    <3>1. CASE upstreams[u] # None
      <4>1. upstreams[u] \in UpstreamRecord BY <1>2, <2>1, <3>1
      <4>2. UpstreamRow(op[a].request, upstreams[u].auth) \in UpstreamRecord
        BY <2>1, <4>1, WrittenUpstream
      <4> QED BY <1>2, <1>5, <2>1, <4>2 DEF UpdateUpstreamRow
    <3>2. CASE upstreams[u] = None BY <1>2, <1>5, <3>2 DEF UpdateUpstreamRow
    <3> QED BY <3>1, <3>2
  <2>3. op' = [op EXCEPT ![a] = NoOp] BY <1>5 DEF UpdateUpstreamRow
  <2>4. /\ TypeOK /\ HistoryIntact
        /\ \A b \in Admins : OpShape(op[b]) /\ DeleteInv(op[b])
    BY DEF StoreInv
  <2>5. /\ op' \in [Admins -> Operation]
        /\ op'[a] = NoOp
        /\ \A b \in Admins \ {a} : op'[b] = op[b]
        /\ \A b \in Admins : OpShape(op'[b])
    BY <2>3, <2>4, NoOpIsFine, OpKeeps
  <2>6. UNCHANGED <<policies, versions, revisions, retired, referenced, stale, calls, faults,
                    unfinished, overlapped>>
    BY <1>5 DEF UpdateUpstreamRow
  <2>7. TypeOK' BY <2>2, <2>4, <2>5, <2>6 DEF TypeOK
  <2>8. HistoryIntact' BY <2>4, <2>6 DEF HistoryIntact
  <2>9. \A b \in Admins : DeleteInv(op[b])' BY <2>4, <2>5, <2>6 DEF DeleteInv, NoOp
  <2>10. \A b \in Admins : OpShape(op[b])' BY <2>5 DEF OpShape
  <2> QED BY <2>7, <2>8, <2>9, <2>10 DEF StoreInv
<1>6. CASE deleteUpstream(a)
  <2>1. PICK u \in UpstreamIDs : DeleteUpstream(a, u) BY <1>6 DEF deleteUpstream
  <2>2. upstreams' \in [UpstreamIDs -> UpstreamRecord \cup {None}]
    BY <1>2, <2>1 DEF DeleteUpstream
  <2>3. calls' \in Nat BY <1>1, <2>1 DEF DeleteUpstream
  <2>4. retired \subseteq retired' /\ retired' \subseteq PolicyIDs \cup UpstreamIDs
    BY <1>2, <2>1 DEF DeleteUpstream
  <2> QED BY <1>1, <2>1, <2>2, <2>3, <2>4, StoreStep DEF DeleteUpstream
<1> QED BY <1>3, <1>4, <1>5, <1>6 DEF UpstreamRequest

LEMMA RecordDecisionStep ==
    ASSUME StoreInv, NEW p \in PolicyIDs, RecordDecision(p)
    PROVE  StoreInv'
<1>1. /\ upstreams \in [UpstreamIDs -> UpstreamRecord \cup {None}]
      /\ retired \subseteq PolicyIDs \cup UpstreamIDs /\ referenced \subseteq PolicyIDs
      /\ calls \in Nat
  BY DEF StoreInv, TypeOK
<1>2. referenced' \subseteq PolicyIDs BY <1>1 DEF RecordDecision
<1> QED BY <1>1, <1>2, StoreStep DEF RecordDecision

LEMMA InitStore == Init => StoreInv
<1> SUFFICES ASSUME Init PROVE StoreInv OBVIOUS
<1> USE DEF Init
<1>1. upstreams \in [UpstreamIDs -> UpstreamRecord \cup {None}] BY FirstUpstream
<1>2. op \in [Admins -> Operation] BY NoOpIsFine
<1>3. versions \in [PolicyIDs -> {versions[p] : p \in PolicyIDs}] OBVIOUS
<1>4. \A p \in PolicyIDs : /\ versions[p] \in [DOMAIN versions[p] -> StoredDefinitions]
                           /\ DOMAIN versions[p] = {}
  <2> SUFFICES ASSUME NEW p \in PolicyIDs
               PROVE  versions[p] \in [DOMAIN versions[p] -> StoredDefinitions]
                      /\ DOMAIN versions[p] = {}
    OBVIOUS
  <2>1. versions[p] = <<>> OBVIOUS
  <2> QED BY <2>1
<1>5. policies \in [PolicyIDs -> PolicyRow \cup {None}] OBVIOUS
<1>6. revisions \in Seq(SUBSET StoredDefinitions) OBVIOUS
<1>7. TypeOK BY <1>1, <1>2, <1>3, <1>4, <1>5, <1>6 DEF TypeOK
<1>8. HistoryIntact BY <1>4 DEF HistoryIntact
<1>9. \A a \in Admins : OpShape(op[a]) /\ DeleteInv(op[a]) BY NoOpIsFine
<1> QED BY <1>7, <1>8, <1>9 DEF StoreInv

LEMMA NextStore == ASSUME StoreInv, [Next]_vars PROVE StoreInv'
<1>1. ASSUME NEW a \in Admins, PolicyRequest(a) PROVE StoreInv' BY <1>1, PolicyRequestStep
<1>2. ASSUME NEW a \in Admins, PolicyWrite(a) PROVE StoreInv' BY <1>2, PolicyWriteStep
<1>3. ASSUME NEW a \in Admins, finalizeTenantMutation(a) PROVE StoreInv'
  BY <1>3, FinalizeStep
<1>4. ASSUME NEW a \in Admins, UpstreamRequest(a) PROVE StoreInv' BY <1>4, UpstreamRequestStep
<1>5. ASSUME NEW p \in PolicyIDs, RecordDecision(p) PROVE StoreInv' BY <1>5, RecordDecisionStep
<1>6. ASSUME NEW a \in Admins, CallFails(a) PROVE StoreInv' BY <1>6, CallFailsStep
<1>7. ASSUME NEW a \in Admins, Abandon(a) PROVE StoreInv' BY <1>7, AbandonStep
<1>8. CASE UNCHANGED vars
  <2>1. /\ upstreams \in [UpstreamIDs -> UpstreamRecord \cup {None}]
        /\ retired \subseteq PolicyIDs \cup UpstreamIDs /\ referenced \subseteq PolicyIDs
        /\ calls \in Nat
    BY DEF StoreInv, TypeOK
  <2> QED BY <1>8, <2>1, StoreStep DEF vars
<1> QED BY <1>1, <1>2, <1>3, <1>4, <1>5, <1>6, <1>7, <1>8 DEF Next

\* Rows, versions and requests keep their shape in every behaviour.
THEOREM StoreInvariance == Spec => []StoreInv
<1>1. Init => StoreInv BY InitStore
<1>2. StoreInv /\ [Next]_vars => StoreInv' BY NextStore
<1> QED BY <1>1, <1>2, PTL DEF Spec

\* The stored rows and versions always decode (scanPolicy, scanUpstream), and
\* requests carry what their stage needs.
THEOREM StoreTypeCorrect == Spec => []TypeOK
<1>1. StoreInv => TypeOK BY DEF StoreInv
<1> QED BY <1>1, StoreInvariance, PTL

\* However updates, rollbacks, imports, prunings and deletions interleave, a
\* policy keeps exactly its newest versions and the newest is the row in force
\* (policy_versions.go).
THEOREM VersionHistory == Spec => []HistoryIntact
<1>1. StoreInv => HistoryIntact BY DEF StoreInv
<1> QED BY <1>1, StoreInvariance, PTL

\* What a step can do to rows and versions.
LEMMA RowSteps ==
    ASSUME StoreInv, [Next]_vars
    PROVE  \/ UNCHANGED <<policies, versions>>
           \/ \E a \in Admins, p \in PolicyIDs, d \in StoredDefinitions : \E o : Commit(a, p, d, o)
           \/ \E a \in Admins, p \in PolicyIDs : Remove(a, p)
<1>1. ASSUME NEW a \in Admins, PolicyRequest(a) PROVE UNCHANGED <<policies, versions>>
  BY <1>1 DEF PolicyRequest, createPolicy, updatePolicy, rollbackPolicy, deletePolicy,
              importPolicies, Create, Update, RollbackToVersion, Delete, ImportPolicies,
              StartPolicyOp
<1>2. ASSUME NEW a \in Admins, PolicyWrite(a)
      PROVE  \/ UNCHANGED <<policies, versions>>
             \/ \E p \in PolicyIDs, d \in StoredDefinitions : \E o : Commit(a, p, d, o)
             \/ \E p \in PolicyIDs : Remove(a, p)
  BY <1>2, WriteCases DEF existingPoliciesByName, WriteFails
<1>3. ASSUME NEW a \in Admins, finalizeTenantMutation(a) PROVE UNCHANGED <<policies, versions>>
  BY <1>3 DEF finalizeTenantMutation, ListForRevision, NextGeneration, CreateRevision,
              InvalidateTenant
<1>4. ASSUME NEW a \in Admins, UpstreamRequest(a) PROVE UNCHANGED <<policies, versions>>
  BY <1>4 DEF UpstreamRequest, createUpstream, updateUpstream, deleteUpstream, CreateUpstream,
              UpdateUpstream, UpdateUpstreamRow, DeleteUpstream
<1>5. ASSUME NEW p \in PolicyIDs, RecordDecision(p) PROVE UNCHANGED <<policies, versions>>
  BY <1>5 DEF RecordDecision
<1>6. ASSUME NEW a \in Admins, CallFails(a) \/ Abandon(a)
      PROVE  UNCHANGED <<policies, versions>>
  BY <1>6 DEF CallFails, Abandon
<1>7. CASE UNCHANGED vars BY <1>7 DEF vars
<1>8. CASE \E a \in Admins : PolicyWrite(a)
  <2>1. PICK a \in Admins : PolicyWrite(a) BY <1>8
  <2> QED BY <1>2, <2>1
<1> QED BY <1>1, <1>3, <1>4, <1>5, <1>6, <1>7, <1>8 DEF Next

\* A version number never comes to mean another definition: rows only change
\* under a higher number and retained versions are never rewritten
\* (policy_versions.go, upsertPolicyVersion).
THEOREM VersionNumbersKeepTheirMeaning == Spec => VersionsImmutable
<1> DEFINE Kept(p) ==
        policies[p] # None /\ policies'[p] # None =>
            /\ policies'[p] # policies[p] => policies'[p].version > policies[p].version
            /\ \A k \in DOMAIN versions[p] \cap DOMAIN versions'[p] :
                    versions'[p][k] = versions[p][k]
<1>1. ASSUME StoreInv, [Next]_vars, NEW q \in PolicyIDs
      PROVE  Kept(q)
  <2>1. CASE UNCHANGED <<policies, versions>> BY <2>1
  <2>2. ASSUME NEW a \in Admins, NEW p \in PolicyIDs, NEW d \in StoredDefinitions, NEW o,
               Commit(a, p, d, o)
        PROVE  Kept(q)
    <3>1. TypeOK /\ HistoryIntact BY <1>1 DEF StoreInv
    <3>2. SavePolicy(p, d, CurrentVersion(p) + 1) BY <2>2 DEF Commit
    <3>3. /\ policies' = [policies EXCEPT ![p] = [def |-> d, version |-> CurrentVersion(p) + 1]]
          /\ \A r \in PolicyIDs \ {p} : /\ policies'[r] = policies[r]
                                        /\ versions'[r] = versions[r]
          /\ \A k \in DOMAIN versions'[p] :
               versions'[p][k] = IF k = CurrentVersion(p) + 1 THEN d ELSE versions[p][k]
      BY <3>1, <3>2, SaveKeeps
    <3>4. DOMAIN versions[p] = Newest(CurrentVersion(p)) /\ CurrentVersion(p) \in Nat
      BY <3>1, HistoryOf
    <3>5. CurrentVersion(p) + 1 \notin DOMAIN versions[p] BY <3>4 DEF Newest
    <3>6. CASE q # p BY <3>3, <3>6
    <3>7. CASE q = p
      <4>1. policies[p] # None => policies'[p].version > policies[p].version
        <5>1. policies'[p].version = CurrentVersion(p) + 1 BY <3>1, <3>3 DEF TypeOK
        <5> QED BY <3>4, <5>1 DEF CurrentVersion
      <4>2. \A k \in DOMAIN versions[p] \cap DOMAIN versions'[p] :
                versions'[p][k] = versions[p][k]
        BY <3>3, <3>5
      <4> QED BY <3>7, <4>1, <4>2
    <3> QED BY <3>6, <3>7
  <2>3. ASSUME NEW a \in Admins, NEW p \in PolicyIDs, Remove(a, p)
        PROVE  Kept(q)
    <3>1. /\ policies'[p] = None
          /\ \A r \in PolicyIDs \ {p} : /\ policies'[r] = policies[r]
                                        /\ versions'[r] = versions[r]
      BY <1>1, <2>3 DEF Remove, StoreInv, TypeOK
    <3> QED BY <3>1
  <2> QED BY <1>1, <2>1, <2>2, <2>3, RowSteps
<1>2. StoreInv /\ [Next]_vars => [\A p \in PolicyIDs : Kept(p)]_vars BY <1>1
<1> QED BY <1>2, StoreInvariance, PTL DEF Spec, VersionsImmutable

\* Delete's check and its transaction are apart, yet an enabled policy is only
\* deleted when it changed after the check (policy.go, Delete).
THEOREM EnabledPolicyDeletion == Spec => EnabledDeletedOnlyByRace
<1> DEFINE Raced(p) ==
        policies[p] # None /\ policies'[p] = None /\ policies[p].def.enabled =>
            \E a \in Admins : /\ op[a].kind = "delete" /\ op[a].policy = p
                              /\ op[a].number < policies[p].version
<1>1. ASSUME StoreInv, [Next]_vars, NEW q \in PolicyIDs
      PROVE  Raced(q)
  <2>1. CASE UNCHANGED <<policies, versions>> BY <2>1
  <2>2. ASSUME NEW a \in Admins, NEW p \in PolicyIDs, NEW d \in StoredDefinitions, NEW o,
               Commit(a, p, d, o)
        PROVE  Raced(q)
    <3>1. TypeOK /\ HistoryIntact BY <1>1 DEF StoreInv
    <3>2. SavePolicy(p, d, CurrentVersion(p) + 1) BY <2>2 DEF Commit
    <3>3. /\ policies'[p] # None
          /\ \A r \in PolicyIDs \ {p} : policies'[r] = policies[r]
      BY <3>1, <3>2, SaveKeeps
    <3> QED BY <3>3
  <2>3. ASSUME NEW a \in Admins, NEW p \in PolicyIDs, Remove(a, p)
        PROVE  Raced(q)
    <3>1. \A r \in PolicyIDs \ {p} : policies'[r] = policies[r]
      BY <1>1, <2>3 DEF Remove, StoreInv, TypeOK
    <3>2. policies[p].def.enabled => op[a].number < policies[p].version
      BY <1>1, <2>3 DEF Remove, StoreInv, DeleteInv
    <3> QED BY <2>3, <3>1, <3>2 DEF Remove
  <2> QED BY <1>1, <2>1, <2>2, <2>3, RowSteps
<1>2. StoreInv /\ [Next]_vars => [\A p \in PolicyIDs : Raced(p)]_vars BY <1>1
<1> QED BY <1>2, StoreInvariance, PTL DEF Spec, EnabledDeletedOnlyByRace

-----------------------------------------------------------------------------
(* The second induction: commits that still have to be recorded.           *)

\* Requests that will invalidate, and requests that will record the policy
\* set as it is now.
Ending(o) == \/ o.pc \in {"list", "number", "record", "invalidate"}
             \/ o.pc = "write" /\ o.mutated

WillRecord(o) == \/ o.pc = "list"
                 \/ o.pc = "write" /\ o.mutated
                 \/ o.pc \in {"number", "record"} /\ o.hash = HashPolicies

Recorded == \E i \in 1..Len(revisions) : revisions[i] = HashPolicies

SomethingWritten == PolicyRows # {} \/ retired \cap PolicyIDs # {}

\* Only a fault keeps a commit from being invalidated, and only an error that
\* was answered after it from being recorded.
RecordInv ==
    /\ stale /\ (faults = 0 \/ ~unfinished) => \E a \in Admins : Ending(op[a])
    /\ ~unfinished /\ SomethingWritten => Recorded \/ \E a \in Admins : WillRecord(op[a])

\* A request that moves on without a commit keeps what it owes.
LEMMA RecordStep ==
    ASSUME StoreInv, RecordInv, NEW a \in Admins, NEW o, op' = [op EXCEPT ![a] = o],
           UNCHANGED <<policies, retired, revisions, stale>>,
           (faults' = 0 => faults = 0), (unfinished => unfinished'),
           Ending(op[a]) /\ (faults' = 0 \/ ~unfinished') => Ending(o),
           WillRecord(op[a]) /\ ~unfinished' => WillRecord(o)
    PROVE  RecordInv'
<1>1. op \in [Admins -> Operation] BY DEF StoreInv, TypeOK
<1>2. op'[a] = o /\ \A b \in Admins \ {a} : op'[b] = op[b] BY <1>1
<1>3. HashPolicies' = HashPolicies /\ SomethingWritten' = SomethingWritten /\ Recorded' = Recorded
  BY DEF HashPolicies, SomethingWritten, PolicyRows, Recorded
<1>4. ASSUME stale', faults' = 0 \/ ~unfinished' PROVE \E b \in Admins : Ending(op'[b])
  <2>1. PICK b \in Admins : Ending(op[b]) BY <1>4 DEF RecordInv
  <2> QED BY <1>2, <1>4, <2>1
<1>5. ASSUME ~unfinished', SomethingWritten', ~Recorded'
      PROVE  \E b \in Admins : WillRecord(op'[b])
  <2>1. PICK b \in Admins : WillRecord(op[b]) BY <1>3, <1>5 DEF RecordInv
  <2> QED BY <1>2, <1>5, <2>1
<1>6. \A b \in Admins : /\ Ending(op'[b]) => Ending(op[b])'
                        /\ WillRecord(op'[b]) => WillRecord(op[b])'
  BY <1>3 DEF Ending, WillRecord
<1> QED BY <1>4, <1>5, <1>6 DEF RecordInv

LEMMA RecordWrites ==
    ASSUME StoreInv, RecordInv, NEW a \in Admins, PolicyWrite(a)
    PROVE  RecordInv'
<1>1. op \in [Admins -> Operation] BY DEF StoreInv, TypeOK
<1>2. CASE existingPoliciesByName(a)
  <2> DEFINE o == IF op[a].todo = <<>> THEN NoOp
                  ELSE [op[a] EXCEPT !.pc = "write",
                          !.names = [s \in {policies[p].def.name : p \in PolicyRows} |->
                                       CHOOSE p \in PolicyRows : policies[p].def.name = s]]
  <2>1. op' = [op EXCEPT ![a] = o] /\ op[a].pc = "lookup" BY <1>2 DEF existingPoliciesByName
  <2>2. ~Ending(op[a]) /\ ~WillRecord(op[a]) BY <2>1 DEF Ending, WillRecord
  <2> HIDE DEF o
  <2> QED BY <1>2, <2>1, <2>2, RecordStep DEF existingPoliciesByName
<1>3. CASE op[a].pc = "write" /\ WriteFails(a)
  <2> DEFINE o == IF op[a].mutated THEN [op[a] EXCEPT !.pc = "list"] ELSE NoOp
  <2>1. op' = [op EXCEPT ![a] = o] BY <1>3 DEF WriteFails, importPersistenceError
  <2>2. Ending(op[a]) => Ending(o) BY <1>1, <1>3 DEF Ending, Operation
  <2>3. WillRecord(op[a]) => WillRecord(o) BY <1>1, <1>3 DEF WillRecord, Operation
  <2> HIDE DEF o
  <2> QED BY <1>3, <2>1, <2>2, <2>3, RecordStep DEF WriteFails
<1>4. ASSUME NEW o, WriteDone(a, o), o.pc = "list" \/ (o.pc = "write" /\ o.mutated)
      PROVE  RecordInv'
  <2>1. op'[a] = o BY <1>1, <1>4 DEF WriteDone
  <2>2. Ending(op[a])' /\ WillRecord(op[a])' BY <1>4, <2>1 DEF Ending, WillRecord
  <2> QED BY <2>2 DEF RecordInv
<1>5. ASSUME NEW p \in PolicyIDs, NEW d \in StoredDefinitions, NEW o, Commit(a, p, d, o)
      PROVE  RecordInv'
  BY <1>4, <1>5, CommitOp DEF Commit
<1>6. ASSUME NEW p \in PolicyIDs, Remove(a, p) PROVE RecordInv'
  <2>1. [op[a] EXCEPT !.pc = "list"].pc = "list" BY <1>1 DEF Operation
  <2> QED BY <1>4, <1>6, <2>1 DEF Remove
<1> QED BY <1>2, <1>3, <1>5, <1>6, WriteCases

LEMMA RecordFinalize ==
    ASSUME StoreInv, RecordInv, NEW a \in Admins, finalizeTenantMutation(a)
    PROVE  RecordInv'
<1>1. op \in [Admins -> Operation] /\ revisions \in Seq(SUBSET StoredDefinitions)
  BY DEF StoreInv, TypeOK
<1>2. CASE ListForRevision(a)
  <2> DEFINE o == [op[a] EXCEPT !.pc = "number", !.hash = HashPolicies]
  <2>1. op' = [op EXCEPT ![a] = o] BY <1>1, <1>2 DEF ListForRevision, Operation
  <2>2. o.pc = "number" /\ o.hash = HashPolicies BY <1>1 DEF Operation
  <2> HIDE DEF o
  <2>3. Ending(o) /\ WillRecord(o) BY <2>2 DEF Ending, WillRecord
  <2> QED BY <1>2, <2>1, <2>3, RecordStep DEF ListForRevision
<1>3. CASE NextGeneration(a)
  <2> DEFINE o == [op[a] EXCEPT !.pc = "record", !.number = Len(revisions) + 1]
  <2>1. op' = [op EXCEPT ![a] = o] BY <1>1, <1>3 DEF NextGeneration, Operation
  <2>2. o.pc = "record" /\ o.hash = op[a].hash BY <1>1 DEF Operation
  <2> HIDE DEF o
  <2>3. Ending(o) /\ (WillRecord(op[a]) => WillRecord(o))
    BY <1>3, <2>2 DEF NextGeneration, Ending, WillRecord
  <2> QED BY <1>3, <2>1, <2>3, RecordStep DEF NextGeneration
<1>4. CASE CreateRevision(a)
  <2> DEFINE o == [op[a] EXCEPT !.pc = "invalidate"]
  <2>1. op' = [op EXCEPT ![a] = o] BY <1>4 DEF CreateRevision
  <2>2. o.pc = "invalidate" BY <1>1 DEF Operation
  <2>3. op'[a] = o /\ \A b \in Admins \ {a} : op'[b] = op[b] BY <1>1, <2>1
  <2>4. Ending(op[a])' BY <2>2, <2>3 DEF Ending
  <2>5. ASSUME ~unfinished', SomethingWritten'
        PROVE  Recorded' \/ \E b \in Admins : WillRecord(op[b])'
    <3>1. /\ revisions' = Append(revisions, op[a].hash)
          /\ UNCHANGED <<policies, retired, unfinished>>
      BY <1>4, <2>5 DEF CreateRevision
    <3>2. /\ Len(revisions') = Len(revisions) + 1 /\ Len(revisions) \in Nat
          /\ revisions'[Len(revisions) + 1] = op[a].hash
          /\ \A i \in 1..Len(revisions) : revisions'[i] = revisions[i]
      BY <1>1, <3>1
    <3>3. HashPolicies' = HashPolicies /\ SomethingWritten
      BY <2>5, <3>1 DEF HashPolicies, PolicyRows, SomethingWritten
    <3>4. CASE Recorded BY <3>2, <3>3, <3>4 DEF Recorded
    <3>5. CASE ~Recorded
      <4>1. PICK b \in Admins : WillRecord(op[b]) BY <2>5, <3>1, <3>3, <3>5 DEF RecordInv
      <4>2. CASE b = a
        <5>1. op[a].hash = HashPolicies BY <1>4, <4>1, <4>2 DEF CreateRevision, WillRecord
        <5> QED BY <3>2, <3>3, <5>1 DEF Recorded
      <4>3. CASE b # a BY <2>3, <3>3, <4>1, <4>3 DEF WillRecord
      <4> QED BY <4>2, <4>3
    <3> QED BY <3>4, <3>5
  <2> QED BY <2>4, <2>5 DEF RecordInv
<1>5. CASE InvalidateTenant(a)
  <2>1. /\ op[a].pc = "invalidate" /\ ~stale'
        /\ UNCHANGED <<policies, retired, revisions, unfinished>>
        /\ \A b \in Admins \ {a} : op'[b] = op[b]
    BY <1>1, <1>5 DEF InvalidateTenant
  <2>2. ~WillRecord(op[a]) BY <2>1 DEF WillRecord
  <2>3. /\ HashPolicies' = HashPolicies /\ SomethingWritten' = SomethingWritten
        /\ Recorded' = Recorded
    BY <2>1 DEF HashPolicies, SomethingWritten, PolicyRows, Recorded
  <2>4. ASSUME ~unfinished', SomethingWritten', ~Recorded'
        PROVE  \E b \in Admins : WillRecord(op[b])'
    <3>1. PICK b \in Admins : WillRecord(op[b]) BY <2>1, <2>3, <2>4 DEF RecordInv
    <3> QED BY <2>1, <2>2, <2>3, <3>1 DEF WillRecord
  <2> QED BY <2>1, <2>4 DEF RecordInv
<1> QED BY <1>2, <1>3, <1>4, <1>5 DEF finalizeTenantMutation

LEMMA RecordStart ==
    ASSUME StoreInv, RecordInv, NEW a \in Admins, NEW o, op[a].pc = "idle",
           op' = [op EXCEPT ![a] = o],
           UNCHANGED <<policies, retired, revisions, stale, faults, unfinished>>
    PROVE  RecordInv'
<1>1. ~Ending(op[a]) /\ ~WillRecord(op[a]) BY DEF Ending, WillRecord
<1> QED BY <1>1, RecordStep

\* Steps that touch neither policies nor requests.
LEMMA RecordIdle ==
    ASSUME RecordInv, UNCHANGED <<policies, revisions, stale, op, faults, unfinished>>,
           retired' \cap PolicyIDs = retired \cap PolicyIDs
    PROVE  RecordInv'
<1>1. /\ HashPolicies' = HashPolicies /\ SomethingWritten' = SomethingWritten
      /\ Recorded' = Recorded
  BY DEF HashPolicies, SomethingWritten, PolicyRows, Recorded
<1>2. \A b \in Admins : /\ Ending(op[b]) => Ending(op[b])'
                        /\ WillRecord(op[b]) => WillRecord(op[b])'
  BY <1>1 DEF Ending, WillRecord
<1> QED BY <1>1, <1>2 DEF RecordInv

LEMMA RecordRequests ==
    ASSUME StoreInv, RecordInv, NEW a \in Admins, PolicyRequest(a) \/ UpstreamRequest(a)
    PROVE  RecordInv'
<1>1. ASSUME NEW o, StartPolicyOp(a, o) PROVE RecordInv'
  BY <1>1, RecordStart DEF StartPolicyOp
<1>2. CASE PolicyRequest(a)
  BY <1>1, <1>2 DEF PolicyRequest, createPolicy, updatePolicy, rollbackPolicy, deletePolicy,
              importPolicies, Create, Update, RollbackToVersion, Delete, ImportPolicies
<1>3. CASE createUpstream(a)
  BY <1>3, RecordIdle DEF createUpstream, CreateUpstream
<1>4. CASE updateUpstream(a)
  <2>1. PICK u \in UpstreamIDs, r \in Requests : UpdateUpstream(a, u, r)
    BY <1>4 DEF updateUpstream
  <2> QED BY <2>1, RecordStart DEF UpdateUpstream
<1>5. CASE UpdateUpstreamRow(a)
  <2>1. op[a].kind = "upstream" /\ op[a].pc = "write" /\ op' = [op EXCEPT ![a] = NoOp]
    BY <1>5 DEF UpdateUpstreamRow
  <2>2. ~op[a].mutated BY <2>1, Typing DEF OpShape
  <2>3. ~Ending(op[a]) /\ ~WillRecord(op[a]) BY <2>1, <2>2 DEF Ending, WillRecord
  <2> QED BY <1>5, <2>1, <2>3, RecordStep DEF UpdateUpstreamRow
<1>6. CASE deleteUpstream(a)
  <2>1. PICK u \in UpstreamIDs : DeleteUpstream(a, u) BY <1>6 DEF deleteUpstream
  <2>2. retired' \cap PolicyIDs = retired \cap PolicyIDs
    BY <2>1, IdentityAssumption DEF DeleteUpstream
  <2> QED BY <2>1, <2>2, RecordIdle DEF DeleteUpstream
<1> QED BY <1>2, <1>3, <1>4, <1>5, <1>6 DEF UpstreamRequest

LEMMA RecordFaults ==
    ASSUME StoreInv, RecordInv, NEW a \in Admins, CallFails(a) \/ Abandon(a)
    PROVE  RecordInv'
<1>1. op \in [Admins -> Operation] /\ faults \in Nat /\ unfinished \in BOOLEAN
  BY DEF StoreInv, TypeOK
<1>2. faults' # 0 BY <1>1 DEF CallFails, Abandon
<1>3. CASE CallFails(a) /\ op[a].pc = "write"
  <2> DEFINE o == IF op[a].mutated THEN [op[a] EXCEPT !.pc = "list"] ELSE NoOp
  <2>1. op' = [op EXCEPT ![a] = o] BY <1>3 DEF CallFails, importPersistenceError
  <2>2. Ending(op[a]) => Ending(o) BY <1>1, <1>3 DEF Ending, Operation
  <2>3. WillRecord(op[a]) => WillRecord(o) BY <1>1, <1>3 DEF WillRecord, Operation
  <2>4. unfinished => unfinished' BY <1>3 DEF CallFails
  <2> HIDE DEF o
  <2> QED BY <1>2, <1>3, <2>1, <2>2, <2>3, <2>4, RecordStep DEF CallFails
<1>4. CASE CallFails(a) /\ op[a].pc \in {"list", "number", "record", "invalidate"}
  <2>1. unfinished' BY <1>4 DEF CallFails
  <2> QED BY <1>2, <2>1 DEF RecordInv
<1>5. CASE CallFails(a) /\ op[a].pc \notin {"write", "list", "number", "record", "invalidate"}
  <2>1. op' = [op EXCEPT ![a] = NoOp] /\ (unfinished => unfinished') BY <1>5 DEF CallFails
  <2>2. ~Ending(op[a]) /\ ~WillRecord(op[a]) BY <1>5 DEF Ending, WillRecord
  <2> QED BY <1>2, <1>5, <2>1, <2>2, RecordStep DEF CallFails
<1>6. CASE Abandon(a) /\ (op[a].mutated \/ Ending(op[a]))
  <2>1. unfinished' BY <1>6 DEF Abandon, Ending
  <2> QED BY <1>2, <2>1 DEF RecordInv
<1>7. CASE Abandon(a) /\ ~op[a].mutated /\ ~Ending(op[a])
  <2>1. op' = [op EXCEPT ![a] = NoOp] /\ (unfinished => unfinished') BY <1>7 DEF Abandon
  <2>2. ~WillRecord(op[a]) BY <1>7 DEF Ending, WillRecord
  <2> QED BY <1>2, <1>7, <2>1, <2>2, RecordStep DEF Abandon
<1> QED BY <1>3, <1>4, <1>5, <1>6, <1>7

LEMMA InitRecord == Init => RecordInv
BY DEF Init, RecordInv, SomethingWritten, PolicyRows

LEMMA NextRecord == ASSUME StoreInv, RecordInv, [Next]_vars PROVE RecordInv'
<1>1. ASSUME NEW a \in Admins, PolicyRequest(a) \/ UpstreamRequest(a) PROVE RecordInv'
  BY <1>1, RecordRequests
<1>2. ASSUME NEW a \in Admins, PolicyWrite(a) PROVE RecordInv' BY <1>2, RecordWrites
<1>3. ASSUME NEW a \in Admins, finalizeTenantMutation(a) PROVE RecordInv'
  BY <1>3, RecordFinalize
<1>4. ASSUME NEW a \in Admins, CallFails(a) \/ Abandon(a) PROVE RecordInv'
  BY <1>4, RecordFaults
<1>5. ASSUME NEW p \in PolicyIDs, RecordDecision(p) PROVE RecordInv'
  BY <1>5, RecordIdle DEF RecordDecision
<1>6. CASE UNCHANGED vars BY <1>6, RecordIdle DEF vars
<1> QED BY <1>1, <1>2, <1>3, <1>4, <1>5, <1>6 DEF Next

\* What requests still owe after a commit (policy.go, finalizeTenantMutation).
THEOREM RecordInvariance == Spec => []RecordInv
<1>1. Init => RecordInv BY InitRecord
<1>2. StoreInv /\ RecordInv /\ [Next]_vars => RecordInv' BY NextRecord
<1> QED BY <1>1, <1>2, StoreInvariance, PTL DEF Spec

\* When no call failed and no client went away, no decision cached before the
\* last commit is left once all requests ended (policy.go,
\* finalizeTenantMutation).
THEOREM CommitsAreInvalidated == Spec => []CommitsInvalidated
<1>1. RecordInv => CommitsInvalidated BY DEF RecordInv, CommitsInvalidated, Quiet, Ending
<1> QED BY <1>1, RecordInvariance, PTL

\* When every mutation was answered without an error after its commit, the
\* policy set in force has a revision (policy.go, createTenantPolicyRevision).
THEOREM SuccessfulMutationsAreRecorded == Spec => []SuccessIsRecorded
<1>1. RecordInv => SuccessIsRecorded
  BY DEF RecordInv, SuccessIsRecorded, Quiet, Ending, WillRecord, SomethingWritten, Recorded
<1> QED BY <1>1, RecordInvariance, PTL

-----------------------------------------------------------------------------
(* The third induction: scoped policies and their upstreams.               *)

\* The definition passed validateUpstreamScope, and no update since undid it:
\* at most the upstream was deleted, for good.
Checked(d) ==
    d.upstream # None =>
        IF upstreams[d.upstream] = None THEN d.upstream \in retired
        ELSE ValidateUpstreamCompatibility(d.type, upstreams[d.upstream])

PendingFits(o) ==
    /\ o.pc = "write" /\ o.kind \in {"create", "update"} => Checked(o.def)
    /\ o.pc \in {"lookup", "write"} /\ o.kind = "import" =>
            \A i \in 1..Len(o.todo) : Checked(o.todo[i])
    /\ o.pc = "write" /\ o.kind = "rollback" /\ o.number \in DOMAIN versions[o.policy] =>
            Checked(versions[o.policy][o.number])
    /\ o.pc = "write" /\ o.kind = "upstream" => validateScopedPolicies(o.upstream,
                                                    UpstreamRow(o.request, "none"))

ScopeInv ==
    ~overlapped =>
        /\ ScopedPoliciesFit
        /\ \A a \in Admins : PendingFits(op[a])
        /\ UpstreamWriters = {} \/ PolicyWriters = {}

\* The stored form of the credentials does not matter for compatibility.
LEMMA CompatibilityIgnoresAuth ==
    ASSUME NEW t, NEW r, NEW k1, NEW k2
    PROVE  ValidateUpstreamCompatibility(t, UpstreamRow(r, k1))
             = ValidateUpstreamCompatibility(t, UpstreamRow(r, k2))
BY DEF ValidateUpstreamCompatibility, EffectiveUpstreamCapabilities, UpstreamRow

IsPolicyWriter(o) == o.pc \in {"lookup", "write"} /\ o.kind \notin {"delete", "upstream"}
IsUpstreamWriter(o) == o.pc = "write" /\ o.kind = "upstream"

\* Requests that are neither have nothing pending that could stop to fit.
LEMMA OthersFit ==
    ASSUME NEW o, ~IsPolicyWriter(o), ~IsUpstreamWriter(o)
    PROVE  PendingFits(o)
BY DEF IsPolicyWriter, IsUpstreamWriter, PendingFits

\* A step of one request that leaves the tables alone.
LEMMA ScopeStep ==
    ASSUME StoreInv, ScopeInv, NEW a \in Admins, NEW o, op' = [op EXCEPT ![a] = o],
           UNCHANGED <<upstreams, policies, versions, retired>>,
           overlapped => overlapped',
           ~overlapped' => PendingFits(o),
           ~overlapped' /\ IsUpstreamWriter(o) => PolicyWriters = {},
           ~overlapped' /\ IsPolicyWriter(o) => UpstreamWriters = {} \/ IsPolicyWriter(op[a])
    PROVE  ScopeInv'
<1> SUFFICES ASSUME ~overlapped'
             PROVE  /\ ScopedPoliciesFit'
                    /\ \A b \in Admins : PendingFits(op[b])'
                    /\ UpstreamWriters' = {} \/ PolicyWriters' = {}
  BY DEF ScopeInv
<1>1. op \in [Admins -> Operation] BY DEF StoreInv, TypeOK
<1>2. op'[a] = o /\ \A b \in Admins \ {a} : op'[b] = op[b] BY <1>1
<1>3. /\ ScopedPoliciesFit
      /\ \A b \in Admins : PendingFits(op[b])
      /\ UpstreamWriters = {} \/ PolicyWriters = {}
  BY DEF ScopeInv
<1>4. ScopedPoliciesFit' BY <1>3 DEF ScopedPoliciesFit, PolicyRows, Fits
<1>5. \A d : Checked(d)' <=> Checked(d) BY DEF Checked
<1>6. ASSUME NEW b \in Admins PROVE PendingFits(op[b])'
  <2>1. PendingFits(op'[b]) BY <1>2, <1>3
  <2>2. op'[b].kind = "upstream" /\ op'[b].pc = "write" =>
            validateScopedPolicies(op[b].upstream, UpstreamRow(op[b].request, "none"))'
    BY <2>1 DEF PendingFits, validateScopedPolicies, PolicyRows
  <2> QED BY <1>5, <2>1, <2>2 DEF PendingFits
<1>7. UpstreamWriters' = {} \/ PolicyWriters' = {}
  <2>1. \A b \in Admins : /\ b \in PolicyWriters' <=> IsPolicyWriter(op'[b])
                          /\ b \in UpstreamWriters' <=> IsUpstreamWriter(op'[b])
                          /\ b \in PolicyWriters <=> IsPolicyWriter(op[b])
                          /\ b \in UpstreamWriters <=> IsUpstreamWriter(op[b])
    BY DEF PolicyWriters, UpstreamWriters, IsPolicyWriter, IsUpstreamWriter
  <2>2. PolicyWriters' \subseteq Admins /\ UpstreamWriters' \subseteq Admins
    BY DEF PolicyWriters, UpstreamWriters
  <2>3. CASE IsUpstreamWriter(o)
    <3>1. ~IsPolicyWriter(o) BY <2>3 DEF IsUpstreamWriter, IsPolicyWriter
    <3>2. PolicyWriters = {} BY <2>3
    <3> QED BY <1>2, <2>1, <2>2, <3>1, <3>2
  <2>4. CASE IsPolicyWriter(o)
    <3>1. ~IsUpstreamWriter(o) BY <2>4 DEF IsUpstreamWriter, IsPolicyWriter
    <3>2. UpstreamWriters = {} BY <1>3, <2>1, <2>4
    <3> QED BY <1>2, <2>1, <2>2, <3>1, <3>2
  <2>5. CASE ~IsUpstreamWriter(o) /\ ~IsPolicyWriter(o)
    BY <1>2, <1>3, <2>1, <2>2, <2>5
  <2> QED BY <2>3, <2>4, <2>5
<1> QED BY <1>4, <1>6, <1>7

\* A request that ends, or goes on to record and invalidate.
LEMMA ScopeEnd ==
    ASSUME StoreInv, ScopeInv, NEW a \in Admins, NEW o, op' = [op EXCEPT ![a] = o],
           o.pc \notin {"lookup", "write"},
           UNCHANGED <<upstreams, policies, versions, retired, overlapped>>
    PROVE  ScopeInv'
<1>1. ~IsPolicyWriter(o) /\ ~IsUpstreamWriter(o) BY DEF IsPolicyWriter, IsUpstreamWriter
<1> QED BY <1>1, OthersFit, ScopeStep

\* validateUpstreamScope establishes what Checked remembers.
LEMMA ScopeChecked ==
    ASSUME NEW d, validateUpstreamScope(d)
    PROVE  Checked(d)
BY DEF validateUpstreamScope, Checked

LEMMA ScopePolicyRequest ==
    ASSUME StoreInv, ScopeInv, NEW a \in Admins, PolicyRequest(a)
    PROVE  ScopeInv'
<1>1. ASSUME NEW o, StartPolicyOp(a, o), PendingFits(o), ~IsUpstreamWriter(o),
             IsPolicyWriter(o) => o.kind # "delete"
      PROVE  ScopeInv'
  <2>1. overlapped => overlapped' BY <1>1 DEF StartPolicyOp
  <2>2. ~overlapped' /\ IsPolicyWriter(o) => UpstreamWriters = {}
    BY <1>1 DEF StartPolicyOp
  <2> QED BY <1>1, <2>1, <2>2, ScopeStep DEF StartPolicyOp
<1>2. CASE createPolicy(a)
  <2>1. PICK d \in Definitions : Create(a, policyFromRequest(d)) BY <1>2 DEF createPolicy
  <2> DEFINE e == policyFromRequest(d)
             o == [NoOp EXCEPT !.pc = "write", !.kind = "create", !.def = e]
  <2>2. Checked(e) BY <2>1, ScopeChecked DEF Create, validatePolicyMutation
  <2>3. StartPolicyOp(a, o) BY <2>1 DEF Create
  <2> HIDE DEF e
  <2>4. o.pc = "write" /\ o.kind = "create" /\ o.def = e BY DEF NoOp
  <2> HIDE DEF o
  <2>5. PendingFits(o) /\ ~IsUpstreamWriter(o) BY <2>2, <2>4 DEF PendingFits, IsUpstreamWriter
  <2> QED BY <1>1, <2>3, <2>4, <2>5
<1>3. CASE updatePolicy(a)
  <2>1. PICK p \in PolicyIDs, d \in Definitions : Update(a, p, policyFromRequest(d))
    BY <1>3 DEF updatePolicy
  <2> DEFINE e == policyFromRequest(d)
             o == [NoOp EXCEPT !.pc = "write", !.kind = "update", !.policy = p, !.def = e]
  <2>2. Checked(e) BY <2>1, ScopeChecked DEF Update, validatePolicyMutation
  <2>3. StartPolicyOp(a, o) BY <2>1 DEF Update
  <2> HIDE DEF e
  <2>4. o.pc = "write" /\ o.kind = "update" /\ o.def = e BY DEF NoOp
  <2> HIDE DEF o
  <2>5. PendingFits(o) /\ ~IsUpstreamWriter(o) BY <2>2, <2>4 DEF PendingFits, IsUpstreamWriter
  <2> QED BY <1>1, <2>3, <2>4, <2>5
<1>4. CASE rollbackPolicy(a)
  <2>1. PICK p \in PolicyIDs, n \in 1..MaxCalls : RollbackToVersion(a, p, n)
    BY <1>4 DEF rollbackPolicy
  <2> DEFINE o == [NoOp EXCEPT !.pc = "write", !.kind = "rollback", !.policy = p, !.number = n]
  <2>2. n \in DOMAIN versions[p] => Checked(versions[p][n])
    BY <2>1, ScopeChecked DEF RollbackToVersion
  <2>3. StartPolicyOp(a, o) BY <2>1 DEF RollbackToVersion
  <2>4. o.pc = "write" /\ o.kind = "rollback" /\ o.policy = p /\ o.number = n BY DEF NoOp
  <2> HIDE DEF o
  <2>5. PendingFits(o) /\ ~IsUpstreamWriter(o) BY <2>2, <2>4 DEF PendingFits, IsUpstreamWriter
  <2> QED BY <1>1, <2>3, <2>4, <2>5
<1>5. CASE deletePolicy(a)
  <2>1. PICK p \in PolicyIDs, force \in BOOLEAN : Delete(a, p, force)
    BY <1>5 DEF deletePolicy
  <2> DEFINE o == [NoOp EXCEPT !.pc = "write", !.kind = "delete", !.policy = p,
                               !.force = force, !.number = policies[p].version]
  <2>2. StartPolicyOp(a, o) BY <2>1 DEF Delete
  <2>3. o.pc = "write" /\ o.kind = "delete" BY DEF NoOp
  <2> HIDE DEF o
  <2>4. ~IsPolicyWriter(o) /\ ~IsUpstreamWriter(o)
    BY <2>3 DEF IsPolicyWriter, IsUpstreamWriter
  <2> QED BY <1>1, <2>2, <2>4, OthersFit
<1>6. CASE importPolicies(a)
  <2>1. PICK ds \in Imports : ImportPolicies(a, toCorePolicyFile(ds))
    BY <1>6 DEF importPolicies
  <2> DEFINE cs == toCorePolicyFile(ds)
             o == [NoOp EXCEPT !.pc = "lookup", !.kind = "import", !.todo = cs]
  <2>2. \A i \in DOMAIN cs : Checked(cs[i])
    BY <2>1, ScopeChecked DEF ImportPolicies, prepareImportedPolicies
  <2>3. cs \in Seq(StoredDefinitions) BY <2>1, RequestedDefinition DEF ImportPolicies
  <2>4. StartPolicyOp(a, o) BY <2>1 DEF ImportPolicies
  <2> HIDE DEF cs
  <2>5. \A i \in 1..Len(cs) : Checked(cs[i]) BY <2>2, <2>3
  <2>6. o.pc = "lookup" /\ o.kind = "import" /\ o.todo = cs BY DEF NoOp
  <2> HIDE DEF o
  <2>7. PendingFits(o) /\ ~IsUpstreamWriter(o) BY <2>5, <2>6 DEF PendingFits, IsUpstreamWriter
  <2> QED BY <1>1, <2>4, <2>6, <2>7
<1> QED BY <1>2, <1>3, <1>4, <1>5, <1>6 DEF PolicyRequest

\* A commit writes a definition that was checked against an upstream which is
\* still there and still the same.
LEMMA ScopeCommit ==
    ASSUME StoreInv, ScopeInv, NEW a \in Admins, NEW p \in PolicyIDs,
           NEW d \in StoredDefinitions, NEW o, Commit(a, p, d, o)
    PROVE  ScopeInv'
<1>1. /\ op \in [Admins -> Operation] /\ TypeOK /\ HistoryIntact
      /\ op[a] \in Operation /\ OpShape(op[a])
  BY DEF StoreInv, TypeOK
<1>2. UNCHANGED <<upstreams, overlapped, retired>> /\ op' = [op EXCEPT ![a] = o]
  BY DEF Commit, WriteDone
<1> SUFFICES ASSUME ~overlapped
             PROVE  /\ ScopedPoliciesFit'
                    /\ \A b \in Admins : PendingFits(op[b])'
                    /\ UpstreamWriters' = {}
  BY <1>2 DEF ScopeInv
<1>3. /\ ScopedPoliciesFit
      /\ \A b \in Admins : PendingFits(op[b])
      /\ UpstreamWriters = {} \/ PolicyWriters = {}
  BY DEF ScopeInv
<1>4. op'[a] = o /\ \A b \in Admins \ {a} : op'[b] = op[b] BY <1>1, <1>2
<1>5. /\ policies' = [policies EXCEPT ![p] = [def |-> d, version |-> CurrentVersion(p) + 1]]
      /\ \A q \in PolicyIDs \ {p} : policies'[q] = policies[q] /\ versions'[q] = versions[q]
      /\ \A k \in DOMAIN versions'[p] :
            versions'[p][k] = IF k = CurrentVersion(p) + 1 THEN d ELSE versions[p][k]
      /\ \A k \in DOMAIN versions'[p] :
            k # CurrentVersion(p) + 1 => k \in DOMAIN versions[p]
  <2>1. SavePolicy(p, d, CurrentVersion(p) + 1) BY DEF Commit
  <2> QED BY <1>1, <2>1, SaveKeeps
<1>6. op[a].pc = "write" /\ Source(a, p, d) BY DEF Commit
<1>7. a \in PolicyWriters /\ UpstreamWriters = {}
  <2>1. a \in PolicyWriters BY <1>6 DEF Source, PolicyWriters
  <2> QED BY <1>3, <2>1
<1>8. Checked(d)
  <2>1. PendingFits(op[a]) BY <1>3
  <2>2. CASE op[a].kind \in {"create", "update"} /\ d = op[a].def
    BY <1>6, <2>1, <2>2 DEF PendingFits
  <2>3. CASE /\ op[a].kind = "rollback" /\ p = op[a].policy
             /\ op[a].number \in DOMAIN versions[p] /\ d = versions[p][op[a].number]
    BY <1>6, <2>1, <2>3 DEF PendingFits
  <2>4. CASE op[a].kind = "import" /\ d = op[a].todo[1]
    <3>1. op[a].todo \in Seq(StoredDefinitions) /\ op[a].todo # <<>>
      BY <1>1, <1>6, <2>4 DEF OpShape, Operation
    <3>2. 1 \in 1..Len(op[a].todo) BY <3>1
    <3> QED BY <1>6, <2>1, <2>4, <3>2 DEF PendingFits
  <2> QED BY <1>6, <2>2, <2>3, <2>4 DEF Source
<1>9. Fits(d) BY <1>8 DEF Commit, RowAllowed, Checked, Fits
<1>10. \A e : (Checked(e)' <=> Checked(e)) /\ (Fits(e)' <=> Fits(e)) BY <1>2 DEF Checked, Fits
<1>11. ScopedPoliciesFit'
  <2> SUFFICES ASSUME NEW q \in PolicyIDs, policies'[q] # None PROVE Fits(policies'[q].def)
    BY <1>10 DEF ScopedPoliciesFit, PolicyRows
  <2>1. CASE q = p BY <1>1, <1>5, <1>9, <2>1 DEF TypeOK
  <2>2. CASE q # p BY <1>3, <1>5, <2>2 DEF ScopedPoliciesFit, PolicyRows
  <2> QED BY <2>1, <2>2
<1>12. \/ o.pc = "list"
       \/ /\ o.pc = "write" /\ o.kind = "import" /\ op[a].kind = "import"
          /\ o.todo = Tail(op[a].todo) /\ op[a].todo # <<>>
  BY CommitOp
<1>13. UpstreamWriters' = {} BY <1>4, <1>7, <1>12 DEF UpstreamWriters
<1>14. ASSUME NEW b \in Admins PROVE PendingFits(op[b])'
  <2>1. CASE b = a
    <3>1. CASE o.pc = "list" BY <1>4, <2>1, <3>1 DEF PendingFits
    <3>2. CASE o.pc # "list"
      <4>1. op[a].todo \in Seq(StoredDefinitions) /\ op[a].todo # <<>>
        BY <1>1, <1>12, <3>2 DEF Operation
      <4>2. \A i \in 1..Len(op[a].todo) : Checked(op[a].todo[i])
        BY <1>3, <1>6, <1>12, <3>2 DEF PendingFits
      <4>3. \A i \in 1..Len(Tail(op[a].todo)) :
                i + 1 \in 1..Len(op[a].todo) /\ Tail(op[a].todo)[i] = op[a].todo[i + 1]
        BY <4>1
      <4>4. \A i \in 1..Len(o.todo) : Checked(o.todo[i]) BY <1>12, <3>2, <4>2, <4>3
      <4> QED BY <1>4, <1>10, <1>12, <2>1, <3>2, <4>4 DEF PendingFits
    <3> QED BY <3>1, <3>2
  <2>2. CASE b # a
    <3>1. PendingFits(op[b]) /\ op'[b] = op[b] BY <1>3, <1>4, <2>2
    <3>2. ~(op[b].pc = "write" /\ op[b].kind = "upstream") BY <1>7 DEF UpstreamWriters
    <3>3. ASSUME op[b].pc = "write", op[b].kind = "rollback",
                 op[b].number \in DOMAIN versions'[op[b].policy]
          PROVE  Checked(versions'[op[b].policy][op[b].number])
      <4>1. op[b].policy \in PolicyIDs BY <3>3 DEF StoreInv, OpShape
      <4>2. CASE op[b].policy = p
        <5>1. CASE op[b].number = CurrentVersion(p) + 1 BY <1>5, <1>8, <3>3, <4>2, <5>1
        <5>2. CASE op[b].number # CurrentVersion(p) + 1
          BY <1>5, <3>1, <3>3, <4>2, <5>2 DEF PendingFits
        <5> QED BY <5>1, <5>2
      <4>3. CASE op[b].policy # p
        BY <1>5, <3>1, <3>3, <4>1, <4>3 DEF PendingFits
      <4> QED BY <4>2, <4>3
    <3> QED BY <1>10, <3>1, <3>2, <3>3 DEF PendingFits
  <2> QED BY <2>1, <2>2
<1> QED BY <1>11, <1>13, <1>14

LEMMA ScopeRemove ==
    ASSUME StoreInv, ScopeInv, NEW a \in Admins, NEW p \in PolicyIDs, Remove(a, p)
    PROVE  ScopeInv'
<1> DEFINE o == [op[a] EXCEPT !.pc = "list"]
<1>1. op \in [Admins -> Operation] /\ TypeOK BY DEF StoreInv, TypeOK
<1>2. /\ UNCHANGED <<upstreams, overlapped>> /\ retired' = retired \cup {p}
      /\ op' = [op EXCEPT ![a] = o]
  BY DEF Remove, WriteDone
<1>3. o.pc = "list" BY <1>1 DEF Operation
<1> HIDE DEF o
<1> SUFFICES ASSUME ~overlapped
             PROVE  /\ ScopedPoliciesFit'
                    /\ \A b \in Admins : PendingFits(op[b])'
                    /\ UpstreamWriters' = {} \/ PolicyWriters' = {}
  BY <1>2 DEF ScopeInv
<1>4. /\ ScopedPoliciesFit
      /\ \A b \in Admins : PendingFits(op[b])
      /\ UpstreamWriters = {} \/ PolicyWriters = {}
  BY DEF ScopeInv
<1>5. op'[a] = o /\ \A b \in Admins \ {a} : op'[b] = op[b] BY <1>1, <1>2
<1>6. /\ policies'[p] = None /\ DOMAIN versions'[p] = {}
      /\ \A q \in PolicyIDs \ {p} : policies'[q] = policies[q] /\ versions'[q] = versions[q]
  BY <1>1 DEF Remove, TypeOK
<1>7. \A e : (Checked(e) => Checked(e)') /\ (Fits(e)' <=> Fits(e)) BY <1>2 DEF Checked, Fits
<1>8. ScopedPoliciesFit' BY <1>4, <1>6, <1>7 DEF ScopedPoliciesFit, PolicyRows
<1>9. UpstreamWriters' = {} \/ PolicyWriters' = {}
  BY <1>3, <1>4, <1>5 DEF UpstreamWriters, PolicyWriters
<1>10. ASSUME NEW b \in Admins PROVE PendingFits(op[b])'
  <2>1. CASE b = a BY <1>3, <1>5, <2>1 DEF PendingFits
  <2>2. CASE b # a
    <3>1. PendingFits(op[b]) /\ op'[b] = op[b] BY <1>4, <1>5, <2>2
    <3>2. ASSUME op[b].pc = "write", op[b].kind = "rollback",
                 op[b].number \in DOMAIN versions'[op[b].policy]
          PROVE  Checked(versions'[op[b].policy][op[b].number])
      <4>1. op[b].policy \in PolicyIDs BY <3>2 DEF StoreInv, OpShape
      <4> QED BY <1>6, <3>1, <3>2, <4>1 DEF PendingFits
    <3>3. ASSUME op[b].pc = "write", op[b].kind = "upstream"
          PROVE  validateScopedPolicies(op[b].upstream, UpstreamRow(op[b].request, "none"))'
      <4>1. validateScopedPolicies(op[b].upstream, UpstreamRow(op[b].request, "none"))
        BY <3>1, <3>3 DEF PendingFits
      <4> QED BY <1>6, <3>1, <4>1 DEF validateScopedPolicies, PolicyRows
    <3> QED BY <1>7, <3>1, <3>2, <3>3 DEF PendingFits
  <2> QED BY <2>1, <2>2
<1> QED BY <1>8, <1>9, <1>10

LEMMA ScopePolicyWrite ==
    ASSUME StoreInv, ScopeInv, NEW a \in Admins, PolicyWrite(a)
    PROVE  ScopeInv'
<1>1. op[a] \in Operation /\ OpShape(op[a]) BY Typing
<1>2. CASE existingPoliciesByName(a)
  <2> DEFINE found == [s \in {policies[p].def.name : p \in PolicyRows} |->
                          CHOOSE p \in PolicyRows : policies[p].def.name = s]
             o == [op[a] EXCEPT !.pc = "write", !.names = found]
  <2>1. op[a].pc = "lookup" /\ op[a].kind = "import"
    BY <1>1, <1>2 DEF existingPoliciesByName, OpShape
  <2>2. CASE op[a].todo = <<>>
    <3>1. op' = [op EXCEPT ![a] = NoOp] BY <1>2, <2>2 DEF existingPoliciesByName
    <3>2. NoOp.pc \notin {"lookup", "write"} BY DEF NoOp
    <3> QED BY <1>2, <3>1, <3>2, ScopeEnd DEF existingPoliciesByName
  <2>3. CASE op[a].todo # <<>>
    <3>1. op' = [op EXCEPT ![a] = o] BY <1>2, <2>3 DEF existingPoliciesByName
    <3> HIDE DEF found
    <3>2. o.pc = "write" /\ o.kind = "import" /\ o.todo = op[a].todo
      BY <1>1, <2>1 DEF Operation
    <3> HIDE DEF o
    <3>3. ~overlapped => PendingFits(o) BY <2>1, <3>2 DEF ScopeInv, PendingFits
    <3>4. ~IsUpstreamWriter(o) /\ IsPolicyWriter(op[a])
      BY <2>1, <3>2 DEF IsUpstreamWriter, IsPolicyWriter
    <3> QED BY <1>2, <3>1, <3>3, <3>4, ScopeStep DEF existingPoliciesByName
  <2> QED BY <2>2, <2>3
<1>3. CASE WriteFails(a)
  <2> DEFINE o == IF op[a].mutated THEN [op[a] EXCEPT !.pc = "list"] ELSE NoOp
  <2>1. op' = [op EXCEPT ![a] = o] BY <1>3 DEF WriteFails, importPersistenceError
  <2>2. o.pc \notin {"lookup", "write"} BY <1>1 DEF Operation, NoOp
  <2> HIDE DEF o
  <2> QED BY <1>3, <2>1, <2>2, ScopeEnd DEF WriteFails
<1>4. ASSUME NEW p \in PolicyIDs, NEW d \in StoredDefinitions, NEW o, Commit(a, p, d, o)
      PROVE  ScopeInv'
  BY <1>4, ScopeCommit
<1>5. ASSUME NEW p \in PolicyIDs, Remove(a, p) PROVE ScopeInv' BY <1>5, ScopeRemove
<1> QED BY <1>2, <1>3, <1>4, <1>5, WriteCases

LEMMA ScopeFinalize ==
    ASSUME StoreInv, ScopeInv, NEW a \in Admins, finalizeTenantMutation(a)
    PROVE  ScopeInv'
<1>1. op \in [Admins -> Operation] BY DEF StoreInv, TypeOK
<1>2. PICK o : op' = [op EXCEPT ![a] = o] /\ o.pc \notin {"lookup", "write"}
  <2>1. CASE ListForRevision(a)
    <3> DEFINE o == [op[a] EXCEPT !.pc = "number", !.hash = HashPolicies]
    <3>1. op' = [op EXCEPT ![a] = o] /\ o.pc = "number"
      BY <1>1, <2>1 DEF ListForRevision, Operation
    <3> QED BY <3>1
  <2>2. CASE NextGeneration(a)
    <3> DEFINE o == [op[a] EXCEPT !.pc = "record", !.number = Len(revisions) + 1]
    <3>1. op' = [op EXCEPT ![a] = o] /\ o.pc = "record"
      BY <1>1, <2>2 DEF NextGeneration, Operation
    <3> QED BY <3>1
  <2>3. CASE CreateRevision(a)
    <3>1. op' = [op EXCEPT ![a] = [op[a] EXCEPT !.pc = "invalidate"]]
          /\ [op[a] EXCEPT !.pc = "invalidate"].pc = "invalidate"
      BY <1>1, <2>3 DEF CreateRevision, Operation
    <3> QED BY <3>1
  <2>4. CASE InvalidateTenant(a)
    <3>1. op' = [op EXCEPT ![a] = NoOp] BY <2>4 DEF InvalidateTenant
    <3>2. NoOp.pc = "idle" BY DEF NoOp
    <3> QED BY <3>1, <3>2
  <2> QED BY <2>1, <2>2, <2>3, <2>4 DEF finalizeTenantMutation
<1>3. UNCHANGED <<upstreams, policies, versions, retired, overlapped>>
  BY DEF finalizeTenantMutation, ListForRevision, NextGeneration, CreateRevision, InvalidateTenant
<1> QED BY <1>2, <1>3, ScopeEnd

\* A step that changes no policy and no request, and no upstream in use but by
\* deleting it.
LEMMA ScopeUpstreams ==
    ASSUME StoreInv, ScopeInv, UNCHANGED <<policies, versions, op, overlapped>>,
           \A e \in StoredDefinitions : Checked(e) => Checked(e)',
           ~overlapped => ScopedPoliciesFit'
    PROVE  ScopeInv'
<1> SUFFICES ASSUME ~overlapped
             PROVE  /\ \A b \in Admins : PendingFits(op[b])'
                    /\ UpstreamWriters' = {} \/ PolicyWriters' = {}
  BY DEF ScopeInv
<1>1. /\ \A b \in Admins : PendingFits(op[b])
      /\ UpstreamWriters = {} \/ PolicyWriters = {}
  BY DEF ScopeInv
<1>2. UpstreamWriters' = {} \/ PolicyWriters' = {} BY <1>1 DEF UpstreamWriters, PolicyWriters
<1>3. ASSUME NEW b \in Admins PROVE PendingFits(op[b])'
  <2>1. PendingFits(op[b]) /\ op'[b] = op[b] /\ op[b] \in Operation /\ OpShape(op[b])
    BY <1>1, Typing
  <2>2. ASSUME op[b].pc = "write", op[b].kind \in {"create", "update"} PROVE Checked(op[b].def)'
    BY <2>1, <2>2 DEF PendingFits, OpShape, Checked
  <2>3. ASSUME op[b].pc \in {"lookup", "write"}, op[b].kind = "import",
               NEW i \in 1..Len(op[b].todo)
        PROVE  Checked(op[b].todo[i])'
    <3>1. op[b].todo[i] \in StoredDefinitions BY <2>1 DEF Operation
    <3>2. Checked(op[b].todo[i]) BY <2>1, <2>3 DEF PendingFits
    <3> QED BY <2>1, <3>1, <3>2 DEF Checked
  <2>4. ASSUME op[b].pc = "write", op[b].kind = "rollback",
               op[b].number \in DOMAIN versions[op[b].policy]
        PROVE  Checked(versions[op[b].policy][op[b].number])'
    <3>1. versions[op[b].policy][op[b].number] \in StoredDefinitions
      BY <2>1, <2>4 DEF StoreInv, TypeOK, OpShape
    <3>2. Checked(versions[op[b].policy][op[b].number]) BY <2>1, <2>4 DEF PendingFits
    <3> QED BY <2>1, <3>1, <3>2 DEF Checked
  <2>5. ASSUME op[b].pc = "write", op[b].kind = "upstream"
        PROVE  validateScopedPolicies(op[b].upstream, UpstreamRow(op[b].request, "none"))'
    BY <2>1, <2>5 DEF PendingFits, validateScopedPolicies, PolicyRows
  <2> QED BY <2>1, <2>2, <2>3, <2>4, <2>5 DEF PendingFits
<1> QED BY <1>2, <1>3

LEMMA ScopeUpstreamRequest ==
    ASSUME StoreInv, ScopeInv, NEW a \in Admins, UpstreamRequest(a)
    PROVE  ScopeInv'
<1>1. /\ upstreams \in [UpstreamIDs -> UpstreamRecord \cup {None}] /\ op \in [Admins -> Operation]
      /\ \A p \in PolicyIDs : policies[p] # None => policies[p].def \in StoredDefinitions
  BY DEF StoreInv, TypeOK, PolicyRow
<1>2. \A e \in StoredDefinitions : e.upstream # None => e.upstream \in UpstreamIDs
  BY ScopeAssumption
<1>3. CASE createUpstream(a)
  <2>1. PICK u \in UpstreamIDs, r \in Requests : CreateUpstream(a, u, r)
    BY <1>3 DEF createUpstream
  <2>2. /\ upstreams[u] = None /\ u \notin retired /\ retired' = retired
        /\ \A v \in UpstreamIDs \ {u} : upstreams'[v] = upstreams[v]
    BY <1>1, <2>1 DEF CreateUpstream, InsertUpstream
  <2>3. \A e \in StoredDefinitions : Checked(e) => Checked(e)'
    BY <1>2, <2>2 DEF Checked
  <2>4. ScopedPoliciesFit => ScopedPoliciesFit'
    BY <1>1, <1>2, <2>1, <2>2 DEF CreateUpstream, ScopedPoliciesFit, PolicyRows, Fits
  <2> QED BY <2>1, <2>3, <2>4, ScopeUpstreams DEF CreateUpstream, ScopeInv
<1>4. CASE updateUpstream(a)
  <2>1. PICK u \in UpstreamIDs, r \in Requests : UpdateUpstream(a, u, r)
    BY <1>4 DEF updateUpstream
  <2> DEFINE o == [NoOp EXCEPT !.pc = "write", !.kind = "upstream", !.upstream = u,
                               !.request = r]
  <2>2. op' = [op EXCEPT ![a] = o] BY <2>1 DEF UpdateUpstream
  <2>3. o.pc = "write" /\ o.kind = "upstream" /\ o.upstream = u /\ o.request = r BY DEF NoOp
  <2> HIDE DEF o
  <2>4. validateScopedPolicies(u, UpstreamRow(r, "none")) BY <2>1 DEF UpdateUpstream
  <2>5. PendingFits(o) BY <2>3, <2>4 DEF PendingFits
  <2>6. overlapped => overlapped' BY <2>1 DEF UpdateUpstream
  <2>7. ~overlapped' => PolicyWriters = {} BY <2>1 DEF UpdateUpstream
  <2>8. ~IsPolicyWriter(o) BY <2>3 DEF IsPolicyWriter
  <2> QED BY <2>1, <2>2, <2>5, <2>6, <2>7, <2>8, ScopeStep DEF UpdateUpstream
<1>5. CASE UpdateUpstreamRow(a)
  <2> DEFINE u == op[a].upstream
             r == op[a].request
  <2>1. /\ op[a].pc = "write" /\ op[a].kind = "upstream" /\ op' = [op EXCEPT ![a] = NoOp]
        /\ UNCHANGED <<policies, versions, retired, overlapped>>
    BY <1>5 DEF UpdateUpstreamRow
  <2>2. u \in UpstreamIDs /\ r \in Requests BY <2>1, Typing DEF OpShape
  <2> SUFFICES ASSUME ~overlapped
               PROVE  /\ ScopedPoliciesFit'
                      /\ \A b \in Admins : PendingFits(op[b])'
                      /\ PolicyWriters' = {}
    BY <2>1 DEF ScopeInv
  <2>3. /\ ScopedPoliciesFit
        /\ \A b \in Admins : PendingFits(op[b])
        /\ UpstreamWriters = {} \/ PolicyWriters = {}
    BY DEF ScopeInv
  <2>4. PolicyWriters = {}
    <3>1. a \in UpstreamWriters BY <2>1 DEF UpstreamWriters
    <3> QED BY <2>3, <3>1
  <2>5. op'[a] = NoOp /\ NoOp.pc = "idle" /\ \A b \in Admins \ {a} : op'[b] = op[b]
    BY <1>1, <2>1 DEF NoOp
  <2>6. PolicyWriters' = {} BY <2>4, <2>5 DEF PolicyWriters
  <2>7. ASSUME NEW b \in Admins PROVE PendingFits(op[b])'
    <3>1. CASE b = a BY <2>5, <3>1 DEF PendingFits
    <3>2. CASE b # a
      <4>1. PendingFits(op[b]) /\ op'[b] = op[b] BY <2>3, <2>5, <3>2
      <4>2. ~(op[b].pc \in {"lookup", "write"} /\ op[b].kind \notin {"delete", "upstream"})
        BY <2>4 DEF PolicyWriters
      <4>3. ASSUME op[b].pc = "write", op[b].kind = "upstream"
            PROVE  validateScopedPolicies(op[b].upstream, UpstreamRow(op[b].request, "none"))'
        BY <2>1, <4>1, <4>3 DEF PendingFits, validateScopedPolicies, PolicyRows
      <4> QED BY <4>1, <4>2, <4>3 DEF PendingFits
    <3> QED BY <3>1, <3>2
  <2>8. ScopedPoliciesFit'
    <3>1. CASE upstreams' = upstreams
      BY <2>1, <2>3, <3>1 DEF ScopedPoliciesFit, PolicyRows, Fits
    <3>2. CASE /\ upstreams[u] # None
               /\ upstreams' = [upstreams EXCEPT ![u] = UpstreamRow(r, upstreams[u].auth)]
      <4> DEFINE row == UpstreamRow(r, upstreams[u].auth)
      <4>1. upstreams[u] \in UpstreamRecord BY <1>1, <2>2, <3>2
      <4>2. row \in UpstreamRecord BY <2>2, <4>1, WrittenUpstream
      <4>3. row # None BY <4>2, NoneAssumption
      <4>4. upstreams'[u] = row /\ \A v \in UpstreamIDs \ {u} : upstreams'[v] = upstreams[v]
        BY <1>1, <2>2, <3>2
      <4>5. validateScopedPolicies(u, UpstreamRow(r, "none"))
        BY <2>1, <2>3 DEF PendingFits
      <4>6. \A t : ValidateUpstreamCompatibility(t, UpstreamRow(r, "none")) =>
                        ValidateUpstreamCompatibility(t, row)
        BY CompatibilityIgnoresAuth
      <4> HIDE DEF row
      <4> SUFFICES ASSUME NEW p \in PolicyIDs, policies[p] # None,
                          policies[p].def.upstream # None
                   PROVE  /\ upstreams'[policies[p].def.upstream] # None
                          /\ ValidateUpstreamCompatibility(policies[p].def.type,
                                                  upstreams'[policies[p].def.upstream])
        BY <2>1 DEF ScopedPoliciesFit, PolicyRows, Fits
      <4>7. policies[p].def.upstream \in UpstreamIDs BY <1>1, <1>2
      <4>8. CASE policies[p].def.upstream = u
        BY <4>3, <4>4, <4>5, <4>6, <4>8 DEF validateScopedPolicies, PolicyRows
      <4>9. CASE policies[p].def.upstream # u
        BY <2>3, <4>4, <4>7, <4>9 DEF ScopedPoliciesFit, PolicyRows, Fits
      <4> QED BY <4>8, <4>9
    <3> QED BY <1>5, <3>1, <3>2 DEF UpdateUpstreamRow
  <2> QED BY <2>6, <2>7, <2>8
<1>6. CASE deleteUpstream(a)
  <2>1. PICK u \in UpstreamIDs : DeleteUpstream(a, u) BY <1>6 DEF deleteUpstream
  <2>2. /\ upstreams'[u] = None /\ retired' = retired \cup {u}
        /\ \A v \in UpstreamIDs \ {u} : upstreams'[v] = upstreams[v]
        /\ \A p \in PolicyRows : policies[p].def.upstream # u
    BY <1>1, <2>1 DEF DeleteUpstream
  <2>3. \A e \in StoredDefinitions : Checked(e) => Checked(e)'
    BY <1>2, <2>2 DEF Checked
  <2>4. ScopedPoliciesFit => ScopedPoliciesFit'
    BY <1>1, <1>2, <2>1, <2>2 DEF DeleteUpstream, ScopedPoliciesFit, PolicyRows, Fits
  <2> QED BY <2>1, <2>3, <2>4, ScopeUpstreams DEF DeleteUpstream, ScopeInv
<1> QED BY <1>3, <1>4, <1>5, <1>6 DEF UpstreamRequest

LEMMA ScopeFaults ==
    ASSUME StoreInv, ScopeInv, NEW a \in Admins, CallFails(a) \/ Abandon(a)
    PROVE  ScopeInv'
<1>1. op[a] \in Operation BY Typing
<1>2. UNCHANGED <<upstreams, policies, versions, retired, overlapped>>
  BY DEF CallFails, Abandon
<1>3. NoOp.pc = "idle" /\ [op[a] EXCEPT !.pc = "list"].pc = "list"
      /\ [op[a] EXCEPT !.pc = "invalidate"].pc = "invalidate"
  BY <1>1 DEF Operation, NoOp
<1>4. CASE op' = [op EXCEPT ![a] = NoOp] BY <1>2, <1>3, <1>4, ScopeEnd
<1>5. CASE op' = [op EXCEPT ![a] = [op[a] EXCEPT !.pc = "list"]]
  BY <1>2, <1>3, <1>5, ScopeEnd
<1>6. CASE op' = [op EXCEPT ![a] = [op[a] EXCEPT !.pc = "invalidate"]]
  BY <1>2, <1>3, <1>6, ScopeEnd
<1>7. CASE CallFails(a) /\ op[a].pc = "write"
  BY <1>4, <1>5, <1>7 DEF CallFails, importPersistenceError
<1>8. CASE CallFails(a) /\ op[a].pc # "write" BY <1>4, <1>6, <1>8 DEF CallFails
<1>9. CASE Abandon(a) BY <1>4, <1>9 DEF Abandon
<1> QED BY <1>7, <1>8, <1>9

LEMMA InitScope == Init => ScopeInv
<1> SUFFICES ASSUME Init PROVE ScopeInv OBVIOUS
<1>1. ScopedPoliciesFit BY DEF Init, ScopedPoliciesFit, PolicyRows
<1>2. \A a \in Admins : PendingFits(op[a]) BY DEF Init, NoOp, PendingFits
<1>3. UpstreamWriters = {} BY DEF Init, NoOp, UpstreamWriters
<1> QED BY <1>1, <1>2, <1>3 DEF ScopeInv

LEMMA NextScope == ASSUME StoreInv, ScopeInv, [Next]_vars PROVE ScopeInv'
<1>1. ASSUME NEW a \in Admins, PolicyRequest(a) PROVE ScopeInv' BY <1>1, ScopePolicyRequest
<1>2. ASSUME NEW a \in Admins, PolicyWrite(a) PROVE ScopeInv' BY <1>2, ScopePolicyWrite
<1>3. ASSUME NEW a \in Admins, finalizeTenantMutation(a) PROVE ScopeInv' BY <1>3, ScopeFinalize
<1>4. ASSUME NEW a \in Admins, UpstreamRequest(a) PROVE ScopeInv'
  BY <1>4, ScopeUpstreamRequest
<1>5. ASSUME NEW a \in Admins, CallFails(a) \/ Abandon(a) PROVE ScopeInv' BY <1>5, ScopeFaults
<1>6. CASE UNCHANGED <<upstreams, policies, versions, retired, op, overlapped>>
  <2>1. \A e \in StoredDefinitions : Checked(e) => Checked(e)' BY <1>6 DEF Checked
  <2>2. ScopedPoliciesFit => ScopedPoliciesFit' BY <1>6 DEF ScopedPoliciesFit, PolicyRows, Fits
  <2> QED BY <1>6, <2>1, <2>2, ScopeUpstreams DEF ScopeInv
<1>7. ASSUME NEW p \in PolicyIDs, RecordDecision(p) PROVE ScopeInv'
  BY <1>6, <1>7 DEF RecordDecision
<1>8. CASE UNCHANGED vars BY <1>6, <1>8 DEF vars
<1> QED BY <1>1, <1>2, <1>3, <1>4, <1>5, <1>7, <1>8 DEF Next

\* Checked definitions keep fitting while no two checks overlap (policy.go,
\* upstream.go).
THEOREM ScopeInvariance == Spec => []ScopeInv
<1>1. Init => ScopeInv BY InitScope
<1>2. StoreInv /\ ScopeInv /\ [Next]_vars => ScopeInv' BY NextScope
<1> QED BY <1>1, <1>2, StoreInvariance, PTL DEF Spec

\* The check of policies against upstreams and that of upstreams against
\* policies (policy.go validateUpstreamScope, upstream.go
\* validateScopedPolicies) leave one way to a policy that cannot run on its
\* upstream: the two checks overlap.
THEOREM ScopedPoliciesKeepFitting == Spec => []FitUnlessOverlapped
<1>1. ScopeInv => FitUnlessOverlapped BY DEF ScopeInv, FitUnlessOverlapped
<1> QED BY <1>1, ScopeInvariance, PTL
=============================================================================
