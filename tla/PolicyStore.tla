------------------------------ MODULE PolicyStore ------------------------------
(***************************************************************************)
(* The control plane's management of one tenant: policies with their       *)
(* retained versions, revisions of the policy set, upstreams, and the      *)
(* invalidation of cached decisions that ends every policy mutation.       *)
(*                                                                         *)
(* A request runs in one goroutine per administrator.  Each database or    *)
(* Valkey call is one step, so requests of two administrators interleave   *)
(* between the check of a request and its write, and between the write     *)
(* and the revision and invalidation that follow it.  A transaction is     *)
(* one step: it holds the row lock of the policy until it commits.         *)
(***************************************************************************)
EXTENDS Naturals, FiniteSets, Sequences, Functions, PolicyCatalog

CONSTANTS Admins, PolicyIDs, UpstreamIDs,
          Definitions,    \* policy definitions a client may submit
          Imports,        \* policy documents a client may import
          Requests,       \* upstream configurations a client may submit
          InitialUpstream,  \* the configuration stored at the start, and its id
          InitialID,
          AllowAuthenticatedUpstreams,
          MaxRetainedPolicyVersions,
          MaxCalls, MaxFaults   \* bounds on the requests and on the failures

ASSUME RetentionAssumption == MaxRetainedPolicyVersions \in Nat \ {0}
ASSUME BoundsAssumption == MaxCalls \in Nat /\ MaxFaults \in Nat

VARIABLES upstreams,   \* id -> stored configuration, or None
          policies,    \* id -> [def, version], or None
          versions,    \* id -> retained version number -> definition
          revisions,   \* tenant_policy_revisions: the hashes in generation order
          retired,     \* ids of deleted rows: generated ids never come back
          referenced,  \* policies that recorded decisions point to
          stale,       \* committed since the last invalidation
          op,          \* the request each administrator's call is executing
          calls, faults,
          unfinished,  \* history: some mutation answered an error after its commit
          overlapped   \* history: a policy write and an upstream update were
                       \* both between their check and their write

vars == <<upstreams, policies, versions, revisions, retired, referenced, stale, op,
          calls, faults, unfinished, overlapped>>

NoOp == [pc |-> "idle", kind |-> None, policy |-> None, def |-> None, upstream |-> None,
         request |-> None, force |-> FALSE, number |-> 0, todo |-> <<>>,
         names |-> [s \in {} |-> None], mutated |-> FALSE, hash |-> {}]

PolicyRows == {p \in PolicyIDs : policies[p] # None}

\* HashPolicies: equal for equal policy sets, whatever the ids and versions.
HashPolicies == {policies[p].def : p \in PolicyRows}

-----------------------------------------------------------------------------
(* Requests as the handlers hand them to the services.                     *)

\* policyFromRequest, with the schema version the service settles on.
policyFromRequest(d) ==
    [d EXCEPT !.schema = NormalizeSchemaVersion(d.type, d.schema),
              !.target = NormalizeTarget(d.target)]

\* The import document has no target, so an imported policy has none; its
\* schema version is explicit.
toCorePolicyFile(ds) == [i \in DOMAIN ds |-> [ds[i] EXCEPT !.target = None]]

toDomainPolicy(d) == d.schema # 0 /\ ValidatePolicy(d)

\* The request's auth: None is absent, "none" clears, else a credential.
toDomainUpstreamAuth(ecosystem, auth) == auth \in {None, "none"} \/ ecosystem = "oci"

validateAuth(r) ==
    r.auth \notin {None, "none"} => AllowAuthenticatedUpstreams /\ r.ecosystem = "oci"

\* The stored form; an absent auth leaves "kept" as it is.
authColumns(auth, kept) == IF auth = None THEN kept ELSE auth

UpstreamRow(r, kept) ==
    [ecosystem |-> r.ecosystem, url |-> r.url,
     capabilities |-> NormalizeUpstreamCapabilities(r.ecosystem, r.capabilities),
     auth |-> authColumns(r.auth, kept)]

\* What Create and Update of the service check without reading anything.
UpstreamRequestValid(r) ==
    /\ NormalizeUpstreamCapabilities(r.ecosystem, r.capabilities) # None
    /\ validateAuth(r)

\* What a request can lead to in the tables.
StoredDefinitions ==
    {d \in {policyFromRequest(d) : d \in Definitions}
             \cup UNION {Range(toCorePolicyFile(ds)) : ds \in Imports} : ValidatePolicy(d)}

PolicyRow == [def : StoredDefinitions, version : Nat \ {0}]

Auths == {"none"} \cup {r.auth : r \in Requests \cup {InitialUpstream}}

UpstreamRecord == {UpstreamRow(r, kept) : r \in Requests \cup {InitialUpstream}, kept \in Auths}

ASSUME IdentityAssumption == InitialID \in UpstreamIDs /\ PolicyIDs \cap UpstreamIDs = {}
ASSUME NoneAssumption ==
    None \notin PolicyRow \cup UpstreamRecord \cup StoredDefinitions \cup UpstreamIDs
ASSUME DocumentAssumption ==
    \A ds \in Imports : Len(ds) \in Nat /\ DOMAIN ds = 1..Len(ds)
ASSUME ScopeAssumption == \A d \in StoredDefinitions : d.upstream \in UpstreamIDs \cup {None}

-----------------------------------------------------------------------------
(* Checks against the stored state.                                        *)

validateUpstreamScope(d) ==
    d.upstream # None =>
        /\ upstreams[d.upstream] # None
        /\ ValidateUpstreamCompatibility(d.type, upstreams[d.upstream])

\* Mutant: the stored profile is checked, not the submitted one.
BugvalidateScopedPolicies(u, row) ==
    upstreams[u] # None =>
        \A p \in PolicyRows :
            policies[p].def.upstream = u =>
                ValidateUpstreamCompatibility(policies[p].def.type, upstreams[u])

validateScopedPolicies(u, row) ==
    \A p \in PolicyRows :
        policies[p].def.upstream = u => ValidateUpstreamCompatibility(policies[p].def.type, row)

\* Constraints of the tables: unique names, and scopes that exist.
RowAllowed(p, d) ==
    /\ \A q \in PolicyRows \ {p} : policies[q].def.name # d.name
    /\ d.upstream # None => upstreams[d.upstream] # None

\* One upstream per registry.  Names of upstreams, unique too, are left out.
RegistryFree(u, row) ==
    \A v \in UpstreamIDs \ {u} :
        upstreams[v] # None =>
            <<upstreams[v].ecosystem, upstreams[v].url>> # <<row.ecosystem, row.url>>

\* Mutant: one version too many is kept.
BugprunePolicyVersions(vs) ==
    [n \in {m \in DOMAIN vs :
              Cardinality({k \in DOMAIN vs : k > m}) <= MaxRetainedPolicyVersions} |-> vs[n]]

\* The newest versions, at most MaxRetainedPolicyVersions of them.
prunePolicyVersions(vs) ==
    [n \in {m \in DOMAIN vs :
              Cardinality({k \in DOMAIN vs : k > m}) < MaxRetainedPolicyVersions} |-> vs[n]]

\* A write to a policy row records its version in the same transaction.
SavePolicy(p, d, n) ==
    /\ policies' = [policies EXCEPT ![p] = [def |-> d, version |-> n]]
    /\ versions' = [versions EXCEPT ![p] =
            prunePolicyVersions([m \in DOMAIN versions[p] \cup {n} |->
                                    IF m = n THEN d ELSE versions[p][m]])]

-----------------------------------------------------------------------------
(* Policy requests: the check.  A request that fails it changes nothing.   *)

PolicyWriters == {a \in Admins : /\ op[a].pc \in {"lookup", "write"}
                                 /\ op[a].kind \notin {"delete", "upstream"}}
UpstreamWriters == {a \in Admins : op[a].pc = "write" /\ op[a].kind = "upstream"}

StartPolicyOp(a, o) ==
    /\ op[a].pc = "idle"
    /\ calls < MaxCalls
    /\ calls' = calls + 1
    /\ op' = [op EXCEPT ![a] = o]
    /\ overlapped' = (overlapped \/ (o.kind # "delete" /\ UpstreamWriters # {}))
    /\ UNCHANGED <<upstreams, policies, versions, revisions, retired, referenced, stale,
                   faults, unfinished>>

validatePolicyMutation(d) == ValidatePolicy(d) /\ validateUpstreamScope(d)

Create(a, d) ==
    /\ validatePolicyMutation(d)
    /\ StartPolicyOp(a, [NoOp EXCEPT !.pc = "write", !.kind = "create", !.def = d])

Update(a, p, d) ==
    /\ validatePolicyMutation(d)
    /\ StartPolicyOp(a, [NoOp EXCEPT !.pc = "write", !.kind = "update", !.policy = p,
                                     !.def = d])

\* Only a version that is listed now has its scope checked.
RollbackToVersion(a, p, n) ==
    /\ policies[p] # None
    /\ n \in DOMAIN versions[p] => validateUpstreamScope(versions[p][n])
    /\ StartPolicyOp(a, [NoOp EXCEPT !.pc = "write", !.kind = "rollback", !.policy = p,
                                     !.number = n])

\* Mutant: an enabled policy may be deleted.
BugDelete(a, p, force) ==
    /\ policies[p] # None
    /\ StartPolicyOp(a, [NoOp EXCEPT !.pc = "write", !.kind = "delete", !.policy = p,
                                     !.force = force, !.number = policies[p].version])

\* The version the check saw is kept as history.
Delete(a, p, force) ==
    /\ policies[p] # None
    /\ ~policies[p].def.enabled
    /\ StartPolicyOp(a, [NoOp EXCEPT !.pc = "write", !.kind = "delete", !.policy = p,
                                     !.force = force, !.number = policies[p].version])

prepareImportedPolicies(ds) ==
    /\ ValidatePolicies(ds)
    /\ \A i \in DOMAIN ds : toDomainPolicy(ds[i]) /\ validateUpstreamScope(ds[i])

ImportPolicies(a, ds) ==
    /\ prepareImportedPolicies(ds)
    /\ StartPolicyOp(a, [NoOp EXCEPT !.pc = "lookup", !.kind = "import", !.todo = ds])

\* The ids by name that the import will update: one listing for the
\* document.  An empty document is done.
existingPoliciesByName(a) ==
    /\ op[a].pc = "lookup"
    /\ op' = [op EXCEPT ![a] =
                IF op[a].todo = <<>> THEN NoOp
                ELSE [op[a] EXCEPT !.pc = "write",
                        !.names = [s \in {policies[p].def.name : p \in PolicyRows} |->
                                     CHOOSE p \in PolicyRows : policies[p].def.name = s]]]
    /\ UNCHANGED <<upstreams, policies, versions, revisions, retired, referenced, stale,
                   calls, faults, unfinished, overlapped>>

-----------------------------------------------------------------------------
(* Policy requests: the transaction.                                       *)

\* A write that fails ends the request, except that an import which already
\* wrote a policy goes on to finalize.
importPersistenceError(a) == [op EXCEPT ![a] = IF op[a].mutated THEN [op[a] EXCEPT !.pc = "list"]
                                               ELSE NoOp]

WriteFails(a) ==
    /\ op' = importPersistenceError(a)
    /\ UNCHANGED <<upstreams, policies, versions, revisions, retired, referenced, stale,
                   calls, faults, unfinished, overlapped>>

WriteDone(a, o) ==
    /\ stale' = TRUE
    /\ op' = [op EXCEPT ![a] = o]
    /\ UNCHANGED <<upstreams, revisions, calls, faults, unfinished, overlapped>>

FreshPolicyIDs == {p \in PolicyIDs \ retired : policies[p] = None}

\* INSERT of the row and of its version 1.
InsertPolicy(p, d) ==
    /\ RowAllowed(p, d)
    /\ SavePolicy(p, d, 1)

\* Mutant: the version is not advanced.
BugUpdatePolicy(p, d) ==
    /\ policies[p] # None
    /\ RowAllowed(p, d)
    /\ SavePolicy(p, d, policies[p].version)

\* UPDATE of the row and INSERT of the version after it.
UpdatePolicy(p, d) ==
    /\ policies[p] # None
    /\ RowAllowed(p, d)
    /\ SavePolicy(p, d, policies[p].version + 1)

CreateRow(a) ==
    /\ op[a].pc = "write" /\ op[a].kind = "create"
    /\ \/ /\ \E p \in FreshPolicyIDs : InsertPolicy(p, op[a].def)
          /\ WriteDone(a, [op[a] EXCEPT !.pc = "list"])
          /\ UNCHANGED <<retired, referenced>>
       \/ /\ \E p \in FreshPolicyIDs : ~RowAllowed(p, op[a].def)
          /\ WriteFails(a)

UpdateRow(a) ==
    LET p == op[a].policy IN
    /\ op[a].pc = "write" /\ op[a].kind = "update"
    /\ \/ /\ UpdatePolicy(p, op[a].def)
          /\ WriteDone(a, [op[a] EXCEPT !.pc = "list"])
          /\ UNCHANGED <<retired, referenced>>
       \/ /\ policies[p] # None => ~RowAllowed(p, op[a].def)
          /\ WriteFails(a)

\* The snapshot is read in the transaction, not from the earlier listing.
loadRollbackPolicyVersion(p, n) == n \in DOMAIN versions[p]

RollbackRow(a) ==
    LET p == op[a].policy  n == op[a].number IN
    /\ op[a].pc = "write" /\ op[a].kind = "rollback"
    /\ \/ /\ loadRollbackPolicyVersion(p, n)
          /\ UpdatePolicy(p, versions[p][n])
          /\ WriteDone(a, [op[a] EXCEPT !.pc = "list"])
          /\ UNCHANGED <<retired, referenced>>
       \/ /\ loadRollbackPolicyVersion(p, n) /\ policies[p] # None
                => ~RowAllowed(p, versions[p][n])
          /\ WriteFails(a)

\* Recorded decisions keep the row; force clears their references first.
\* The retained versions go with the row.
DeleteRow(a) ==
    LET p == op[a].policy IN
    /\ op[a].pc = "write" /\ op[a].kind = "delete"
    /\ \/ /\ policies[p] # None
          /\ p \in referenced => op[a].force
          /\ policies' = [policies EXCEPT ![p] = None]
          /\ versions' = [versions EXCEPT ![p] = <<>>]
          /\ referenced' = referenced \ {p}
          /\ retired' = retired \cup {p}
          /\ WriteDone(a, [op[a] EXCEPT !.pc = "list"])
       \/ /\ policies[p] = None \/ (p \in referenced /\ ~op[a].force)
          /\ WriteFails(a)

\* The next policy of the document: by name into the row the listing found,
\* else a new row.
persistImportedPolicy(a) ==
    LET d == Head(op[a].todo)
        found == d.name \in DOMAIN op[a].names
        rest == [op[a] EXCEPT !.todo = Tail(op[a].todo), !.mutated = TRUE,
                              !.pc = IF Len(op[a].todo) = 1 THEN "list" ELSE "write"]
    IN
    /\ op[a].pc = "write" /\ op[a].kind = "import"
    /\ \/ /\ found
          /\ UpdatePolicy(op[a].names[d.name], d)
          /\ WriteDone(a, rest)
          /\ UNCHANGED <<retired, referenced>>
       \/ /\ ~found
          /\ \E p \in FreshPolicyIDs : InsertPolicy(p, d)
          /\ WriteDone(a, rest)
          /\ UNCHANGED <<retired, referenced>>
       \/ /\ IF found
             THEN LET p == op[a].names[d.name] IN policies[p] # None => ~RowAllowed(p, d)
             ELSE \E p \in FreshPolicyIDs : ~RowAllowed(p, d)
          /\ WriteFails(a)

-----------------------------------------------------------------------------
(* Policy requests: finalizeTenantMutation, in three database calls and    *)
(* one Valkey call.  The invalidation is tried whatever happened before.   *)

\* Mutant: nothing to do when the policy set is the newest revision's.
BugListForRevision(a) ==
    /\ op[a].pc = "list"
    /\ op' = [op EXCEPT ![a] =
                IF revisions # <<>> /\ revisions[Len(revisions)] = HashPolicies THEN NoOp
                ELSE [@ EXCEPT !.pc = "number", !.hash = HashPolicies]]
    /\ UNCHANGED <<upstreams, policies, versions, revisions, retired, referenced, stale,
                   calls, faults, unfinished, overlapped>>

\* The stored policies are valid, so the listing hashes.
ListForRevision(a) ==
    /\ op[a].pc = "list"
    /\ op' = [op EXCEPT ![a].pc = "number", ![a].hash = HashPolicies]
    /\ UNCHANGED <<upstreams, policies, versions, revisions, retired, referenced, stale,
                   calls, faults, unfinished, overlapped>>

\* The statement computes the next generation from its snapshot ...
NextGeneration(a) ==
    /\ op[a].pc = "number"
    /\ op' = [op EXCEPT ![a].pc = "record", ![a].number = Len(revisions) + 1]
    /\ UNCHANGED <<upstreams, policies, versions, revisions, retired, referenced, stale,
                   calls, faults, unfinished, overlapped>>

\* Mutant: ON CONFLICT DO NOTHING.
BugCreateRevision(a) ==
    /\ op[a].pc = "record"
    /\ op' = [op EXCEPT ![a].pc = "invalidate"]
    /\ revisions' = IF op[a].number = Len(revisions) + 1 THEN Append(revisions, op[a].hash)
                    ELSE revisions
    /\ UNCHANGED <<upstreams, policies, versions, retired, referenced, stale,
                   calls, faults, unfinished, overlapped>>

\* ... and the unique key rejects it when another insert took that one.
CreateRevision(a) ==
    /\ op[a].pc = "record"
    /\ op' = [op EXCEPT ![a].pc = "invalidate"]
    /\ IF op[a].number = Len(revisions) + 1
       THEN /\ revisions' = Append(revisions, op[a].hash)
            /\ UNCHANGED unfinished
       ELSE /\ unfinished' = TRUE
            /\ UNCHANGED revisions
    /\ UNCHANGED <<upstreams, policies, versions, retired, referenced, stale,
                   calls, faults, overlapped>>

InvalidateTenant(a) ==
    /\ op[a].pc = "invalidate"
    /\ stale' = FALSE
    /\ op' = [op EXCEPT ![a] = NoOp]
    /\ UNCHANGED <<upstreams, policies, versions, revisions, retired, referenced,
                   calls, faults, unfinished, overlapped>>

-----------------------------------------------------------------------------
(* Upstream requests.                                                      *)

InsertUpstream(u, row) ==
    /\ RegistryFree(u, row)
    /\ upstreams' = [upstreams EXCEPT ![u] = row]

\* One statement after checks that read nothing.
CreateUpstream(a, u, r) ==
    /\ op[a].pc = "idle"
    /\ calls < MaxCalls
    /\ upstreams[u] = None /\ u \notin retired
    /\ UpstreamRequestValid(r)
    /\ InsertUpstream(u, UpstreamRow(r, "none"))
    /\ calls' = calls + 1
    /\ UNCHANGED <<policies, versions, revisions, retired, referenced, stale, op,
                   faults, unfinished, overlapped>>

\* The policies are listed for the check, the row is written later.
UpdateUpstream(a, u, r) ==
    /\ op[a].pc = "idle"
    /\ calls < MaxCalls
    /\ UpstreamRequestValid(r)
    /\ validateScopedPolicies(u, UpstreamRow(r, "none"))
    /\ op' = [op EXCEPT ![a] = [NoOp EXCEPT !.pc = "write", !.kind = "upstream",
                                            !.upstream = u, !.request = r]]
    /\ overlapped' = (overlapped \/ PolicyWriters # {})
    /\ calls' = calls + 1
    /\ UNCHANGED <<upstreams, policies, versions, revisions, retired, referenced, stale,
                   faults, unfinished>>

\* No cached decision is invalidated.
UpdateUpstreamRow(a) ==
    LET u == op[a].upstream IN
    /\ op[a].pc = "write" /\ op[a].kind = "upstream"
    /\ op' = [op EXCEPT ![a] = NoOp]
    /\ upstreams' = IF upstreams[u] # None /\ RegistryFree(u, UpstreamRow(op[a].request, "none"))
                    THEN [upstreams EXCEPT ![u] = UpstreamRow(op[a].request, @.auth)]
                    ELSE upstreams
    /\ UNCHANGED <<policies, versions, revisions, retired, referenced, stale,
                   calls, faults, unfinished, overlapped>>

\* Foreign keys of policies and of retained versions keep the row.
DeleteUpstream(a, u) ==
    /\ op[a].pc = "idle"
    /\ calls < MaxCalls
    /\ upstreams[u] # None
    /\ \A p \in PolicyRows : \A n \in DOMAIN versions[p] : versions[p][n].upstream # u
    /\ \A p \in PolicyRows : policies[p].def.upstream # u
    /\ upstreams' = [upstreams EXCEPT ![u] = None]
    /\ retired' = retired \cup {u}
    /\ calls' = calls + 1
    /\ UNCHANGED <<policies, versions, revisions, referenced, stale, op,
                   faults, unfinished, overlapped>>

-----------------------------------------------------------------------------
(* The environment.                                                        *)

\* A proxy's decision arrives whose deciding policy still has its row.
RecordDecision(p) ==
    /\ policies[p] # None
    /\ referenced' = referenced \cup {p}
    /\ UNCHANGED <<upstreams, policies, versions, revisions, retired, stale, op,
                   calls, faults, unfinished, overlapped>>

\* One database or Valkey call of a request fails.
CallFails(a) ==
    /\ faults < MaxFaults
    /\ faults' = faults + 1
    /\ op' = CASE op[a].pc = "write" -> importPersistenceError(a)
               [] op[a].pc \in {"list", "number", "record"}
                    -> [op EXCEPT ![a].pc = "invalidate"]
               [] OTHER -> [op EXCEPT ![a] = NoOp]
    /\ op[a].pc # "idle"
    /\ unfinished' = (unfinished \/ op[a].pc \in {"list", "number", "record", "invalidate"})
    /\ UNCHANGED <<upstreams, policies, versions, revisions, retired, referenced, stale,
                   calls, overlapped>>

\* The process stops, or the client goes away and cancels the context that
\* every later call of the request uses.
Abandon(a) ==
    /\ faults < MaxFaults
    /\ faults' = faults + 1
    /\ op[a].pc # "idle"
    /\ op' = [op EXCEPT ![a] = NoOp]
    /\ unfinished' = (unfinished \/ op[a].pc \in {"list", "number", "record", "invalidate"}
                                 \/ op[a].mutated)
    /\ UNCHANGED <<upstreams, policies, versions, revisions, retired, referenced, stale,
                   calls, overlapped>>

-----------------------------------------------------------------------------
Init ==
    /\ upstreams = [u \in UpstreamIDs |-> IF u = InitialID THEN UpstreamRow(InitialUpstream, "none")
                                          ELSE None]
    /\ policies = [p \in PolicyIDs |-> None]
    /\ versions = [p \in PolicyIDs |-> <<>>]
    /\ revisions = <<>>
    /\ retired = {}
    /\ referenced = {}
    /\ stale = FALSE
    /\ op = [a \in Admins |-> NoOp]
    /\ calls = 0
    /\ faults = 0
    /\ unfinished = FALSE
    /\ overlapped = FALSE

createPolicy(a) == \E d \in Definitions : Create(a, policyFromRequest(d))

updatePolicy(a) ==
    \E p \in PolicyIDs, d \in Definitions : Update(a, p, policyFromRequest(d))

rollbackPolicy(a) == \E p \in PolicyIDs, n \in 1..MaxCalls : RollbackToVersion(a, p, n)

deletePolicy(a) == \E p \in PolicyIDs, force \in BOOLEAN : Delete(a, p, force)

importPolicies(a) == \E ds \in Imports : ImportPolicies(a, toCorePolicyFile(ds))

PolicyRequest(a) ==
    \/ createPolicy(a)
    \/ updatePolicy(a)
    \/ rollbackPolicy(a)
    \/ deletePolicy(a)
    \/ importPolicies(a)

PolicyWrite(a) ==
    \/ existingPoliciesByName(a)
    \/ CreateRow(a)
    \/ UpdateRow(a)
    \/ RollbackRow(a)
    \/ DeleteRow(a)
    \/ persistImportedPolicy(a)

finalizeTenantMutation(a) ==
    \/ ListForRevision(a)
    \/ NextGeneration(a)
    \/ CreateRevision(a)
    \/ InvalidateTenant(a)

createUpstream(a) ==
    \E u \in UpstreamIDs, r \in Requests :
        toDomainUpstreamAuth(r.ecosystem, r.auth) /\ CreateUpstream(a, u, r)

updateUpstream(a) ==
    \E u \in UpstreamIDs, r \in Requests :
        toDomainUpstreamAuth(r.ecosystem, r.auth) /\ UpdateUpstream(a, u, r)

deleteUpstream(a) == \E u \in UpstreamIDs : DeleteUpstream(a, u)

UpstreamRequest(a) ==
    \/ createUpstream(a)
    \/ updateUpstream(a)
    \/ UpdateUpstreamRow(a)
    \/ deleteUpstream(a)

Next ==
    \/ \E a \in Admins : PolicyRequest(a) \/ PolicyWrite(a) \/ finalizeTenantMutation(a)
    \/ \E a \in Admins : UpstreamRequest(a)
    \/ \E p \in PolicyIDs : RecordDecision(p)
    \/ \E a \in Admins : CallFails(a) \/ Abandon(a)

Spec == Init /\ [][Next]_vars

-----------------------------------------------------------------------------
(* Properties.                                                             *)

PCs == {"idle", "lookup", "write", "list", "number", "record", "invalidate"}
Kinds == {"create", "update", "rollback", "delete", "import", "upstream"}
Names == {d.name : d \in StoredDefinitions}

Operation ==
    [pc : PCs, kind : Kinds \cup {None}, policy : PolicyIDs \cup {None},
     def : StoredDefinitions \cup {None}, upstream : UpstreamIDs \cup {None},
     request : Requests \cup {None}, force : BOOLEAN, number : Nat,
     todo : Seq(StoredDefinitions), names : UNION {[S -> PolicyIDs] : S \in SUBSET Names},
     mutated : BOOLEAN, hash : SUBSET StoredDefinitions]

\* Rows, versions and requests in flight have the shape the tables and the
\* services give them; what is stored decodes again, which every listing of
\* the tenant needs (scanPolicy).
TypeOK ==
    /\ policies \in [PolicyIDs -> PolicyRow \cup {None}]
    /\ versions \in [PolicyIDs -> {versions[p] : p \in PolicyIDs}]
    /\ \A p \in PolicyIDs : /\ versions[p] \in [DOMAIN versions[p] -> StoredDefinitions]
                            /\ DOMAIN versions[p] \subseteq Nat
    /\ upstreams \in [UpstreamIDs -> UpstreamRecord \cup {None}]
    /\ revisions \in Seq(SUBSET StoredDefinitions)
    /\ retired \subseteq PolicyIDs \cup UpstreamIDs
    /\ referenced \subseteq PolicyIDs
    /\ op \in [Admins -> Operation]
    /\ stale \in BOOLEAN /\ unfinished \in BOOLEAN /\ overlapped \in BOOLEAN
    /\ calls \in Nat /\ faults \in Nat

\* Version history (policy.go, policy_versions.go): whatever mix of updates,
\* rollbacks, imports and prunings ran, a policy keeps exactly its newest
\* MaxRetainedPolicyVersions versions without a gap, the newest is the row
\* in force, and a deleted policy leaves none.
HistoryIntact ==
    \A p \in PolicyIDs :
        IF policies[p] = None THEN DOMAIN versions[p] = {}
        ELSE LET n == policies[p].version IN
             /\ DOMAIN versions[p] = {k \in 1..n : n - k < MaxRetainedPolicyVersions}
             /\ versions[p][n] = policies[p].def

\* A version number never comes to mean another definition: the row changes
\* only under a new, higher number, and a retained version is never rewritten.
VersionsImmutable ==
    [][\A p \in PolicyIDs :
        policies[p] # None /\ policies'[p] # None =>
            /\ policies'[p] # policies[p] => policies'[p].version > policies[p].version
            /\ \A k \in DOMAIN versions[p] \cap DOMAIN versions'[p] :
                    versions'[p][k] = versions[p][k]]_vars

Quiet == \A a \in Admins : op[a].pc = "idle"

\* finalizeTenantMutation runs after every commit, that of an import which
\* failed half-way included: when no call failed and no client went away,
\* no decision cached before the last commit is left once requests ended.
CommitsInvalidated == Quiet /\ faults = 0 => ~stale

\* When every mutation was answered without an error after its commit, the
\* policy set in force has a revision, though not always the newest one: two
\* requests may record their listings in the other order.
SuccessIsRecorded ==
    Quiet /\ ~unfinished /\ (PolicyRows # {} \/ retired \cap PolicyIDs # {}) =>
        /\ ~stale
        /\ \E i \in 1..Len(revisions) : revisions[i] = HashPolicies

Fits(d) ==
    d.upstream # None =>
        /\ upstreams[d.upstream] # None
        /\ ValidateUpstreamCompatibility(d.type, upstreams[d.upstream])

\* A policy scoped to an upstream can run against it: its ecosystem and the
\* capabilities its type needs are there.
ScopedPoliciesFit == \A p \in PolicyRows : Fits(policies[p].def)

\* Only an upstream update that overlaps the check and write of a policy
\* request can break the fit of a scoped policy: the checks of create,
\* update, import and rollback against those of the upstream update leave
\* no other way.
FitUnlessOverlapped == ~overlapped => ScopedPoliciesFit

\* Delete checks that the policy is disabled and deletes in another
\* transaction: an enabled policy is only ever deleted when it changed
\* after the check.
EnabledDeletedOnlyByRace ==
    [][\A p \in PolicyIDs :
        policies[p] # None /\ policies'[p] = None /\ policies[p].def.enabled =>
            \E a \in Admins : /\ op[a].kind = "delete" /\ op[a].policy = p
                              /\ op[a].number < policies[p].version]_vars
=============================================================================
