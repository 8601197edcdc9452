--------------------------- MODULE AccessPipeline ---------------------------
(***************************************************************************)
(* AccessService.Evaluate for one tenant: concurrent requests that load    *)
(* the tenant's policies from the proxy's bundle cache, consult the shared *)
(* Valkey decision cache, evaluate, write the decision back and record it, *)
(* while the control plane changes policies and bumps the decision-cache   *)
(* generation.  One package (npm) and one repository (OCI) stand for all   *)
(* names: every key the code builds starts with the tenant and the name.   *)
(* Time is abstracted: a bundle entry may pass its refresh interval, a     *)
(* cached decision its TTL and a recorded allow its hour at any moment.    *)
(***************************************************************************)
EXTENDS Integers, Sequences, FiniteSets

CONSTANTS
    Req,            \* request goroutines of the proxies
    Admin,          \* control-plane requests that mutate policies
    Upstreams,      \* upstream registries of the tenant
    AnyUpstream,    \* the empty upstream_id: a tenant-wide policy
    OCITags, OCIDigests, NPMTags, NPMVersions,
    BlockedTags,    \* tags listed by the tenant's block_mutable_tag policy
    None,           \* the empty string, nil pointer
    PolicySets,     \* the enabled policy sets an administrator may install
    FailClosed,     \* audit.failure_mode = fail_closed
    AlwaysRefresh,  \* bundle.refresh_interval <= 0
    MaxVersion,     \* bound on policy mutations
    MaxGeneration,  \* bound on cache invalidations
    MaxFaults       \* bound on failed calls to Valkey, control plane, audit

Refs == OCITags \cup OCIDigests \cup NPMTags \cup NPMVersions
Scopes == {"direct", "transitive"}
Contexts == Scopes \cup {"unknown", "none"}
Metadata == {"clean", "vulnerable", "unavailable"}

NoTarget == [scopes |-> {}, onUnknown |-> "untargeted"]
Target == [scopes : SUBSET Scopes, onUnknown : {"warn", "deny", "skip"}]
Policy == [type : {"block_mutable_tag", "cvss", "denylist"},
           upstream : Upstreams \cup {AnyUpstream},
           target : Target \cup {NoTarget},
           valid : BOOLEAN]

Artifact == [ecosystem : {"oci", "npm"},
             version : Refs \cup {None},
             digest : OCIDigests \cup {None}]

ASSUME ConstantsAssumption ==
    /\ PolicySets \subseteq SUBSET Policy
    /\ PolicySets # {}
    /\ None \notin Refs
    /\ Upstreams # {}
    /\ FailClosed \in BOOLEAN
    /\ AlwaysRefresh \in BOOLEAN
    /\ MaxVersion \in Nat \ {0}
    /\ MaxGeneration \in Nat
    /\ MaxFaults \in Nat

-----------------------------------------------------------------------------
(* Artifact identity, domain/normalize.go.                                 *)

\* A reference that is a digest moves from Version to Digest.
NormalizeArtifactIdentity(a) ==
    IF a.ecosystem = "oci" /\ a.version \in OCIDigests
    THEN [a EXCEPT !.digest = a.version, !.version = None]
    ELSE a

CacheKey(a) == <<a.ecosystem, IF a.digest # None THEN a.digest ELSE a.version>>

IsMutableReference(a) == a.digest = None /\ a.version # None
IsNPMDistTag(a) == a.ecosystem = "npm" /\ a.version \in NPMTags
IsUnversionedNPM(a) == a.ecosystem = "npm" /\ a.version = None

-----------------------------------------------------------------------------
(* The evaluator, as far as the pipeline needs it (see PolicyEngine).      *)

FilterPoliciesForUpstream(ps, u) == {p \in ps : p.upstream \in {AnyUpstream, u}}

TargetMode(p, c) ==
    CASE p.target = NoTarget -> "apply"
      [] p.target # NoTarget /\ c \notin Scopes ->
            (CASE p.target.onUnknown = "deny" -> "apply"
               [] p.target.onUnknown = "skip" -> "skip"
               [] OTHER -> "warn")
      [] OTHER -> IF p.target.scopes # {} /\ c \notin p.target.scopes
                  THEN "skip" ELSE "apply"

\* mutableTag is Metadata.IsMutableTag; a missing CVSS score never matches.
Matches(p, a, mutableTag, meta) ==
    CASE p.type = "block_mutable_tag" -> mutableTag /\ a.version \in BlockedTags
      [] p.type = "cvss" -> meta = "vulnerable"
      [] OTHER -> TRUE

Outcome(ps, a, mutableTag, meta, c) ==
    IF \E p \in ps : TargetMode(p, c) = "apply" /\ Matches(p, a, mutableTag, meta)
    THEN "deny" ELSE "allow"

ValidatePolicies(ps) == \A p \in ps : p.valid
NeedsEnrichment(ps) == \E p \in ps : p.type = "cvss"
NeedsDependencyContext(ps) == \E p \in ps : p.target # NoTarget

ShouldResolveDependencyContext(a, ps) ==
    /\ a.ecosystem = "npm" /\ a.version # None /\ ~IsNPMDistTag(a)
    /\ NeedsDependencyContext(ps)
ShouldEnrichArtifact(a, ps) == ~IsUnversionedNPM(a) /\ NeedsEnrichment(ps)
ShouldCacheDecision(a) == ~IsUnversionedNPM(a)
ShouldPersistDecision(a, outcome) == ~(IsUnversionedNPM(a) /\ outcome = "allow")

-----------------------------------------------------------------------------
VARIABLES
    history,      \* history[v] is the tenant's v-th policy set; the last is current
    admin,        \* admin[m]: version whose finalizeTenantMutation is pending, or 0
    generation,   \* decision-generation:{tenant}
    cache,        \* entries [gen, dec] of the decision cache
    bundle,       \* the proxy's cached bundle: policy version (0 = none), freshness
    req,          \* the state of every request
    recentAllow,  \* decisions table: the newest OCI allow of the last hour, NoDecision if none
    covered,      \* covered[g+1]: newest policy version when generation g began (history)
    faults        \* failures injected so far

vars == <<history, admin, generation, cache, bundle, req, recentAllow, covered, faults>>

Versions == 0..MaxVersion
Generations == 0..MaxGeneration

\* domain.Decision; version stands for PolicyHash.
Decision == [outcome : {"allow", "deny"}, version : Versions,
             art : Artifact, ctx : Contexts]
NoArtifact == [ecosystem |-> "npm", version |-> None, digest |-> None]
NoDecision == [outcome |-> "deny", version |-> 0, art |-> NoArtifact, ctx |-> "none"]

\* Mutants of DecisionKey: the context hash, or the generation, is left out.
DecisionKeyWithoutContext(gen, a, c) == <<gen, "none", CacheKey(a)>>
DecisionKeyWithoutGeneration(gen, a, c) == <<0, c, CacheKey(a)>>

\* decisionKey: generation, dependency-context hash, artifact cache key.
DecisionKey(gen, a, c) == <<gen, c, CacheKey(a)>>
EntryKey(e) == DecisionKey(e.gen, e.dec.art, e.dec.ctx)
Entry == [gen : Generations, dec : Decision]

Stages == {"idle", "resolve", "load", "fetch", "store", "prepare", "context",
           "lookupGen", "lookupKey", "evaluate", "setGen", "setKey",
           "record", "respond"}

Request == [pc : Stages, up : Upstreams, art : Artifact, mutableTag : BOOLEAN,
            snap : Versions,        \* version of the policy set loaded
            ctx : Contexts, gen : Generations, dec : Decision,
            hit : Generations \cup {-1},  \* generation of the entry hit, -1 if none
            startGen : Generations]       \* generation when the request arrived

IdleRequest == [pc |-> "idle", up |-> CHOOSE u \in Upstreams : TRUE,
                art |-> NoArtifact, mutableTag |-> FALSE, snap |-> 0,
                ctx |-> "none", gen |-> 0, dec |-> NoDecision, hit |-> -1,
                startGen |-> 0]

PolicySet(r) == FilterPoliciesForUpstream(history[req[r].snap], req[r].up)

Init ==
    /\ history \in {<<ps>> : ps \in PolicySets}
    /\ admin = [m \in Admin |-> 0]
    /\ generation = 0
    /\ cache = {}
    /\ bundle = [version |-> 0, fresh |-> FALSE]
    /\ req = [r \in Req |-> IdleRequest]
    /\ recentAllow = NoDecision
    /\ covered = <<1>>
    /\ faults = 0

-----------------------------------------------------------------------------
(* Failures and audit.                                                     *)

\* ok = FALSE is one failed external call, as long as the bound allows it.
Fault(ok) ==
    \/ ok /\ UNCHANGED faults
    \/ ~ok /\ faults < MaxFaults /\ faults' = faults + 1

\* The request goroutine r continues as `next`.
Continue(r, next) == req' = [req EXCEPT ![r] = next]
\* The handler has answered the client (with an error, if stages remain).
EndRequest(r) == req' = [req EXCEPT ![r] = IdleRequest]

\* AuditService.Record of a required event: a lost event ends the request in
\* fail_closed mode and is only logged in fail_open mode.
RecordAudit(r, ok, next) ==
    IF ok \/ ~FailClosed THEN Continue(r, next) ELSE EndRequest(r)

-----------------------------------------------------------------------------
(* The stages of AccessService.Evaluate.                                   *)

\* What the OCI and npm routes produce before normalization.
RawArtifacts ==
    [ecosystem : {"oci"}, version : OCITags \cup OCIDigests, digest : {None}]
    \cup [ecosystem : {"npm"}, version : NPMTags \cup NPMVersions \cup {None},
          digest : {None}]

NormalizeAccessRequest(r, raw, u, ok) ==
    /\ req[r].pc = "idle"
    /\ Fault(ok)
    /\ LET a == NormalizeArtifactIdentity(raw)
           mutable == \/ a.ecosystem = "oci" /\ IsMutableReference(a)
                      \/ IsNPMDistTag(a)
       IN RecordAudit(r, ok, [IdleRequest EXCEPT
                !.pc = IF mutable THEN "resolve" ELSE "load",
                !.art = a, !.up = u, !.startGen = generation])
    /\ UNCHANGED <<history, admin, generation, cache, bundle, recentAllow, covered>>

\* resolveMutableOCIReference: the tag stays in Version, the digest is added.
ResolveOCITag(r, d, ok) ==
    /\ req[r].pc = "resolve" /\ req[r].art.ecosystem = "oci"
    /\ Fault(ok)
    /\ RecordAudit(r, ok, [req[r] EXCEPT !.pc = "load", !.mutableTag = TRUE,
                                         !.art.digest = d])
    /\ UNCHANGED <<history, admin, generation, cache, bundle, recentAllow, covered>>

\* resolveMutableNPMReference: the version replaces the dist-tag.
ResolveNPMDistTag(r, v, ok) ==
    /\ req[r].pc = "resolve" /\ req[r].art.ecosystem = "npm"
    /\ Fault(ok)
    /\ RecordAudit(r, ok, [req[r] EXCEPT !.pc = "load", !.art.version = v])
    /\ UNCHANGED <<history, admin, generation, cache, bundle, recentAllow, covered>>

\* The upstream cannot resolve the reference: evaluation goes on with the tag.
ResolveFallsBackToTag(r) ==
    /\ req[r].pc = "resolve"
    /\ Fault(FALSE)
    /\ Continue(r, [req[r] EXCEPT !.pc = "load",
                                  !.mutableTag = req[r].art.ecosystem = "oci"])
    /\ UNCHANGED <<history, admin, generation, cache, bundle, recentAllow, covered>>

\* Mutant: an entry is served forever once it is there.
LoadCachedBundleForever(r) ==
    /\ req[r].pc = "load"
    /\ Continue(r, [req[r] EXCEPT !.pc = IF bundle.version # 0 THEN "prepare" ELSE "fetch",
                                  !.snap = bundle.version])
    /\ UNCHANGED <<history, admin, generation, cache, bundle, recentAllow, covered, faults>>

\* CachedBundleProvider.GetTenantBundle up to the fetch: serve a fresh entry,
\* or remember the entry (0 if there is none) as last-known-good and refresh.
LoadCachedBundle(r) ==
    /\ req[r].pc = "load"
    /\ LET serve == bundle.version # 0 /\ bundle.fresh /\ ~AlwaysRefresh
       IN Continue(r, [req[r] EXCEPT !.pc = IF serve THEN "prepare" ELSE "fetch",
                                     !.snap = bundle.version])
    /\ UNCHANGED <<history, admin, generation, cache, bundle, recentAllow, covered, faults>>

\* The control plane assembles the bundle from the current policies; a failed
\* fetch falls back to the remembered entry or fails the request.
FetchTenantBundle(r, ok) ==
    /\ req[r].pc = "fetch"
    /\ Fault(ok)
    /\ CASE ok -> Continue(r, [req[r] EXCEPT !.pc = "store", !.snap = Len(history)])
         [] ~ok /\ req[r].snap # 0 -> Continue(r, [req[r] EXCEPT !.pc = "prepare"])
         [] OTHER -> EndRequest(r)
    /\ UNCHANGED <<history, admin, generation, cache, bundle, recentAllow, covered>>

\* store: unconditional, whatever another request stored meanwhile.
StoreBundle(r) ==
    /\ req[r].pc = "store"
    /\ bundle' = [version |-> req[r].snap, fresh |-> TRUE]
    /\ Continue(r, [req[r] EXCEPT !.pc = "prepare"])
    /\ UNCHANGED <<history, admin, generation, cache, recentAllow, covered, faults>>

\* The stage after the policies (and the dependency context) are known.
LookupStage(a) == IF ShouldCacheDecision(a) THEN "lookupGen" ELSE "evaluate"
\* The stage after a decision is made.
FinalizeStage(a, outcome) ==
    CASE ShouldCacheDecision(a) -> "setGen"
      [] ~ShouldCacheDecision(a) /\ ShouldPersistDecision(a, outcome) -> "record"
      [] OTHER -> "respond"

\* Mutant: the policy set is not validated before the cache lookup.
PreparePolicySetUnvalidated(r, ok) ==
    /\ req[r].pc = "prepare"
    /\ Fault(ok)
    /\ LET a == req[r].art IN
       RecordAudit(r, ok, [req[r] EXCEPT
            !.pc = IF ShouldResolveDependencyContext(a, PolicySet(r))
                   THEN "context" ELSE LookupStage(a)])
    /\ UNCHANGED <<history, admin, generation, cache, bundle, recentAllow, covered>>

\* preparePolicySet: an invalid set denies before the cache is consulted
\* (denyForInvalidPolicySet ignores audit failures).
PreparePolicySet(r, ok) ==
    /\ req[r].pc = "prepare"
    /\ Fault(ok)
    /\ LET a == req[r].art IN
       IF ~ValidatePolicies(history[req[r].snap])
       THEN Continue(r, [req[r] EXCEPT
                !.pc = FinalizeStage(a, "deny"),
                !.dec = [outcome |-> "deny", version |-> req[r].snap,
                         art |-> a, ctx |-> "none"]])
       ELSE RecordAudit(r, ok, [req[r] EXCEPT
                !.pc = IF ShouldResolveDependencyContext(a, PolicySet(r))
                       THEN "context" ELSE LookupStage(a)])
    /\ UNCHANGED <<history, admin, generation, cache, bundle, recentAllow, covered>>

\* attachDependencyContext: the graph component answers with some context.
AttachDependencyContext(r, c, ok) ==
    /\ req[r].pc = "context"
    /\ Fault(ok)
    /\ RecordAudit(r, ok, [req[r] EXCEPT !.pc = LookupStage(req[r].art), !.ctx = c])
    /\ UNCHANGED <<history, admin, generation, cache, bundle, recentAllow, covered>>

\* The stored-context lookup fails: so does the request.
DependencyContextFails(r) ==
    /\ req[r].pc = "context"
    /\ Fault(FALSE)
    /\ EndRequest(r)
    /\ UNCHANGED <<history, admin, generation, cache, bundle, recentAllow, covered>>

\* DecisionCache.Get, first command: the tenant generation.
LookupGeneration(r, ok) ==
    /\ req[r].pc = "lookupGen"
    /\ Fault(ok)
    /\ Continue(r, IF ok THEN [req[r] EXCEPT !.pc = "lookupKey", !.gen = generation]
                   ELSE [req[r] EXCEPT !.pc = "evaluate"])
    /\ UNCHANGED <<history, admin, generation, cache, bundle, recentAllow, covered>>

\* DecisionCache.Get, second command, and useCachedDecision on a hit.
LookupEntry(r, ok) ==
    /\ req[r].pc = "lookupKey"
    /\ Fault(ok)
    /\ LET key == DecisionKey(req[r].gen, req[r].art, req[r].ctx) IN
       \/ \E e \in cache : EntryKey(e) = key /\
             RecordAudit(r, ok, [req[r] EXCEPT !.pc = "respond", !.gen = 0,
                                               !.dec = e.dec, !.hit = e.gen])
       \/ /\ \A e \in cache : EntryKey(e) # key
          /\ RecordAudit(r, ok, [req[r] EXCEPT !.pc = "evaluate", !.gen = 0])
    /\ UNCHANGED <<history, admin, generation, cache, bundle, recentAllow, covered>>

\* A Valkey error on the entry read: proceed without the cache.
LookupEntryFails(r) ==
    /\ req[r].pc = "lookupKey"
    /\ Fault(FALSE)
    /\ Continue(r, [req[r] EXCEPT !.pc = "evaluate", !.gen = 0])
    /\ UNCHANGED <<history, admin, generation, cache, bundle, recentAllow, covered>>

\* enrichArtifact (fail-open: unavailable metadata) and evaluatePolicies.
EvaluatePolicies(r, meta, ok) ==
    /\ req[r].pc = "evaluate"
    /\ meta = "unavailable" \/ ShouldEnrichArtifact(req[r].art, PolicySet(r))
    /\ Fault(ok)
    /\ LET a == req[r].art
           out == Outcome(PolicySet(r), a, req[r].mutableTag, meta, req[r].ctx)
       IN RecordAudit(r, ok, [req[r] EXCEPT
                !.pc = FinalizeStage(a, out),
                !.dec = [outcome |-> out, version |-> req[r].snap,
                         art |-> a, ctx |-> req[r].ctx]])
    /\ UNCHANGED <<history, admin, generation, cache, bundle, recentAllow, covered>>

\* DecisionCache.Set, first command: the generation at write time.
SetReadsGeneration(r, ok) ==
    /\ req[r].pc = "setGen"
    /\ Fault(ok)
    /\ Continue(r, IF ok THEN [req[r] EXCEPT !.pc = "setKey", !.gen = generation]
                   ELSE [req[r] EXCEPT !.pc = "record"])
    /\ UNCHANGED <<history, admin, generation, cache, bundle, recentAllow, covered>>

\* DecisionCache.Set, second command.
SetWritesEntry(r, ok) ==
    /\ req[r].pc = "setKey"
    /\ Fault(ok)
    /\ LET e == [gen |-> req[r].gen, dec |-> req[r].dec]
       IN cache' = IF ok THEN {f \in cache : EntryKey(f) # EntryKey(e)} \cup {e}
                   ELSE cache
    /\ Continue(r, [req[r] EXCEPT !.pc = "record", !.gen = 0])
    /\ UNCHANGED <<history, admin, generation, bundle, recentAllow, covered>>

\* Mutant: every recorded OCI decision counts as a recent allow.
RecordAnyDecision(r, ok) ==
    /\ req[r].pc = "record"
    /\ Fault(ok)
    /\ recentAllow' = IF req[r].art.ecosystem = "oci" THEN req[r].dec ELSE recentAllow
    /\ Continue(r, [req[r] EXCEPT !.pc = "respond"])
    /\ UNCHANGED <<history, admin, generation, cache, bundle, covered>>

\* finalizeDecision's second half: persist, then the required audit event.
\* The invalid-policy path has no such event.
RecordDecision(r, ok) ==
    /\ req[r].pc = "record"
    /\ Fault(ok)
    /\ recentAllow' = IF req[r].dec.outcome = "allow" /\ req[r].art.ecosystem = "oci"
                      THEN req[r].dec ELSE recentAllow
    /\ LET done == [req[r] EXCEPT !.pc = "respond"] IN
       IF ValidatePolicies(history[req[r].snap])
       THEN RecordAudit(r, ok, done) ELSE Continue(r, done)
    /\ UNCHANGED <<history, admin, generation, cache, bundle, covered>>

\* A failed Record is logged and the decision is returned all the same.
RecordDecisionFails(r) ==
    /\ req[r].pc = "record"
    /\ Fault(FALSE)
    /\ Continue(r, [req[r] EXCEPT !.pc = "respond"])
    /\ UNCHANGED <<history, admin, generation, cache, bundle, recentAllow, covered>>

\* The protocol handler answers the client and the goroutine ends.
Respond(r) ==
    /\ req[r].pc = "respond"
    /\ EndRequest(r)
    /\ UNCHANGED <<history, admin, generation, cache, bundle, recentAllow, covered, faults>>

-----------------------------------------------------------------------------
(* The control plane.                                                      *)

\* A policy create, update, import, delete or rollback commits.
MutatePolicies(m, ps) ==
    /\ admin[m] = 0
    /\ Len(history) < MaxVersion
    /\ history' = Append(history, ps)
    /\ admin' = [admin EXCEPT ![m] = Len(history) + 1]
    /\ UNCHANGED <<generation, cache, bundle, req, recentAllow, covered, faults>>

\* finalizeTenantMutation: InvalidateTenant (INCR) after the commit; a failure
\* is returned to the administrator and not retried.
FinalizeTenantMutation(m, ok) ==
    /\ admin[m] # 0
    /\ Fault(ok)
    /\ ok => generation < MaxGeneration
    /\ generation' = IF ok THEN generation + 1 ELSE generation
    /\ covered' = IF ok THEN Append(covered, Len(history)) ELSE covered
    /\ admin' = [admin EXCEPT ![m] = 0]
    /\ UNCHANGED <<history, cache, bundle, req, recentAllow>>

\* Generations that policy mutations may still need.
Reserved == (MaxVersion - Len(history)) + Cardinality({m \in Admin : admin[m] # 0})

\* DELETE /api/v1/cache/decisions.
ClearTenantDecisions ==
    /\ generation < MaxGeneration
    /\ generation + Reserved < MaxGeneration
    /\ generation' = generation + 1
    /\ covered' = Append(covered, Len(history))
    /\ UNCHANGED <<history, admin, cache, bundle, req, recentAllow, faults>>

-----------------------------------------------------------------------------
(* Time.                                                                   *)

\* The TTL of a cached decision passes.
DecisionExpires(key) ==
    /\ \E e \in cache : EntryKey(e) = key
    /\ cache' = {e \in cache : EntryKey(e) # key}
    /\ UNCHANGED <<history, admin, generation, bundle, req, recentAllow, covered, faults>>

\* The refresh interval of the bundle entry passes.
BundleGoesStale ==
    /\ bundle.fresh
    /\ bundle' = [bundle EXCEPT !.fresh = FALSE]
    /\ UNCHANGED <<history, admin, generation, cache, req, recentAllow, covered, faults>>

\* The last recorded allow becomes older than one hour.
RecentAllowAges ==
    /\ recentAllow # NoDecision
    /\ recentAllow' = NoDecision
    /\ UNCHANGED <<history, admin, generation, cache, bundle, req, covered, faults>>

-----------------------------------------------------------------------------
\* Every step of a request the server has accepted.
RequestStep(r) ==
    \/ \E ok \in BOOLEAN :
          \/ \E d \in OCIDigests : ResolveOCITag(r, d, ok)
          \/ \E v \in NPMVersions : ResolveNPMDistTag(r, v, ok)
          \/ FetchTenantBundle(r, ok)
          \/ PreparePolicySet(r, ok)
          \/ \E c \in Scopes \cup {"unknown"} : AttachDependencyContext(r, c, ok)
          \/ LookupGeneration(r, ok)
          \/ LookupEntry(r, ok)
          \/ \E meta \in Metadata : EvaluatePolicies(r, meta, ok)
          \/ SetReadsGeneration(r, ok)
          \/ SetWritesEntry(r, ok)
          \/ RecordDecision(r, ok)
    \/ ResolveFallsBackToTag(r)
    \/ LoadCachedBundle(r)
    \/ StoreBundle(r)
    \/ DependencyContextFails(r)
    \/ LookupEntryFails(r)
    \/ RecordDecisionFails(r)
    \/ Respond(r)

\* A client sends a request.
Arrive(r) ==
    \E ok \in BOOLEAN :
        \E raw \in RawArtifacts, u \in Upstreams : NormalizeAccessRequest(r, raw, u, ok)

ControlPlane ==
    \/ \E m \in Admin, ps \in PolicySets : MutatePolicies(m, ps)
    \/ \E m \in Admin, ok \in BOOLEAN : FinalizeTenantMutation(m, ok)
    \/ ClearTenantDecisions

Keys == {EntryKey(e) : e \in cache}

Clock ==
    \/ \E key \in Keys : DecisionExpires(key)
    \/ BundleGoesStale
    \/ RecentAllowAges

Next ==
    \/ \E r \in Req : RequestStep(r) \/ Arrive(r)
    \/ ControlPlane
    \/ Clock

Spec == Init /\ [][Next]_vars

\* Cached decisions of every key the instance can build.
AllKeys == Generations \X Contexts \X
    (({"oci"} \X (OCITags \cup OCIDigests)) \cup ({"npm"} \X (NPMTags \cup NPMVersions)))

\* The goroutines run, the administrator's request completes and clocks tick;
\* clients are under no obligation.
Fairness ==
    /\ \A r \in Req : WF_vars(RequestStep(r))
    /\ \A m \in Admin : WF_vars(\E ok \in BOOLEAN : FinalizeTenantMutation(m, ok))
    /\ \A key \in AllKeys : WF_vars(DecisionExpires(key))
    /\ WF_vars(BundleGoesStale)

FairSpec == Spec /\ Fairness

-----------------------------------------------------------------------------
(* Properties.                                                             *)

\* Every variable keeps its type.
TypeOK ==
    /\ history \in Seq(PolicySets) /\ Len(history) \in 1..MaxVersion
    /\ admin \in [Admin -> Versions]
    /\ generation \in Generations
    /\ cache \subseteq Entry
    /\ bundle \in [version : Versions, fresh : BOOLEAN]
    /\ req \in [Req -> Request]
    /\ recentAllow \in Decision
    /\ covered \in Seq(Versions) /\ Len(covered) = generation + 1
    /\ faults \in 0..MaxFaults

Answered(r) == req[r].pc = "respond"
Allowed(r) == Answered(r) /\ req[r].dec.outcome = "allow"

\* preparePolicySet validates before lookupCachedDecision: a request that
\* loaded an invalid policy set is never allowed, not even by a decision that
\* another request cached while the set was still valid.
InvalidSetNeverAllows ==
    \A r \in Req : Allowed(r) =>
        req[r].snap # 0 /\ ValidatePolicies(history[req[r].snap])

\* Tenant-wide name rules of policy set v leave context c alone.
Admits(v, c) ==
    \A p \in history[v] : p.type = "denylist" /\ p.upstream = AnyUpstream
                          => TargetMode(p, c) # "apply"

\* An allow, fresh or replayed from the decision cache, is the verdict of a
\* valid policy set the tenant had, on this request's own artifact in this
\* request's own dependency context (the decision key separates both).
AllowJustified ==
    \A r \in Req : Allowed(r) =>
        /\ req[r].dec.version \in 1..Len(history)
        /\ ValidatePolicies(history[req[r].dec.version])
        /\ CacheKey(req[r].dec.art) = CacheKey(req[r].art)
        /\ Admits(req[r].dec.version, req[r].ctx)

\* InvalidateTenant: a request that arrives after the INCR never gets an entry
\* that was written before it, although readers and writers fetch the
\* generation and the entry with two separate commands.
HitRespectsInvalidation ==
    \A r \in Req : Answered(r) /\ req[r].hit # -1 => req[r].hit >= req[r].startGen

\* The evaluator, under policy set d.version and with some metadata, allows the
\* artifact of decision d in its context (an OCI artifact with a version was
\* asked for by tag).
Allows(d) ==
    \E u \in Upstreams, meta \in Metadata :
        Outcome(FilterPoliciesForUpstream(history[d.version], u), d.art,
                d.art.ecosystem = "oci" /\ d.art.version # None, meta, d.ctx) = "allow"

\* handleBlob evaluates nothing and asks HasRecentAllow.  The gate is open only
\* on the strength of an OCI artifact that a valid policy set of the tenant
\* admits: denials of any kind, invalid sets and npm traffic never open it.
BlobGateJustified ==
    recentAllow # NoDecision =>
        /\ recentAllow.art.ecosystem = "oci"
        /\ recentAllow.version \in 1..Len(history)
        /\ ValidatePolicies(history[recentAllow.version])
        /\ Allows(recentAllow)

\* Bounded staleness: once policies stop changing, the decisions reachable in
\* the cache are eventually, and from then on, those of the current policies,
\* although a slow writer may have stored an outdated one after the INCR and a
\* slow bundle fetch may have overwritten a newer bundle.
StaleDecisionsDisappear ==
    <>[](\A e \in cache : e.gen = generation => e.dec.version = Len(history))

\* decision.go: InvalidateTenant "invalidates all cached decisions for a
\* tenant": a request that arrives after the invalidation of a policy change
\* is not answered from the cache with an earlier policy set's decision.
NoStaleHit ==
    \A r \in Req : Answered(r) /\ req[r].hit # -1
                   => req[r].dec.version >= covered[req[r].startGen + 1]
=============================================================================
