----------------------------- MODULE Enrichment -----------------------------
(***************************************************************************)
(* Enrichment of artifacts: EnrichmentService with its Valkey cache, the   *)
(* composite enricher over OSV and the npm registry, and the Scorecard     *)
(* lookup the npm enricher makes; judged by the conditions of              *)
(* PolicyConditions.  One tenant.                                          *)
(*                                                                         *)
(* Every call to Valkey or to a source is a step; each may fail.  OSV      *)
(* learns of vulnerabilities while the program runs.                       *)
(***************************************************************************)
EXTENDS PolicyConditions

CONSTANTS Requests, Artifacts,
          Registry,      \* artifact -> what npm says of it, or None
          Project,       \* what Scorecard says of the source repository, or None
          Vulns,         \* OSV records of the npm artifacts
          SkipRules,     \* policies that skip what they have no data for
          StrictRules,   \* policies that deny without data
          MaxGeneration, MaxOutages   \* bounds

\* CVSS scores are at most 10.
ASSUME EnrichmentAssumption ==
    /\ None \notin Int
    /\ MaxGeneration \in Nat /\ MaxOutages \in Nat
    /\ \A v \in Vulns : v.scores \subseteq 0..10
    /\ \A p \in SkipRules :
         /\ p.type \in {"minimum_age", "maximum_age", "cvss_threshold", "license", "block_mutable_tag"}
         /\ p.type = "cvss_threshold" => p.config.maxCVSS \in Int \cup {None}
    /\ \A p \in StrictRules :
         /\ p.type \in {"license_allowlist", "scorecard"}
         /\ p.config.unavailable # "skip"
         /\ p.type = "license_allowlist" => p.config.unlicensed # "skip"

VARIABLES known,      \* the vulnerabilities OSV knows
          generation, \* the tenant's metadata generation
          cache,      \* generation -> artifact -> entry, or None
          req,        \* request -> its progress
          outages

vars == <<known, generation, cache, req, outages>>

Sources == {"osv", "npm", "scorecard"}

EmptyMetadata == [age |-> None, maxCVSS |-> None, vulnerabilities |-> {}, licenses |-> {},
                  repo |-> None, scorecard |-> None, isMutableTag |-> FALSE]

\* "failed" is history: the sources that did not answer for the metadata.
NoRequest == [pc |-> "idle", artifact |-> None, generation |-> 0, meta |-> None, failed |-> {}]

-----------------------------------------------------------------------------
(* OSV.                                                                    *)

MaxScore(scores) == CHOOSE s \in scores : \A t \in scores : t <= s

\* "" is None.
severityFromScore(score) ==
    CASE score >= 9 -> "critical"
      [] score >= 7 /\ score < 9 -> "high"
      [] score >= 4 /\ score < 7 -> "medium"
      [] score > 0 /\ score < 4 -> "low"
      [] OTHER -> None

\* A score is what parseCVSSScore makes of a vector, 0 if nothing.
extractSeverity(scores) ==
    IF scores = {} THEN [severity |-> None, cvss |-> 0]
    ELSE [severity |-> severityFromScore(MaxScore(scores)), cvss |-> MaxScore(scores)]

normalizeDatabaseSeverity(value) ==
    CASE value \in {"none", "low", "medium", "high", "critical"} -> value
      [] value = "moderate" -> "medium"
      [] OTHER -> None

\* The database's word goes before the score's.
resolveSeverity(v) ==
    LET declared == normalizeDatabaseSeverity(v.database) IN
    IF declared = None THEN extractSeverity(v.scores)
    ELSE [extractSeverity(v.scores) EXCEPT !.severity = declared]

toArtifactMetadata(vulns) ==
    LET resolved == {resolveSeverity(v) : v \in vulns}
        scores == {v.cvss : v \in resolved} \ {0}
    IN [EmptyMetadata EXCEPT !.vulnerabilities = resolved,
                             !.maxCVSS = IF scores = {} THEN None ELSE MaxScore(scores)]

\* OSV is not asked about images.
OSVAnswer(a, vulns) ==
    IF a.ecosystem = "oci" THEN EmptyMetadata ELSE toArtifactMetadata(vulns)

-----------------------------------------------------------------------------
(* npm registry and Scorecard.                                             *)

\* The version's repository, else the package's, if it is on GitHub.
resolveSourceRepository(p) ==
    IF "github" \in {p.versionRepo, p.repo} THEN "github" ELSE None

\* A Scorecard result without score and checks: unavailable.
ScorecardUnavailable == [score |-> None, checks |-> <<>>]

\* Before the Scorecard lookup, if there is one to make.  Of a version that the
\* document times but does not list, the date is all there is.
enrichPackageVersion(p) ==
    IF ~p.listed THEN [EmptyMetadata EXCEPT !.age = p.age]
    ELSE [EmptyMetadata EXCEPT !.age = p.age, !.licenses = p.licenses,
        !.repo = resolveSourceRepository(p),
        !.scorecard = IF resolveSourceRepository(p) = None THEN ScorecardUnavailable ELSE None]

NPMAnswer(a) ==
    IF a.ecosystem # "npm" \/ Registry[a] = None THEN EmptyMetadata
    ELSE enrichPackageVersion(Registry[a])

Lookup == IF Project = None THEN ScorecardUnavailable ELSE Project

\* Mutant: the nil check of the score is missing, the last source's counts.
BugmergeMetadata(dst, src) ==
    [src EXCEPT !.vulnerabilities = @ \cup dst.vulnerabilities,
                !.licenses = @ \cup dst.licenses]

\* What src has goes over what dst has; lists are joined.
mergeMetadata(dst, src) ==
    [age |-> IF src.age # None THEN src.age ELSE dst.age,
     maxCVSS |-> IF src.maxCVSS # None THEN src.maxCVSS ELSE dst.maxCVSS,
     vulnerabilities |-> dst.vulnerabilities \cup src.vulnerabilities,
     licenses |-> dst.licenses \cup src.licenses,
     repo |-> IF src.repo # None THEN src.repo ELSE dst.repo,
     scorecard |-> IF src.scorecard # None THEN src.scorecard ELSE dst.scorecard,
     isMutableTag |-> dst.isMutableTag \/ src.isMutableTag]

\* What there is to say of a when OSV knows V and the sources in F are out.
Gathered(a, V, F) ==
    LET npm == NPMAnswer(a) IN
    mergeMetadata(OSVAnswer(a, V),
        IF "npm" \in F THEN EmptyMetadata
        ELSE IF npm.repo = None THEN npm
        ELSE [npm EXCEPT !.scorecard = IF "scorecard" \in F THEN ScorecardUnavailable ELSE Lookup])


-----------------------------------------------------------------------------
(* EnrichWithCorrelation.                                                  *)

Fails == outages < MaxOutages /\ outages' = outages + 1

currentCacheGeneration(r, a) ==
    /\ req[r].pc = "idle"
    /\ req' = [req EXCEPT ![r] = [NoRequest EXCEPT !.pc = "get", !.artifact = a,
                                                   !.generation = generation]]
    /\ UNCHANGED <<known, generation, cache, outages>>

lookupCachedMetadata(r) ==
    LET entry == cache[req[r].generation][req[r].artifact] IN
    /\ req[r].pc = "get"
    /\ req' = [req EXCEPT ![r] = IF entry # None
                THEN [@ EXCEPT !.pc = "evaluate", !.meta = entry.meta, !.failed = entry.failed]
                ELSE [@ EXCEPT !.pc = "osv", !.meta = EmptyMetadata]]
    /\ UNCHANGED <<known, generation, cache, outages>>

\* A cache that does not answer counts as a miss.
CacheLookupFails(r) ==
    /\ req[r].pc = "get"
    /\ Fails
    /\ req' = [req EXCEPT ![r].pc = "osv", ![r].meta = EmptyMetadata]
    /\ UNCHANGED <<known, generation, cache>>

\* The audit of the lookup fails: so does the request.
AuditFails(r) ==
    /\ req[r].pc \in {"osv", "evaluate"}
    /\ Fails
    /\ req' = [req EXCEPT ![r] = NoRequest]
    /\ UNCHANGED <<known, generation, cache>>

QueryOSV(r) ==
    /\ req[r].pc = "osv"
    /\ req' = [req EXCEPT ![r].pc = "npm",
                          ![r].meta = mergeMetadata(@, OSVAnswer(req[r].artifact, known))]
    /\ UNCHANGED <<known, generation, cache, outages>>

fetchPackageMetadata(r) ==
    LET npm == NPMAnswer(req[r].artifact) IN
    /\ req[r].pc = "npm"
    /\ req' = [req EXCEPT ![r].pc = IF npm.repo # None THEN "scorecard" ELSE "store",
                          ![r].meta = mergeMetadata(@, npm)]
    /\ UNCHANGED <<known, generation, cache, outages>>

enrichSourceRepository(r) ==
    /\ req[r].pc = "scorecard"
    /\ req' = [req EXCEPT ![r].pc = "store", ![r].meta.scorecard = Lookup]
    /\ UNCHANGED <<known, generation, cache, outages>>

\* Mutant: defaults that please every policy stand in for a source that fails.
BugSourceFails(r) ==
    LET s == req[r].pc IN
    /\ s \in Sources
    /\ Fails
    /\ req' = [req EXCEPT ![r].pc = CASE s = "osv" -> "npm" [] OTHER -> "store",
                          ![r].failed = @ \cup {s},
                          ![r].meta.licenses = {"mit"},
                          ![r].meta.scorecard = [score |-> 10, checks |-> <<>>]]
    /\ UNCHANGED <<known, generation, cache>>

\* Mutant: an unknown publication date is now.
BugSourceFailsNow(r) ==
    LET s == req[r].pc IN
    /\ s \in Sources
    /\ Fails
    /\ req' = [req EXCEPT ![r].pc = CASE s = "osv" -> "npm" [] OTHER -> "store",
                          ![r].failed = @ \cup {s},
                          ![r].meta.age = IF s = "npm" THEN 0 ELSE @]
    /\ UNCHANGED <<known, generation, cache>>

\* Composite: a source that fails is left out.  Of Scorecard's failure a
\* result without a score remains.
SourceFails(r) ==
    LET s == req[r].pc IN
    /\ s \in Sources
    /\ Fails
    /\ req' = [req EXCEPT ![r].pc = CASE s = "osv" -> "npm" [] OTHER -> "store",
                          ![r].failed = @ \cup {s},
                          ![r].meta.scorecard = IF s = "scorecard" THEN ScorecardUnavailable
                                                ELSE @]
    /\ UNCHANGED <<known, generation, cache>>

\* Set looks the generation up again.
ReadGenerationForSet(r) ==
    /\ req[r].pc = "store"
    /\ req' = [req EXCEPT ![r].pc = "set", ![r].generation = generation]
    /\ UNCHANGED <<known, generation, cache, outages>>

storeCachedMetadata(r) ==
    /\ req[r].pc = "set"
    /\ cache' = [cache EXCEPT ![req[r].generation][req[r].artifact] =
                    [meta |-> req[r].meta, failed |-> req[r].failed]]
    /\ req' = [req EXCEPT ![r].pc = "evaluate"]
    /\ UNCHANGED <<known, generation, outages>>

StoreFails(r) ==
    /\ req[r].pc \in {"store", "set"}
    /\ Fails
    /\ req' = [req EXCEPT ![r].pc = "evaluate"]
    /\ UNCHANGED <<known, generation, cache>>

\* A request for a tag is marked; what had no metadata has some then.
applyMutableTagMetadata(a, meta) ==
    IF ~a.tag THEN meta
    ELSE [(IF meta = None THEN EmptyMetadata ELSE meta) EXCEPT !.isMutableTag = TRUE]

Evaluate(r) ==
    /\ req[r].pc = "evaluate"
    /\ req' = [req EXCEPT ![r] = NoRequest]
    /\ UNCHANGED <<known, generation, cache, outages>>

\* No metadata is None.
ASSUME NoneAssumption ==
    \A a \in Artifacts, V \in SUBSET Vulns, F \in SUBSET Sources :
        Gathered(a, V, F) # None /\ applyMutableTagMetadata(a, Gathered(a, V, F)) # None

-----------------------------------------------------------------------------
(* Environment.                                                            *)

Disclose(v) ==
    /\ v \notin known
    /\ known' = known \cup {v}
    /\ UNCHANGED <<generation, cache, req, outages>>

\* InvalidateTenant of the metadata cache.
ClearTenantMetadata ==
    /\ generation < MaxGeneration
    /\ generation' = generation + 1
    /\ UNCHANGED <<known, cache, req, outages>>

\* Mutant: written without a lifetime.
BugExpire(g, a) == FALSE /\ UNCHANGED vars

\* cacheTTL: an hour, a day for a digest.
Expire(g, a) ==
    /\ cache[g][a] # None
    /\ cache' = [cache EXCEPT ![g][a] = None]
    /\ UNCHANGED <<known, generation, req, outages>>

-----------------------------------------------------------------------------
Init ==
    /\ known = {}
    /\ generation = 0
    /\ cache = [g \in 0..MaxGeneration |-> [a \in Artifacts |-> None]]
    /\ req = [r \in Requests |-> NoRequest]
    /\ outages = 0

\* The steps a request that was begun makes when nothing fails.
Progress(r) ==
    \/ lookupCachedMetadata(r)
    \/ QueryOSV(r)
    \/ fetchPackageMetadata(r)
    \/ enrichSourceRepository(r)
    \/ ReadGenerationForSet(r)
    \/ storeCachedMetadata(r)
    \/ Evaluate(r)

Failure(r) ==
    \/ CacheLookupFails(r)
    \/ AuditFails(r)
    \/ SourceFails(r)
    \/ StoreFails(r)

Next ==
    \/ \E r \in Requests, a \in Artifacts : currentCacheGeneration(r, a)
    \/ \E r \in Requests : Progress(r) \/ Failure(r)
    \/ \E v \in Vulns : Disclose(v)
    \/ ClearTenantMetadata
    \/ \E g \in 0..MaxGeneration, a \in Artifacts : Expire(g, a)

\* Every call of a request has a timeout, every entry a lifetime.
Fairness ==
    /\ \A r \in Requests : WF_vars(Progress(r))
    /\ \A g \in 0..MaxGeneration, a \in Artifacts : WF_vars(Expire(g, a))

Spec == Init /\ [][Next]_vars /\ Fairness

-----------------------------------------------------------------------------
(* Properties.                                                             *)

Seen(r) == applyMutableTagMetadata(req[r].artifact, req[r].meta)

\* The registry has the package; its document lists the version.
Published(a) == a.ecosystem = "npm" /\ Registry[a] # None
Listed(a) == Published(a) /\ Registry[a].listed

\* Reference, without a merge: every field as the one source that speaks of it
\* has it, while OSV knows V.
Answers(a, V) ==
    [age |-> IF Published(a) THEN Registry[a].age ELSE None,
     maxCVSS |-> OSVAnswer(a, V).maxCVSS,
     vulnerabilities |-> OSVAnswer(a, V).vulnerabilities,
     licenses |-> IF Listed(a) THEN Registry[a].licenses ELSE {},
     repo |-> IF Listed(a) THEN resolveSourceRepository(Registry[a]) ELSE None,
     scorecard |-> CASE ~Listed(a) -> None
                     [] Listed(a) /\ resolveSourceRepository(Registry[a]) = None -> ScorecardUnavailable
                     [] OTHER -> Lookup,
     isMutableTag |-> FALSE]

\* What all sources together would say now.
FullMetadata(a) == Answers(a, known)

\* The request as a condition sees it.
Judged(a, meta) == [artifact |-> a, metadata |-> meta, context |-> None]

PCs == {"idle", "get", "store", "set", "evaluate"} \cup Sources

\* Requests and cache entries have their fields; what is under way has an
\* artifact.
TypeOK ==
    /\ known \subseteq Vulns
    /\ generation \in 0..MaxGeneration /\ outages \in 0..MaxOutages
    /\ DOMAIN cache = 0..MaxGeneration
    /\ \A g \in 0..MaxGeneration : DOMAIN cache[g] = Artifacts
    /\ \A g \in 0..MaxGeneration, a \in Artifacts :
         cache[g][a] # None => cache[g][a].failed \subseteq Sources
    /\ DOMAIN req = Requests
    /\ \A r \in Requests :
         /\ DOMAIN req[r] = DOMAIN NoRequest
         /\ req[r].pc \in PCs /\ req[r].generation \in 0..MaxGeneration
         /\ req[r].pc # "idle" => req[r].artifact \in Artifacts
         /\ req[r].failed \subseteq Sources

\* Missing data never makes an age, vulnerability or license rule deny: what
\* such a rule says of the metadata at hand it also says of everything the
\* sources know.
OutageNeverDenies ==
    \A r \in Requests : req[r].pc = "evaluate" =>
        \A p \in SkipRules :
            Matches(Judged(req[r].artifact, Seen(r)), p) =>
                Matches(Judged(req[r].artifact,
                               applyMutableTagMetadata(req[r].artifact,
                                                       FullMetadata(req[r].artifact))), p)

\* The licence and Scorecard rules that deny without data deny an npm artifact
\* for which the npm registry did not answer, also when the metadata of the
\* outage comes from the cache.
OutageFailsClosed ==
    \A r \in Requests :
        req[r].pc = "evaluate" /\ req[r].artifact.ecosystem = "npm" /\ "npm" \in req[r].failed =>
            \A p \in StrictRules : Matches(Judged(req[r].artifact, Seen(r)), p)

\* When every source answered, no answer is lost or overwritten on the way
\* through the merges and the cache: date, licences, repository and Scorecard
\* result are the registry's and Scorecard's own, the vulnerabilities are those
\* OSV knew at some time, and no score of theirs is above the highest reported.
AnswersKept ==
    \A r \in Requests :
        req[r].pc = "evaluate" /\ req[r].failed = {} =>
            \E V \in SUBSET known :
                /\ req[r].meta = Answers(req[r].artifact, V)
                /\ req[r].artifact.ecosystem # "oci" =>
                     \A v \in V : \A score \in v.scores \ {0} :
                         req[r].meta.maxCVSS # None /\ score <= req[r].meta.maxCVSS

\* What was cached during an outage, or before a disclosure, goes: from some
\* time on the cache holds what the sources say.
PartialMetadataRecovers ==
    <>[](\A a \in Artifacts : cache[generation][a] # None =>
            cache[generation][a].meta = FullMetadata(a))
=============================================================================
