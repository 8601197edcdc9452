# TLA+ models of the dependency firewall

The dependency firewall is a multi-tenant proxy in front of package registries
(OCI and npm).  A control plane keeps tenants, upstreams and policies in
PostgreSQL; proxies evaluate every request against the tenant's policies,
cache decisions in Valkey and artifacts on disk; workers resolve npm dependency
graphs in the background.  This directory holds TLA+ models of the parts that
carry the program's own logic, the TLC runs that check them on small instances,
and TLAPS proofs for every value of the constants.

`PROJECT.json` lists components, runs, mutants, the lines every definition
models, findings, hazards and theorems.  Paths below are relative to
`src/internal`.

## The system

| Component | State | Operations | Hard part | Correct when |
|---|---|---|---|---|
| Access pipeline, `core/service/proxy*.go` | one goroutine per request | `Evaluate`: normalize, resolve tag, load policies, dependency context, cache lookup, enrich, evaluate, cache, record | every stage calls another process and may be overtaken | an allow is the verdict of a valid policy set on this artifact in this context |
| Decision cache, `infra/valkey/decision.go` | entries keyed by tenant generation, context hash, artifact; a generation counter | `Get`, `Set`, `InvalidateTenant` | generation and entry are two commands | invalidated entries are not served |
| Bundle cache, `core/service/bundle.go` | policies of a tenant with fetch time | `GetTenantBundle` with last-known-good | slow refresh overwrites a newer one | staleness is bounded |
| Blob gate, `delivery/oci/handler.go`, `infra/postgres/decision.go` | decisions table | `Record`, `HasRecentAllow` | blobs are not evaluated | opens only after an allow |
| Evaluator and conditions, `core/policy` | none | `Evaluate`, ten condition types | deny overrides, warnings, errors, targets, missing metadata | the rules of `docs/policy-engine.md` |
| Dependency-graph queue, worker, notifier, `infra/postgres/dependency_graph.go`, `core/service/dependency_graph_*.go` | one row per root; slots, watch channels | enqueue, claim, complete, fail, retry, wake up, shut down | several workers, crashes, lost answers | one resolver per root, complete is final, nothing starves |
| OCI disk cache, `infra/ocicache/disk.go`, `infra/upstream/cached_oci.go` | files | `Get`, `StartWrite`, `Commit`, `Abort`, eviction | no lock on the directory | never serves a partial body, respects limits |
| Policy store, upstreams, `core/service/{policy,upstream}.go`, `infra/postgres/{policy*,upstream}.go`, `delivery/api` | policies, retained versions, revisions, upstreams | create, update, delete, import, rollback; revision and invalidation after each | check and write in two transactions, calls after the commit, pruning | versions can be rolled back to, every commit is recorded and invalidated, scoped policies fit their upstream |
| Dependency context, lock-file graph, install snapshots, `core/service/{dependency_context,install_snapshot}.go`, `infra/npmgraph` | graphs, context summaries, a Valkey cache | parse a lock file, store a graph, look a context up, infer the roots of an install | merging evidence of several graphs, reads in several queries, lookups that fail | a context follows from the graphs alone, and stale ones go |
| Enrichment, `core/service/enrichment.go`, `infra/{enrichment,osv,npm,scorecard}` | metadata cache with generations | lookup, query of each source, merge, store | a source fails and the rest is cached | an outage neither opens a strict rule nor closes a lenient one |
| Upstream credentials, `infra/{secrets,upstream}`, `delivery/bundlegrpc`, `infra/controlplanegrpc` | encrypted rows, sealed bundles, tokens | store, re-encrypt for a proxy, present, exchange for a token | bundles made of two queries, updates on the way, a bounded cache | a secret reaches only hosts an administrator or the registry named |
| Protocol handlers, routing, audit, `delivery/{npm,oci,proxyflow,middleware}` | links held by clients | metadata, tarball, manifest, blob | tags and upstreams move between verdict and fetch | what is installed was judged, and is on record |
| Tenants, configuration, bootstrap, health, telemetry, UI | | | no state machine of their own | |

They interact as follows.  A handler calls `AccessService.Evaluate`, which reads
policies through the bundle cache (filled from the control plane over gRPC),
asks the dependency context service (which may enqueue a root), reads and
writes Valkey, and records decisions and audit events through the ingest API.
A policy mutation commits in PostgreSQL and then bumps the tenant's cache
generation; proxies learn of the new policies only when their bundle entry is
refreshed.  Workers claim roots and report graphs through the ingest API and
are woken up by a notifier in the control plane.  The OCI handler fetches
through the disk cache after an allow, with credentials that the control plane
re-encrypted for the proxy's key.

## Modules

| Module | Models |
|---|---|
| `AccessPipeline` | `AccessService.Evaluate`, the decision cache, the bundle cache, the blob gate and the control plane's mutations, for one tenant |
| `PolicyConditions` | the condition types, order and target selection, as operators |
| `PolicyRules` | the documented evaluation rules, without a loop |
| `PolicyVerdict` | abstract specification: one step from request and policies to the verdict |
| `PolicyEngine` | the evaluator's loop, which refines `PolicyVerdict` |
| `DependencyGraphQueue` | queue, workers, notifier |
| `OCIDiskCache` | disk cache and caching client, one tenant/upstream scope |
| `PolicyCatalog` | the policy types: configurations they accept, upstreams they fit, as operators |
| `PolicyStore` | the control plane's management of policies and upstreams of one tenant |
| `SecretEnvelopes` | the two envelopes of a secret, as operators over ideal ciphers |
| `UpstreamCredentials` | credentials from the row to the registry, and the token cache |
| `NPMLockfile` | nodes and edges of a lock file, as operators |
| `DependencyContext` | graph resolution, dependency contexts, install snapshots, readers of graphs |
| `Enrichment` | metadata cache and sources, judged by `PolicyConditions` |
| `ProxyHandlers` | routing, npm and OCI handlers, required audit events, link rewriting |
| `MC*` | constants, symmetry and instances for TLC |
| `*_proofs` | theorems and proofs of the module they are named after; `PolicyEvaluation_proofs` those of `PolicyEngine` and `Enrichment` |

### AccessPipeline

`req[r]` is the goroutine of request `r`; `pc` names the stage it will do next.
A stage ends where the code calls another process, so the interleavings of the
model are those between external calls.  `history` is the sequence of policy
sets the tenant had; a bundle, a request's snapshot and a decision carry an
index into it, which stands for the policy hash.  `cache` holds entries of the
decision cache with the generation they are filed under; `DecisionKey` is what
the code makes of an entry.  `bundle` is the proxy's cached bundle.
`recentAllow` is the decision that `HasRecentAllow` finds: the last recorded OCI
allow, unless its hour has passed.  `Allows` evaluates such a decision again from
its artifact, context and policy version, so `BlobGateJustified` compares what the
gate rests on with the evaluator and not with the step that recorded it.
`covered` is a history variable: the newest policy version at the start of each
generation.

Evaluation is reduced to three kinds of policy that are enough to tell apart
what the pipeline does (a tag rule, a metadata rule, a name rule with an
optional dependency target); `PolicyEngine` has the real ones.  A policy set
can be invalid: `preparePolicySet` expects that (the stored configuration is
decoded and validated again on the proxy, which may run another version than
the control plane that accepted it), and `finalizeTenantMutation` validates
after the commit.  Every external call may fail (`Fault`); a lost audit event
ends the request in fail-closed mode.

Time is abstracted: a bundle may pass its refresh interval, a decision its TTL
and a recorded allow its hour at any moment.  One package and one repository
stand for all names, because every key starts with tenant and name.

### PolicyConditions, PolicyRules, PolicyVerdict, PolicyEngine

Conditions are operators on a request and a configuration.  Scores and ages
are integers, names of Scorecard checks are numbered in their sort order.
`PolicyRules.VerdictOn` says in sets what an evaluation must give: any denier
denies, the first denier in order supplies the reason, everything that matched
is recorded.  `PolicyEngine` is the loop with `evaluationState`, one action per
way `evaluatePolicy` can end.  `VerdictRefined` states that the loop implements
the one-step specification; both TLC and TLAPS check it.

### DependencyGraphQueue

`status` is the column of the row of a root.  `ready` and `older` replace
`updated_at`: the rows whose time has come, and for each the ready rows with an
earlier time.  A claim is two steps, the locking select and the commit.
`tasks` and `calls` are the worker's goroutines (running npm, waiting for the
report), told apart by a number so that slots are counted by goroutine and not by
root; `wire` has the reports on their way to the database.  A report outlives
its sender: a crash or a broken connection after sending does not stop it.
`ProcessEnds` is the end of a worker process at any point of its loop, a claim in
flight included; `Shutdown` (SIGTERM) and `Crash` are both that, because nothing
cancels the context of `Run` and nothing waits for it (`bootstrap/modes.go:369`,
`bootstrap/servers.go:27`).  `signal` is the one-slot channel of a watch, `toNotify`
the window between the insert and `Notify`.  `backlog` is a history variable for
`NoLostWakeup`: rows may be ready that no signal will announce, because a claim gave
one back or a pass ended early.  The deletion of an upstream, which takes rows out
of the queue, is modelled in `DependencyContext` only.

### OCIDiskCache

Each file-system call of `Get`, `Commit` and `enforceLimits` is a step.  `data`
and `meta` are the two files of a digest.  `time` is the modification time; all
bodies have one size.  Which files are over `max_age` is chosen by the step
that reads the file information.  `skipped` and `deleted` are history
variables.

### PolicyCatalog, PolicyStore

`op[a]` is the request an administrator's call executes: the check, the
transaction that writes, then the three calls of `finalizeTenantMutation` (list,
number and record a revision, invalidate), each a step.  A transaction is one
step because it holds the row lock of its policy.  `stale` says that something
committed since the last invalidation; `unfinished` and `overlapped` are history
variables.  `CallFails` is a failing database or Valkey call, `Abandon` the
client that goes away (`request_cancellation.go`): what was committed stays.
Definitions are validated by the operators of `PolicyCatalog`, a translation of
the catalog, of the configuration types and of the target rules; a definition
that does not validate is in the instance, and no state holds it.

### SecretEnvelopes, UpstreamCredentials

A worker is a goroutine that executes one OCI request of a proxy: it refreshes
the bundle (authorization, the listing of upstreams, the second query that
re-encrypts the secret, an answer that may be lost, the store in the bundle
cache), sends its request, meets a challenge, asks for a token at the realm the
challenge names, retries.  `UpdateUpstream` has both forms of an update: with auth,
which replaces host and secret, and without, which moves the host and keeps the
secret.  `stored`, `named` and `sent` are history variables: the pairs of host and
secret the row ever held, the realms a registry named, and who was ever shown which
secret.  `raced` records that the row changed between the two queries of a bundle:
then the code really can pair the old host with the new secret, so
`SecretsStayWithTheirHost` is stated for the rest.  Ciphers are ideal; which suite a key kind gets, and that
the wrong kind or key does not open, is translated.

### NPMLockfile, DependencyContext

A lock path is the sequence of names between its `node_modules` segments.  The
search of `computeDepths` is one step per queue entry, with the children in any
order and entries without a depth passed over, and is compared with the length of a
shortest path.  Summaries are a
function of the stored graphs, since `CompleteResolve` writes both in one
transaction; `LookupContext` merges them in any order of the rows.  The queue of
`DependencyGraphQueue` is reduced to the status of a root here.  `DeleteUpstream`
takes roots, nodes, edges and summaries away at any time
(`migrations/000019_add_npm_dependency_graphs.up.sql:16,34,50,59`, ON DELETE CASCADE),
between the queries of `GetSnapshot` too; a report that finds no row changes nothing.
`reader.was` is history: the graph when its status was read.  The snapshot
looks manifests up concurrently, under a semaphore and a context that may expire.

### Enrichment

`req[r]` walks through the calls of `EnrichWithCorrelation`; `failed` is history:
the sources that did not answer.  The properties compare with `Answers`, which says
field by field whose answer belongs there and uses neither the merge nor the
enrichers.  A version that the registry's document does not list gets a date only
(`infra/npm/enricher.go:158`); the instance has no such version, the proofs cover it.  OSV learns of vulnerabilities at any time.  The
rules of the properties are in two classes: those that skip what they have no
data for, and those configured to deny without data.  Since the composite
enricher is the only one the program wires up, metadata is never nil here; the
fail-open branch of `EnrichmentService` is thus never reached and has no action.

### ProxyHandlers

`request[c]` is the current or last request of a client, `links[c]` the tarball
links it holds, `tag[u][n]` what the tag of a name stands for in a registry.  The
evaluation of `AccessPipeline` is one step.  `config` is the control plane's state,
`bundle` what the proxy knows; the upstream is looked up again in the bundle of the
moment, as the handlers do.  A request keeps the name and reference it was made
with; the decision is on the lower-cased name and the resolved version, and the
fetch uses whichever of the two the handler uses: the requested ones for npm
metadata, tarballs and blobs, the judged ones for manifests.  Tarballs are asked for
directly, by any reference and on any route (`RouteTarball`), or by a link
(`FollowLink`).  A document that is not declared to be JSON keeps the registry's links,
and following one leads past the proxy; `from.json` remembers it.  Assumed:
base URLs have no path, and the links of a document are of the package it was
fetched for.  Unknown tenants and malformed paths are answered with an error and
left out.

## Runs

| Run | Checks | Instance |
|---|---|---|
| `MCAccessRaces` | `InvalidSetNeverAllows`, `HitRespectsInvalidation`, `StaleDecisionsDisappear` | two requests for an npm version, the empty set and a set with a broken policy, one change, one invalidation, one fault, fairness |
| `MCAccessFaults` | `AllowJustified`, `BlobGateJustified` | one request at a time for an OCI tag or digest or an npm tag or version; a tag rule with a rule on direct dependencies, a score rule, a denying set with a broken policy; one change, one fault |
| `MCAccessStale` | `NoStaleHit`, violated | two requests for a digest, one change |
| `MCPolicyEngine` | `WorseIsDeniedToo`, `VerdictRefined` | all sets of at most three of twelve policies, fifteen requests |
| `MCQueueSafety` | `SlotsRespected`, `OneResolver`, `OrphansBounded`, `NoLostWakeup`, `CompleteIsFinal` | two roots of two tenants, a scoped and an unscoped worker with two slots each, one fault |
| `MCQueueLive` | `QueuedJobClaimed` | the same with one slot each, a SIGTERM and no faults, fairness |
| `MCDiskCache` | `ServedWhole`, `CommitsLeaveNoDeadEntry`, `OvershootBounded` | two fetches, three digests, limit one, four completed bodies, one crash, one failed call |
| `MCPolicyStore` | `HistoryIntact`, `CommitsInvalidated`, `SuccessIsRecorded`, `FitUnlessOverlapped`, `VersionsImmutable`, `EnabledDeletedOnlyByRace` | two administrators, two policies, two upstreams, four definitions and an import, two retained versions, three requests, one failing call |
| `MCUpstreamCredentials` | `SecretsStayWithTheirHost`, `BundleForItsProxy`, `TokensKeptApart`, `TokenCacheBounded`, `LiveTokensKept` | an authorized and another proxy with keys of two kinds, two workers, three configurations on two hosts, one realm besides the registries, two repositories, one update with or without auth, a cache of two tokens |
| `MCDependencyContext` | `TypeOK`, `DepthsShortest`, `RowOrderIrrelevant`, `SnapshotNeverFansOut`, `CompleteGraphsReadWhole`, `StaleContextsDisappear` | three packages that are roots and dependencies of each other, alternative and unreadable lock files, two concurrent lookups, a deletion of the upstream, fairness |
| `MCEnrichment` | `OutageNeverDenies`, `OutageFailsClosed`, `AnswersKept`, `PartialMetadataRecovers` | two requests, an npm version and an image tag, one vulnerability, eight rules, one outage, one reset of the cache, fairness |
| `MCProxyHandlers` | `ObtainedWasJudged`, `LinksKeepRoute`, `ServedIsOnRecord` | one client, two tenants, three upstreams, a name in two spellings, two versions and a tag, two routes, JSON and other documents, one change, one tag move, one failing call |

Why the bounds are enough.  The races of the pipeline are between a reader, a
writer and one invalidation; two requests, two policy versions and two
generations contain all of them, and a second request can begin after the
first has ended (requests are reused), so sequences are long although only two
overlap.  Two requests also have two bundle refreshes, the older of which may store
its answer last.  What is admitted to the blob gate depends on one request at a
time, so `MCAccessFaults` spends its states on kinds of artifacts and rules instead.  The queue needs two claimers and two rows for every conflict and
order, and two slots for a process that ends with two resolutions; one fault is
enough because each property fails after a single one when it fails.  In the disk cache two sessions and three digests let one pass evict
what another lists, and four bodies let a digest be evicted and written again.
In the policy store three requests are enough for a third version to prune the
first, for a rollback after an update, and for a delete overlapping both.  The
credentials need one update between any two queries of two workers and one key
more than the token cache holds.  A graph of three packages has a package that is
a root, a child at two depths and a nested copy.  In the enrichment one outage
leaves a partial entry that a second request can read.  One client is enough for
the handlers because requests share only bundle, registries and the recorded
allow, which the other actions change at any time; one change makes another
upstream the tenant's most recent one, or takes the pinned one away, while a link is
held (the proofs are for any number of changes).  The mutants (one per
property, `PROJECT.json`) show that each instance is large enough for its
properties to fail.  All but the liveness properties are also proved without bounds, see below.

Deadlock is checked except where everything may end: an evaluation
(`MCPolicyEngine`), and the bounded calls and changes of `MCPolicyStore` and
`MCProxyHandlers`.

### Fairness

`MCAccessRaces`: weak fairness for the steps of accepted requests (goroutines are
scheduled, calls have timeouts), for an administrator's pending invalidation,
for TTLs and for the refresh interval.  Nothing is assumed of clients.
`MCQueueLive`: weak fairness for the poll ticker, the claim pass, npm (it has a
timeout), the report, the database, the passing of retry times and the restart
of a worker whose process has ended.  Nothing is assumed of wake-up signals or of
the result of npm.  A queued root is claimed again even so; a root that was being
resolved when a process ended is not queued any more, stays resolving
(`docs/async-npm-dependency-graph.md` says so) and is counted by `OrphansBounded`.
`MCDependencyContext`: a lookup that has begun goes on (database and Valkey calls
return or fail), and Valkey expires entries (30 minutes).  Nothing is assumed of
workers, npm or new requests.
`MCEnrichment`: the calls of a request return (HTTP clients have timeouts), and
entries expire (an hour, a day for a digest).  The number of outages and resets
is finite; nothing is assumed of when they happen.

## Findings

`MCAccessStale`: a decision evaluated under the old policies is filed under the
new generation, because `Set` reads the generation when it writes.  Later
requests are served from it until its TTL passes.  `StaleDecisionsDisappear`
shows that it is not for ever.

### Divergences without a run

Met while modelling; the models have what the code does.

- A tag and the digest it resolves to share a cached decision
  (`core/domain/normalize.go:94`), so an earlier pull by digest lets a tag through
  that `block_mutable_tag` lists (`core/policy/condition/mutabletag.go:9`: "matches
  when the artifact uses a mutable tag that is in the blocked list").
- `firstDenyPolicyID` (`core/policy/evaluator.go:157`) takes the first deny reason of
  the list, warnings included: a dry-run deny policy that comes first takes the
  `policy_id` of a denial it did not cause.
- Overlapping evictions make each other fail (`infra/ocicache/disk.go:344`) and leave
  a scope above its limits, where `docs/persistence.md:80` says limits are enforced
  after completion; `OvershootBounded` says by how much.
- `core/domain/dependency_graph.go:26` calls "the root itself and depth-1 packages"
  direct; `infra/postgres/dependency_graph.go:500` only the root.
- `core/service/enrichment.go:51` speaks of nil metadata on failure and
  license rules have a behaviour for unavailable metadata
  (`docs/policy-engine.md:209`); `CompositeEnricher` returns empty metadata instead
  (`infra/enrichment/composite.go:29`), so an outage is judged by the behaviour for
  unlicensed artifacts.  With "deny" for both, `OutageFailsClosed` holds.
- The check of an upstream update against scoped policies and the check of a
  policy against its upstream are not in the transactions that write
  (`core/service/upstream.go:92`; `docs/policy-engine.md:257`: "Upstream updates
  cannot remove a capability still required by a scoped policy").
  `FitUnlessOverlapped` shows that an overlap is the only way to break the fit.
- An update that leaves `auth` out keeps the stored credentials
  (`infra/postgres/upstream.go:255`), also when it changes the base URL, so the new
  host is shown the old host's secret, and when it turns an OCI upstream into an npm
  one, for which `docs/supported-ecosystems.md:9` says authentication is not
  implemented.
- Basic credentials go to whatever realm the registry's challenge names
  (`infra/upstream/oci_bearer.go:95`), on any host.
- `DependencyGraphWorker.Run` waits for its goroutines when its context is
  cancelled (`core/service/dependency_graph_worker.go`), but `main` passes a context
  that never is, the runner has no shutdown function (`bootstrap/modes.go:369`), and
  `serve` does not wait for it: SIGTERM leaves the rows of running resolutions, and of
  a claim in flight, resolving like a crash does.
- A tarball asked for by dist-tag (`name-latest.tgz`) is judged and recorded as the
  version the tag stands for, and fetched as the file named after the tag
  (`delivery/npm/handler.go:318,363`); a registry without such a file answers 404.
- Names are lower-cased for the verdict and the record (`core/domain/normalize.go:48`),
  not for the fetch: packages whose names differ in letter case only share a verdict.
  `ObtainedWasJudged` and `ServedIsOnRecord` are therefore up to letter case.
- Metadata that is not declared to be JSON is passed on with the registry's own
  tarball links (`delivery/npm/handler.go:271`), which lead past the proxy.
- `GetSnapshot` reads in three queries outside a transaction
  (`infra/postgres/dependency_graph.go:70`): when the upstream is deleted in between, a
  graph is reported complete without edges, or without nodes and edges.
- Rewritten tarball links keep the path of the registry's own link
  (`delivery/npm/metadata.go`, `tarballPath`), which assumes a registry at the root
  of its host.

## Proofs

`AccessPipeline_proofs`, from `ConstantsAssumption` only, for any sets of
requests, administrators, references and policies.  `IInv` strengthens
`TypeOK` with: what a request knows at each stage (`RequestInv`: a snapshot once
loaded, a validated set once past `preparePolicySet`, a sound decision once
decided, a generation no older than its arrival); that every cached decision is
sound (`DecisionSound`: the evaluator, under a valid set and with some metadata,
gives this outcome on this artifact in this context); that a bundle is no newer than
the policies; and that the decision behind the gate is a sound allow of an OCI
artifact.  The properties are not inductive by themselves because a hit copies a
decision another request wrote long before: the cache has to be known to hold
sound decisions only.
Theorems: `Invariance`, `TypeCorrect`, `InvalidSetsDeny`, `AllowsAreJustified`,
`HitsRespectInvalidation`, `BlobGateIsJustified`.

`DependencyGraphQueue_proofs`, from `QueueAssumption`: the invariant adds that a
locked row is ready and locked once (`LockInv`) and that ready rows are
claimable (`ReadyInv`): so a row that is being claimed has no resolver yet.
Theorems: `QueueInvariance`, `QueueTypeCorrect`, `ResolutionIsExclusive`,
`OrphansAreBounded`, `CompletionIsFinal` (an action property, which needs
`OneResolver`: the reports are not guarded by the status).

`OrphansAreBounded` is a counting argument: `Losses` counts the faults and the ended
processes; every step either adds no orphan, or adds one loss and at most as many
orphans as a worker has slots (`LosesNone`, `LosesSome`), which `SlotsAreRespected`
bounds together with the claim in flight.  `SlotsAreRespected` follows a slot from the claim that needs it to the end of the
report; `WakeUpsAreNotLost` rests on `WakeInv`: a worker that waits without a signal
has no pending row in its scope but those whose notification is still to come,
through crashes and failed calls, unless a row was given back since (`backlog`).

`PolicyEvaluation_proofs`, on `PolicyEngine`, from `EngineAssumption` (finite sets of policies with
unique names): the loop invariant says that processed policies precede the
remaining ones, that `hasDeny` and `firstDenyReason` describe the deniers among
the processed, and that `reasons` lists the processed policies that said
something, the first of them first.  `WorseReleasesAreDenied` adds
`ScoreAssumption` (scores are numbers) and the monotonicity of every condition in
the vulnerabilities.  Theorems: `LoopInvariance`, `EngineTypeCorrect`,
`EngineImplementsRules`, `WorseReleasesAreDenied`.

`OCIDiskCache_proofs`: `DiskInv` follows a body from the temporary file to its final
name (a file under its final name is never partial, `WholeInv`) and names the
commit that still owes an entry its metadata (`DeadInv`).  Theorems, from
`DiskAssumption`: `DiskInvariance`, `DiskTypeCorrect`, `OnlyWholeBodiesServed`,
`CommitsCompleteEntries`, `OvershootIsBounded`.  The last one is a counting
argument.  Of what a pass listed it leaves at most `MaxEntries` (`SparedFew`); what
came after the latest listing of all belongs to commits whose own listing is still
to come, or that ended with an error.  Which pass listed last is not in the state,
and a pass may fail after a later one has completed, so `OvershootInv` says that
*some* numbering of the listings accounts for every entry (`Accounts`): entries
beyond the limit are covered by the passes numbered after the latest complete one,
and each pass under way has the same account for the case that it completes.  An
entry between its two renames may still be taken back and is not counted
(`Settled`).  No finiteness of the sets of digests or fetches is assumed.

`PolicyStore_proofs`, from the assumptions on ids, documents and bounds, has three
inductions.  `StoreInv`: rows, versions and the shape of requests at each stage;
`RecordInv`: whatever was committed since the last invalidation, or is not in a
revision, is owed by a request that has not ended; `ScopeInv`: while no two checks
overlapped, a definition that is about to be written still fits.  Theorems:
`StoreInvariance`, `StoreTypeCorrect`, `VersionHistory`,
`VersionNumbersKeepTheirMeaning`, `EnabledPolicyDeletion`, `RecordInvariance`,
`CommitsAreInvalidated`, `SuccessfulMutationsAreRecorded`, `ScopeInvariance`,
`ScopedPoliciesKeepFitting`.

`UpstreamCredentials_proofs`, from `CredentialsAssumption`: `CredentialsInv` says what is
held in every place a secret passes through, that the row's present pair of host
and secret is among those it ever held (`RowInv`, also after an update that keeps the
secret), that a token is only asked for at a realm that was named (`Shown`), and
that a cached token is filed under the registry, repository and principal it was
issued for; `RoundTrip` shows that an envelope for a proxy's key opens with it.  Theorems:
`CredentialsInvariance`, `CredentialsTypeCorrect`, `SecretsReachOnlyTheirHost`,
`BundlesAreForTheirProxy`, `TokensBelongToTheirRequest`, `TokenCacheStaysBounded`,
`LiveTokensAreKept` (an action property).

`PolicyEvaluation_proofs`, on `Enrichment`, from `EnrichmentAssumption` (scores
between 0 and 10, the two classes of rules) and `NoneAssumption`: `EnrichmentInv` names, for every stage of a
request and for every cache entry, the metadata that are possible there: what the
sources that answered say, with the vulnerabilities OSV knew at some time.  That the
merged parts are `Answers`, which does not use the merge, is shown field by field
(`AnswersAreParts`).  On top of
it, `SkipRulesAreMonotone` is about the conditions alone: with less metadata they
match less.  Theorems: `EnrichmentInvariance`, `EnrichmentTypeCorrect`,
`AnswersAreKept`, `OutagesFailClosed`, `OutagesNeverDeny`.

`ProxyHandlers_proofs`, from `ConstantsAssumption`: the invariant says what a request
knows at each stage (its upstream belongs to its tenant and is the pinned one; its
decision is on the lower-cased name and on the reference or what the tag stood for,
`DecidedOn`; the event names the artifact of the decision; tarballs and blobs are
fetched as requested, manifests as judged) and that links of JSON documents carry
their route.  The only assumption on names is that lower-casing twice is lower-casing
once.  Theorems:
`Invariance`, `HandlersTypeCorrect`, `ObtainedIsJudged`, `RoutesAreKept`,
`ServedContentIsOnRecord`.

`DependencyContext_proofs`, from `ContextAssumption` (finite lock files over the
artifacts, a finite set of roots, `None` is no value of the model), for any packages,
lock files, snapshots and clients.  `ContextInv` has one part for each process:

- `StoreInv` and `WorkerInv`: the depths of a search under way are lengths of paths
  from the root (`DepthInv`), and whatever an entry that has left the queue leads to
  has a depth at most one greater.  When the queue is empty the depths
  are therefore the distances (`DepthsAreDistances`), cycles and nested copies
  included.  `DepthsShortest` compares them with `Within`, a recursive function over
  the number of steps; `Induction` is the induction principle on a *set* of
  numbers, which the provers can instantiate, and `WithinDef` and `WithinIsReach`
  relate the function to paths.
- `ReaderInv`: what `GetSnapshot` has loaded of a complete graph is still stored,
  because a complete graph is final until its upstream is deleted
  (`CompleteGraphsAreFinal`), and after a deletion it loads nothing more.
- `RequestInv` types the lookups.  `RowOrderIrrelevant` then follows from
  `MergeIgnoresOrder`: the merge compares scopes and unites the rest, so every
  ordering of the rows gives the same context (`Merged`).
- `SnapInv`: until a lookup fails, every package the loop has come to is looked up
  or being looked up, and nothing is enqueued before all are.

Theorems: `ContextInvariant`, `ContextTypeCorrect`, `DepthsAreShortest`,
`RowOrderNeverMatters`, `SnapshotsNeverFanOut`, `CompleteGraphsAreReadWhole`,
`CompleteGraphsAreFinal` (an action property).

Every invariant and action property of the runs is proved.  Only model-checked are
the liveness properties (`StaleDecisionsDisappear`, `QueuedJobClaimed`,
`StaleContextsDisappear`, `PartialMetadataRecovers`), which are beyond the prover, and
`NoStaleHit`, which is violated.

## Not modelled

Tenants (`core/service/tenant.go`) are rows without logic.  Configuration,
bootstrap, telemetry, health reporting and the web UI have no state that changes
with requests.  The mapping between domain types and gRPC or JSON messages
(`wire/`), SQL text, HTTP details of the upstream clients (redirects, header
parsing) and audit listings are left out: they are conversions without decisions
that the properties could tell apart.  Four known hazards have no property:
decision keys do not contain the upstream (`docs/persistence.md`), so
`AllowJustified` speaks of tenant-wide rules; a tag shares the decision of its digest
and only roots are direct (both among the divergences above); and validation writes
to configurations that concurrent requests share (`core/service/bundle.go:402`),
always the same value.

## Plan

Done: all modules above, with the runs and proofs listed.

Left, in order of value:

1. A proof that the pipeline's outcome is that of `PolicyRules` on the policies
   it loaded: `AccessPipeline` with the conditions of `PolicyConditions` in place
   of its three kinds of policy.
2. `ProxyHandlers` refined to `AccessPipeline`: the evaluation step there against
   the stages here.
