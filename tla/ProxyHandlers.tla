---------------------------- MODULE ProxyHandlers ----------------------------
(***************************************************************************)
(* The HTTP side of a proxy, for several tenants: routing a request to a   *)
(* tenant and an upstream, the npm and OCI handlers around                 *)
(* AccessService.Evaluate, the audit events they must record, the fetch    *)
(* and the rewriting of npm metadata.  Clients ask for tarballs directly,  *)
(* by version or dist-tag, or follow the links they were given, while      *)
(* registries move their tags and administrators change upstreams and      *)
(* policies.  Names are told apart by their letter case: the verdict is on *)
(* the lower-cased name.  The evaluation, detailed in AccessPipeline, is   *)
(* one step here.  A request that ends with an error response leaves       *)
(* nothing behind: its goroutine is idle again.                            *)
(***************************************************************************)
EXTENDS Integers, Sequences, FiniteSets

CONSTANTS
    Client,         \* package managers, one request at a time each
    Tenant,
    Upstream,       \* upstream ids; an id belongs to one tenant for ever
    Owner,          \* Owner[u]: that tenant
    Name,           \* package and repository names, as spelled in requests
    ToLower,        \* strings.ToLower on them
    Version,        \* npm versions and OCI digests: immutable references
    Tag,            \* the mutable reference: an npm dist-tag or an OCI tag
    None,           \* the empty string, nil pointer
    Routes,         \* how clients are configured: header, path or host, pin
    Registered,     \* Registered[t]: the upstreams of t at the start
    Denials,        \* the sets of artifacts a policy set may deny
    FailClosed,     \* audit.failure_mode = fail_closed
    MaxChanges,     \* bound on administrator changes
    MaxMoves,       \* bound on tag moves in the registries
    MaxFaults       \* bound on failed calls

Reference == Version \cup {Tag}
Artifact == [name : Name, ref : Reference \cup {None}]
Ecosystem == {"npm", "oci"}
UpstreamRecord == [id : Upstream, eco : Ecosystem, at : Int]  \* at: UpdatedAt
Document == [tenant : Tenant, up : Upstream, json : BOOLEAN]  \* npm metadata served
ContentType ==
    [media : {"application/json", "application/vnd.npm.install-v1+json", "text/plain"},
     params : BOOLEAN]

ASSUME ConstantsAssumption ==
    /\ Owner \in [Upstream -> Tenant]
    /\ None \notin Tenant \cup Upstream \cup Reference
    /\ None \notin Name \cup Artifact \cup Document
    /\ ToLower \in [Name -> Name]
    /\ \A n \in Name : ToLower[ToLower[n]] = ToLower[n]
    /\ Tag \notin Version
    /\ Version # {}
    /\ Upstream # {}
    /\ Registered \in [Tenant -> SUBSET UpstreamRecord]
    /\ \A t \in Tenant : \A x, y \in Registered[t] :
          Owner[x.id] = t /\ (x.id = y.id => x = y)
    /\ Routes \subseteq [header : Tenant \cup {None}, place : Tenant \cup {None},
                         pin : Upstream \cup {None}]
    /\ Denials \subseteq SUBSET Artifact /\ Denials # {}
    /\ FailClosed \in BOOLEAN
    /\ MaxChanges \in Nat /\ MaxMoves \in Nat /\ MaxFaults \in Nat

-----------------------------------------------------------------------------
(* Routing: middleware/tenant.go, proxyflow/request.go, the bundle adapters. *)

\* parseNPMTenantPath: the path /npm/t/{tenant}/[u/{upstream}/] replaces the
\* X-Tenant-ID header.
parseNPMTenantPath(route) == IF route.place # None THEN route.place ELSE route.header

\* OCITenantFromHost: the host names the tenant only where the header is absent.
OCITenantFromHost(route) == IF route.header # None THEN route.header ELSE route.place

TenantFromContext(eco, route) ==
    IF eco = "npm" THEN parseNPMTenantPath(route) ELSE OCITenantFromHost(route)

\* bundle.UpstreamRepository, on the tenant's bundle.
GetByID(b, id) == {x \in b.ups : x.id = id}
GetByEcosystem(b, eco) ==
    {x \in b.ups : x.eco = eco /\ \A y \in b.ups : y.eco = eco => y.at <= x.at}

\* ResolveUpstream: the pinned upstream, unless it is of another ecosystem, or
\* the tenant's most recently updated one; None is ErrUpstreamNotFound.
ResolveUpstream(b, pin, eco) ==
    LET found == IF pin # None THEN {x \in GetByID(b, pin) : x.eco = eco}
                 ELSE GetByEcosystem(b, eco)
    IN IF found = {} THEN None ELSE (CHOOSE x \in found : TRUE).id

-----------------------------------------------------------------------------
(* npm metadata, delivery/npm/metadata.go.                                 *)

\* A tarball link in a metadata document.  A link of the registry itself has
\* no tenant: the client fetches it past the proxy.  from is history: the
\* document that held the link.
Link == [tenant : Tenant \cup {None}, pin : Upstream \cup {None}, name : Name,
         version : Version, from : Document]

isJSONContentType(ct) ==
    ct.media \in {"application/json", "application/vnd.npm.install-v1+json"}

\* Mutant: the link does not pin the upstream.
BugnpmProxyBaseURL(t, u) == [tenant |-> t, pin |-> None]

npmProxyBaseURL(t, u) == [tenant |-> t, pin |-> u]

\* rewriteMetadataResponse: in a JSON document every tarball link is made to
\* point to the proxy, under the tenant and the upstream of this request, and
\* keeps its path.  Any other document is passed on as it is.
rewriteMetadataResponse(t, u, ct, name, versions) ==
    LET json == isJSONContentType(ct)
        base == IF json THEN npmProxyBaseURL(t, u) ELSE [tenant |-> None, pin |-> None]
    IN {[tenant |-> base.tenant, pin |-> base.pin, name |-> name, version |-> v,
         from |-> [tenant |-> t, up |-> u, json |-> json]] : v \in versions}

-----------------------------------------------------------------------------
VARIABLES
    config,       \* control plane: each tenant's upstreams and denials
    retired,      \* ids of deleted upstreams; ids are never used again
    bundle,       \* what the proxy's bundle provider answers
    tag,          \* tag[u][n]: the version Tag of n stands for in the registry of u
    request,      \* the client's current or last request
    links,        \* tarball links the client holds
    recentAllow,  \* tenants with an OCI manifest allowed within the hour
    changes, moves, faults

vars == <<config, retired, bundle, tag, request, links, recentAllow, changes, moves, faults>>

Configuration == [ups : SUBSET UpstreamRecord, deny : SUBSET Artifact]
Decision == [outcome : {"allow", "deny"}, art : Artifact \cup {None}]
NoDecision == [outcome |-> "deny", art |-> None]
Operation == {"packument", "manifest", "tarball", "blob"}

Request ==
    [pc : {"idle", "routed", "evaluate", "authorize", "allowedBlob", "fetch", "done"},
     eco : Ecosystem, op : Operation,
     name : Name \cup {None}, ref : Reference \cup {None},  \* as requested
     pin : Upstream \cup {None},      \* upstream of the request context
     tenant : Tenant \cup {None},     \* tenant of the request context
     up : Upstream \cup {None},       \* upstream resolved
     dec : Decision,
     recorded : Artifact \cup {None},  \* artifact of the request_allowed event
     content : Artifact \cup {None},   \* what the client received
     from : Document \cup {None}]      \* of the link followed

IdleRequest ==
    [pc |-> "idle", eco |-> "npm", op |-> "packument", name |-> None, ref |-> None,
     pin |-> None, tenant |-> None, up |-> None, dec |-> NoDecision, recorded |-> None,
     content |-> None, from |-> None]

\* The artifact as it was requested.
Requested(r) == [name |-> r.name, ref |-> r.ref]

Continue(c, r) == request' = [request EXCEPT ![c] = r]
EndRequest(c) == Continue(c, IdleRequest)

Fault(ok) ==
    \/ ok /\ UNCHANGED faults
    \/ ~ok /\ faults < MaxFaults /\ faults' = faults + 1

Administration == <<config, retired, bundle, tag, changes, moves>>

Init ==
    /\ config = [t \in Tenant |-> [ups |-> Registered[t], deny |-> {}]]
    /\ retired = {}
    /\ bundle = config
    /\ tag = [u \in Upstream |-> [n \in Name |-> CHOOSE v \in Version : TRUE]]
    /\ request = [c \in Client |-> IdleRequest]
    /\ links = [c \in Client |-> {}]
    /\ recentAllow = {}
    /\ changes = 0 /\ moves = 0 /\ faults = 0

-----------------------------------------------------------------------------
(* Arrival.                                                                *)

\* The request context after the tenant middlewares; a request without a
\* tenant is answered 401 and goes no further.
Arrive(c, route, eco, op, name, ref) ==
    /\ request[c].pc \in {"idle", "done"}
    /\ TenantFromContext(eco, route) # None
    /\ Continue(c, [IdleRequest EXCEPT
            !.pc = "routed", !.eco = eco, !.op = op, !.name = name, !.ref = ref,
            !.pin = route.pin, !.tenant = TenantFromContext(eco, route)])
    /\ UNCHANGED <<Administration, links, recentAllow, faults>>

\* GET /npm/{package}[/{version or dist-tag}]; parsePackagePath.
RouteNPM(c, route, name, ref) ==
    Arrive(c, route, "npm", IF ref = None THEN "packument" ELSE "manifest", name, ref)

\* GET /npm/{package}/-/{package}-{x}.tgz; parseTarballPath takes any x for the
\* version, a dist-tag too.
RouteTarball(c, route, name, ref) == Arrive(c, route, "npm", "tarball", name, ref)

\* GET /v2/{repo}/manifests/{reference}
RouteManifest(c, route, name, ref) == Arrive(c, route, "oci", "manifest", name, ref)

\* GET /v2/{repo}/blobs/{digest}
RouteBlob(c, route, name, digest) == Arrive(c, route, "oci", "blob", name, digest)

\* The client downloads the tarball of a link: by the path of npmProxyBaseURL,
\* or straight from the registry when the link was not rewritten.
FollowLink(c, l) ==
    /\ request[c].pc \in {"idle", "done"}
    /\ l \in links[c]
    /\ LET r == [IdleRequest EXCEPT !.op = "tarball", !.name = l.name,
                    !.ref = l.version, !.from = l.from, !.tenant = l.tenant, !.pin = l.pin]
       IN IF l.tenant = None
          THEN Continue(c, [r EXCEPT !.pc = "done", !.content = Requested(r)])
          ELSE Continue(c, [r EXCEPT !.pc = "routed"])
    /\ UNCHANGED <<Administration, links, recentAllow, faults>>

\* Both handlers up to the evaluation: the upstream is resolved from the
\* bundle, then RecordRequestReceived.
Start(c, ok) ==
    /\ request[c].pc = "routed"
    /\ Fault(ok)
    /\ LET r == request[c]
           u == ResolveUpstream(bundle[r.tenant], r.pin, r.eco)
       IN IF u # None /\ (ok \/ ~FailClosed)
          THEN Continue(c, [r EXCEPT !.pc = "evaluate", !.up = u])
          ELSE EndRequest(c)
    /\ UNCHANGED <<Administration, links, recentAllow>>

startNPMRequest(c, ok) == request[c].eco = "npm" /\ Start(c, ok)
handleManifest(c, ok) ==
    request[c].eco = "oci" /\ request[c].op = "manifest" /\ Start(c, ok)

-----------------------------------------------------------------------------
(* Evaluation and authorization.                                           *)

\* normalizeNPM, normalizeOCI: names are lower-cased.
NormalizeArtifactIdentity(a) == [a EXCEPT !.name = ToLower[a.name]]

\* NPMClient.ResolveReference, OCIClient.ResolveReference: what the tag stands
\* for at the upstream now.
ResolveReference(u, a) == IF a.ref = Tag THEN [a EXCEPT !.ref = tag[u][a.name]] ELSE a

\* AccessService.Evaluate in one step (AccessPipeline has its stages): the
\* artifact is normalized, a tag is resolved at the upstream, or kept when that
\* fails, and the bundle's policies decide on the result.  The decision carries
\* the normalized and resolved artifact.
Evaluate(c, resolved) ==
    /\ request[c].pc = "evaluate"
    /\ request[c].ref # Tag => resolved
    /\ Fault(resolved)
    /\ LET r == request[c]
           n == NormalizeArtifactIdentity(Requested(r))
           a == IF resolved THEN ResolveReference(r.up, n) ELSE n
           outcome == IF a \in bundle[r.tenant].deny THEN "deny" ELSE "allow"
       IN /\ Continue(c, [r EXCEPT !.pc = "authorize",
                                   !.dec = [outcome |-> outcome, art |-> a]])
          /\ recentAllow' = IF r.eco = "oci" /\ outcome = "allow"
                            THEN recentAllow \cup {r.tenant} ELSE recentAllow
    /\ UNCHANGED <<Administration, links>>

\* The evaluation ends with an error.
EvaluateFails(c) ==
    /\ request[c].pc = "evaluate"
    /\ Fault(FALSE)
    /\ EndRequest(c)
    /\ UNCHANGED <<Administration, links, recentAllow>>

\* Mutant: the event names the artifact as it was requested.
BugrequestAuditEvent(r) == Requested(r)

\* requestAuditEvent: the decision's artifact replaces the requested one.
requestAuditEvent(r) == r.dec.art

\* A denial ends the request; an allow is recorded, then
\* RecordUpstreamFetchStarted, and in fail_closed mode a lost event ends the
\* request too.
Authorize(c, ok) ==
    /\ request[c].pc = "authorize"
    /\ Fault(ok)
    /\ LET r == request[c] IN
       IF r.dec.outcome = "allow" /\ (ok \/ ~FailClosed)
       THEN Continue(c, [r EXCEPT !.pc = "fetch",
                !.recorded = IF ok THEN requestAuditEvent(r) ELSE None])
       ELSE EndRequest(c)
    /\ UNCHANGED <<Administration, links, recentAllow>>

\* For a bare packument the event is request_forwarded.
authorizeMetadata(c, ok) ==
    request[c].eco = "npm" /\ request[c].op # "tarball" /\ Authorize(c, ok)
authorizeTarball(c, ok) == request[c].op = "tarball" /\ Authorize(c, ok)
authorizeManifest(c, ok) == request[c].eco = "oci" /\ Authorize(c, ok)

\* handleBlob up to the end of authorizeBlob: RecordRequestReceived, then the gate.
authorizeBlob(c, ok) ==
    /\ request[c].pc = "routed" /\ request[c].op = "blob"
    /\ Fault(ok)
    /\ IF request[c].tenant \in recentAllow /\ (ok \/ ~FailClosed)
       THEN Continue(c, [request[c] EXCEPT !.pc = "allowedBlob"])
       ELSE EndRequest(c)
    /\ UNCHANGED <<Administration, links, recentAllow>>

\* The rest of handleBlob: only now is the upstream resolved, and the event
\* names the requested digest.
handleBlob(c, ok) ==
    /\ request[c].pc = "allowedBlob"
    /\ Fault(ok)
    /\ LET r == request[c]
           u == ResolveUpstream(bundle[r.tenant], r.pin, r.eco)
       IN IF u # None /\ (ok \/ ~FailClosed)
          THEN Continue(c, [r EXCEPT !.pc = "fetch", !.up = u,
                                     !.recorded = IF ok THEN Requested(r) ELSE None])
          ELSE EndRequest(c)
    /\ UNCHANGED <<Administration, links, recentAllow>>

-----------------------------------------------------------------------------
(* Fetching and serving.                                                   *)

\* FetchMetadata of the upstream clients: the document of a reference, as the
\* registry has it now.
FetchMetadata(u, a) == IF a.ref = Tag THEN [a EXCEPT !.ref = tag[u][a.name]] ELSE a

\* Mutant: the manifest is fetched by the reference of the request.
BugmanifestReference(r) == Requested(r)

\* streamManifest is given the artifact of the decision.
manifestReference(r) == r.dec.art

\* The rest of handleMetadata: the document is fetched by the requested name
\* and reference, not the judged ones, and its links are rewritten.
handleMetadata(c, ct) ==
    /\ request[c].pc = "fetch" /\ request[c].eco = "npm" /\ request[c].op # "tarball"
    /\ LET r == request[c]
           a == FetchMetadata(r.up, Requested(r))
           versions == IF r.op = "packument" THEN Version ELSE {a.ref}
       IN /\ links' = [links EXCEPT ![c] =
                          rewriteMetadataResponse(r.tenant, r.up, ct, r.name, versions)]
          /\ Continue(c, [r EXCEPT !.pc = "done", !.content = a])
    /\ UNCHANGED <<Administration, recentAllow, faults>>

\* The body is streamed to the client.
streamResponse(c, content) ==
    /\ request[c].pc = "fetch"
    /\ Continue(c, [request[c] EXCEPT !.pc = "done", !.content = content])
    /\ UNCHANGED <<Administration, links, recentAllow, faults>>

\* tarballFilename builds the file name from the requested name and reference,
\* not the judged ones.
streamTarball(c) ==
    request[c].op = "tarball" /\ streamResponse(c, Requested(request[c]))
streamManifest(c) ==
    /\ request[c].eco = "oci" /\ request[c].op = "manifest"
    /\ streamResponse(c, FetchMetadata(request[c].up, manifestReference(request[c])))
streamBlob(c) ==
    request[c].op = "blob" /\ streamResponse(c, Requested(request[c]))

\* Not found, or unavailable: an error response (RecordUpstreamFetchFailed is
\* best effort).
FetchFails(c) ==
    /\ request[c].pc = "fetch"
    /\ Fault(FALSE)
    /\ EndRequest(c)
    /\ UNCHANGED <<Administration, links, recentAllow>>

-----------------------------------------------------------------------------
(* The surroundings.                                                       *)

MoveTag(u, n, v) ==
    /\ moves < MaxMoves /\ moves' = moves + 1
    /\ tag[u][n] # v
    /\ tag' = [tag EXCEPT ![u][n] = v]
    /\ UNCHANGED <<config, retired, bundle, request, links, recentAllow, changes, faults>>

\* An upstream is created or updated: it becomes the most recently updated.
PutUpstream(u, eco) ==
    /\ u \notin retired
    /\ changes < MaxChanges /\ changes' = changes + 1
    /\ config' = [config EXCEPT ![Owner[u]].ups =
                     {x \in @ : x.id # u} \cup {[id |-> u, eco |-> eco, at |-> changes']}]
    /\ UNCHANGED <<retired, bundle, tag, request, links, recentAllow, moves, faults>>

DeleteUpstream(u) ==
    /\ changes < MaxChanges /\ changes' = changes + 1
    /\ \E x \in config[Owner[u]].ups : x.id = u
    /\ config' = [config EXCEPT ![Owner[u]].ups = {x \in @ : x.id # u}]
    /\ retired' = retired \cup {u}
    /\ UNCHANGED <<bundle, tag, request, links, recentAllow, moves, faults>>

ChangePolicies(t, d) ==
    /\ changes < MaxChanges /\ changes' = changes + 1
    /\ config[t].deny # d
    /\ config' = [config EXCEPT ![t].deny = d]
    /\ UNCHANGED <<retired, bundle, tag, request, links, recentAllow, moves, faults>>

\* The bundle provider refreshes its entry: every lookup of a request may see
\* another bundle.
RefreshBundle(t) ==
    /\ bundle[t] # config[t]
    /\ bundle' = [bundle EXCEPT ![t] = config[t]]
    /\ UNCHANGED <<config, retired, tag, request, links, recentAllow, changes, moves, faults>>

\* No manifest of the tenant was allowed within the last hour.
ExpireAllow(t) ==
    /\ t \in recentAllow
    /\ recentAllow' = recentAllow \ {t}
    /\ UNCHANGED <<config, retired, bundle, tag, request, links, changes, moves, faults>>

Next ==
    \/ \E c \in Client :
          \/ \E route \in Routes, n \in Name :
                \/ \E ref \in Reference \cup {None} : RouteNPM(c, route, n, ref)
                \/ \E ref \in Reference : RouteTarball(c, route, n, ref)
                \/ \E ref \in Reference : RouteManifest(c, route, n, ref)
                \/ \E digest \in Version : RouteBlob(c, route, n, digest)
          \/ \E l \in links[c] : FollowLink(c, l)
          \/ \E ok \in BOOLEAN :
                \/ startNPMRequest(c, ok) \/ handleManifest(c, ok)
                \/ Evaluate(c, ok)
                \/ authorizeMetadata(c, ok) \/ authorizeTarball(c, ok)
                \/ authorizeManifest(c, ok)
                \/ authorizeBlob(c, ok) \/ handleBlob(c, ok)
          \/ EvaluateFails(c)
          \/ \E ct \in ContentType : handleMetadata(c, ct)
          \/ streamTarball(c) \/ streamManifest(c) \/ streamBlob(c)
          \/ FetchFails(c)
    \/ \E u \in Upstream, n \in Name, v \in Version : MoveTag(u, n, v)
    \/ \E u \in Upstream, eco \in Ecosystem : PutUpstream(u, eco)
    \/ \E u \in Upstream : DeleteUpstream(u)
    \/ \E t \in Tenant, d \in Denials : ChangePolicies(t, d)
    \/ \E t \in Tenant : RefreshBundle(t) \/ ExpireAllow(t)

Spec == Init /\ [][Next]_vars

-----------------------------------------------------------------------------
(* Properties.                                                             *)

TypeOK ==
    /\ config \in [Tenant -> Configuration]
    /\ retired \in SUBSET Upstream
    /\ bundle \in [Tenant -> Configuration]
    /\ tag \in [Upstream -> [Name -> Version]]
    /\ request \in [Client -> Request]
    /\ links \in [Client -> SUBSET Link]
    /\ recentAllow \in SUBSET Tenant
    /\ changes \in 0..MaxChanges /\ moves \in 0..MaxMoves /\ faults \in 0..MaxFaults

\* The tarball came straight from the registry, by a link of a document that
\* was not declared to be JSON.
PastTheProxy(r) == r.from # None /\ ~r.from.json

\* Content is judged: a tarball of a version, and a manifest whose tag could be
\* resolved.  Not judged are a bare packument, the metadata of a dist-tag, a
\* manifest served by an unresolved tag, a tarball asked for by a dist-tag (the
\* verdict is on the tag's version, the file is the one named after the tag) and
\* one that did not come through the proxy.
Judged(r) ==
    /\ r.pc = "done"
    /\ \/ r.op = "tarball" /\ r.ref # Tag /\ ~PastTheProxy(r)
       \/ r.eco = "oci" /\ r.op = "manifest" /\ r.dec.art.ref # Tag

\* The same artifact, up to the letter case of its name.
SameArtifact(a, b) == NormalizeArtifactIdentity(a) = NormalizeArtifactIdentity(b)

\* What a client ends up with is what was judged: the name (up to letter case)
\* and version of an installed tarball, and the name and digest of a manifest,
\* are the ones an evaluation of this request allowed, although tags move
\* between evaluation and fetch, tarballs are asked for directly, and links come
\* from the metadata of an unjudged version (handleMetadata, handleTarball,
\* streamManifest, rewriteTarballURLs).
ObtainedWasJudged ==
    \A c \in Client : LET r == request[c] IN
        Judged(r) =>
            /\ r.dec.outcome = "allow"
            /\ SameArtifact(r.content, r.dec.art)
            /\ r.op = "manifest" => r.content = r.dec.art

\* A tarball behind a link of a JSON document is served by the tenant and the
\* upstream whose metadata held the link, or not at all, whatever happened to
\* the tenant's upstreams in between; and no request is served by an upstream
\* of another tenant (npmProxyBaseURL, NPMTenantFromPath, ResolveUpstream).
LinksKeepRoute ==
    \A c \in Client : LET r == request[c] IN
        r.pc = "done" =>
            /\ r.from # None /\ ~PastTheProxy(r) =>
                  r.tenant = r.from.tenant /\ r.up = r.from.up
            /\ r.up # None => Owner[r.up] = r.tenant

\* With failure_mode fail_closed the audit trail holds, for everything served
\* on a verdict, a request_allowed event that names what was served, up to the
\* letter case of its name (RecordRequestAllowed, RecordSimpleRequestAllowed,
\* requestAuditEvent).
ServedIsOnRecord ==
    FailClosed =>
        \A c \in Client : LET r == request[c] IN
            Judged(r) \/ (r.pc = "done" /\ r.op = "blob") =>
                r.recorded # None /\ SameArtifact(r.recorded, r.content)
=============================================================================
