------------------------ MODULE ProxyHandlers_proofs ------------------------
(***************************************************************************)
(* What the handlers guarantee, for any number of clients, tenants,        *)
(* upstreams and versions, and without bounds on changes and tag moves.    *)
(* The invariant says what a request knows at each stage, that upstreams   *)
(* stay with their owner on their way into the bundle, and that a link     *)
(* held by a client carries the route of the document it was in.           *)
(***************************************************************************)
EXTENDS ProxyHandlers, TLAPS

Resolved(r) == r.pc \in {"evaluate", "authorize", "fetch", "done"}

\* The upstream is one of the tenant's, and the pinned one if one is pinned;
\* a tarball fetched past the proxy has none.
RouteInv(r) ==
    /\ r.pc # "idle" => r.name \in Name
    /\ r.pc # "idle" /\ ~PastTheProxy(r) => r.tenant \in Tenant
    /\ Resolved(r) /\ ~PastTheProxy(r) =>
          r.up \in Upstream /\ Owner[r.up] = r.tenant /\ (r.pin # None => r.up = r.pin)
    /\ PastTheProxy(r) => r.pc = "done" /\ r.op = "tarball" /\ r.up = None
    /\ r.from # None => r.op = "tarball"
    /\ r.from # None /\ ~PastTheProxy(r) => r.tenant = r.from.tenant /\ r.pin = r.from.up
    /\ r.op \in {"manifest", "blob", "tarball"} => r.ref # None

\* The decision is on the lower-cased name and the requested reference, or
\* what its tag stood for.
DecidedOn(r) ==
    /\ r.dec.art \in Artifact
    /\ r.dec.art.name = ToLower[r.name]
    /\ r.ref # Tag => r.dec.art.ref = r.ref

\* What is known of the verdict, the record and the content.
JudgementInv(r) ==
    /\ r.op = "tarball" => r.eco = "npm"
    /\ r.op = "blob" => r.eco = "oci" /\ r.pc \notin {"evaluate", "authorize"}
    /\ r.pc = "allowedBlob" => r.op = "blob"
    /\ r.pc \in {"authorize", "fetch", "done"} /\ r.op # "blob" /\ ~PastTheProxy(r)
            => DecidedOn(r)
    /\ r.pc \in {"fetch", "done"} /\ r.op # "blob" /\ ~PastTheProxy(r)
            => r.dec.outcome = "allow"
    /\ FailClosed /\ r.pc \in {"fetch", "done"} /\ ~PastTheProxy(r) =>
            r.recorded = IF r.op = "blob" THEN Requested(r) ELSE r.dec.art
    /\ r.pc = "done" /\ r.op \in {"tarball", "blob"} => r.content = Requested(r)
    /\ r.pc = "done" /\ r.eco = "oci" /\ r.op = "manifest" /\ r.dec.art.ref # Tag
            => r.content = r.dec.art

RequestInv(r) == RouteInv(r) /\ JudgementInv(r)

OwnInv(b) == \A t \in Tenant : \A x \in b[t].ups : Owner[x.id] = t

\* A link of a JSON document carries its route, any other is the registry's.
LinkInv(l) ==
    /\ l.from.json => l.tenant = l.from.tenant /\ l.pin = l.from.up
    /\ ~l.from.json => l.tenant = None

\* The inductive invariant.
IInv ==
    /\ TypeOK
    /\ OwnInv(config) /\ OwnInv(bundle)
    /\ \A c \in Client : RequestInv(request[c])
    /\ \A c \in Client : \A l \in links[c] : LinkInv(l)

-----------------------------------------------------------------------------
\* What ResolveUpstream returns is an upstream of the bundle it was given, and
\* the pinned one if there is one.
LEMMA ResolvedUpstream ==
    ASSUME NEW b \in Configuration, NEW pin \in Upstream \cup {None}, NEW eco \in Ecosystem,
           ResolveUpstream(b, pin, eco) # None
    PROVE  /\ \E x \in b.ups : x.id = ResolveUpstream(b, pin, eco)
           /\ ResolveUpstream(b, pin, eco) \in Upstream
           /\ pin # None => ResolveUpstream(b, pin, eco) = pin
<1> DEFINE found == IF pin # None THEN {x \in GetByID(b, pin) : x.eco = eco}
                    ELSE GetByEcosystem(b, eco)
<1>1. found # {} BY DEF ResolveUpstream
<1> DEFINE y == CHOOSE x \in found : TRUE
<1>2. y \in found BY <1>1
<1>3. ResolveUpstream(b, pin, eco) = y.id BY <1>1 DEF ResolveUpstream
<1>4. y \in b.ups /\ (pin # None => y.id = pin)
  BY <1>2 DEF GetByID, GetByEcosystem
<1>5. y.id \in Upstream BY <1>4 DEF Configuration, UpstreamRecord
<1> QED BY <1>3, <1>4, <1>5

\* One request takes a step and all the others stay as they are.
LEMMA ContinueKeeps ==
    ASSUME IInv, NEW c \in Client, NEW r \in Request, RequestInv(r), Continue(c, r)
    PROVE  /\ request' \in [Client -> Request]
           /\ \A d \in Client : RequestInv(request'[d])
<1>1. request \in [Client -> Request] /\ \A d \in Client : RequestInv(request[d])
  BY DEF IInv, TypeOK
<1>2. request' = [request EXCEPT ![c] = r] BY DEF Continue
<1>3. \A d \in Client : request'[d] = IF d = c THEN r ELSE request[d] BY <1>1, <1>2
<1>4. request' \in [Client -> Request] BY <1>1, <1>2
<1> QED BY <1>1, <1>3, <1>4

LEMMA IdleIsFine == IdleRequest \in Request /\ RequestInv(IdleRequest)
<1>1. IdleRequest \in Request
  BY DEF IdleRequest, Request, NoDecision, Decision, Ecosystem, Operation
<1>2. RequestInv(IdleRequest)
  BY DEF IdleRequest, RequestInv, RouteInv, JudgementInv, Resolved, Requested, PastTheProxy,
        DecidedOn
<1> QED BY <1>1, <1>2

\* A request that ends, whatever the other variables do.
LEMMA EndKeeps ==
    ASSUME IInv, NEW c \in Client, EndRequest(c)
    PROVE  /\ request' \in [Client -> Request]
           /\ \A d \in Client : RequestInv(request'[d])
BY ContinueKeeps, IdleIsFine DEF EndRequest

LEMMA FaultType ==
    ASSUME faults \in 0..MaxFaults, NEW ok, Fault(ok)
    PROVE  faults' \in 0..MaxFaults
BY ConstantsAssumption DEF Fault

LEMMA InitInvariant == Init => IInv
<1> SUFFICES ASSUME Init PROVE IInv OBVIOUS
<1> USE ConstantsAssumption DEF Init
<1>1. config \in [Tenant -> Configuration] BY DEF Configuration
<1>2. tag \in [Upstream -> [Name -> Version]] OBVIOUS
<1>3. request \in [Client -> Request] BY IdleIsFine
<1>4. links \in [Client -> SUBSET Link] OBVIOUS
<1>5. TypeOK BY <1>1, <1>2, <1>3, <1>4 DEF TypeOK
<1>6. OwnInv(config) /\ OwnInv(bundle) BY DEF OwnInv
<1>7. \A c \in Client : RequestInv(request[c]) BY IdleIsFine
<1>8. \A c \in Client : \A l \in links[c] : LinkInv(l) OBVIOUS
<1> QED BY <1>5, <1>6, <1>7, <1>8 DEF IInv

-----------------------------------------------------------------------------
(* One lemma per kind of step.                                             *)

\* Everything but the requests and the fault counter stays as it is.
Rest == <<config, retired, bundle, tag, changes, moves, links>>

\* A step that only moves requests and counts faults keeps the invariant.
LEMMA RequestStep ==
    ASSUME IInv, UNCHANGED Rest,
           request' \in [Client -> Request],
           \A d \in Client : RequestInv(request'[d]),
           faults' \in 0..MaxFaults, recentAllow' \in SUBSET Tenant
    PROVE  IInv'
<1>1. TypeOK' BY DEF Rest, IInv, TypeOK
<1>2. OwnInv(config)' /\ OwnInv(bundle)' BY DEF Rest, IInv, OwnInv
<1>3. (\A c \in Client : \A l \in links[c] : LinkInv(l))' BY DEF Rest, IInv
<1> QED BY <1>1, <1>2, <1>3 DEF IInv

LEMMA Typing ==
    ASSUME IInv, NEW c \in Client
    PROVE  /\ request[c] \in Request /\ RequestInv(request[c])
           /\ links[c] \in SUBSET Link
           /\ faults \in 0..MaxFaults /\ recentAllow \in SUBSET Tenant
BY DEF IInv, TypeOK

LEMMA ArriveStep ==
    ASSUME IInv, NEW c \in Client, NEW route \in Routes, NEW eco \in Ecosystem,
           NEW op \in Operation, NEW name \in Name, NEW ref \in Reference \cup {None},
           op # "packument" => ref # None,
           op = "blob" => eco = "oci", op = "tarball" => eco = "npm",
           Arrive(c, route, eco, op, name, ref)
    PROVE  IInv'
<1> DEFINE t == TenantFromContext(eco, route)
           r == [IdleRequest EXCEPT !.pc = "routed", !.eco = eco, !.op = op, !.name = name,
                    !.ref = ref, !.pin = route.pin, !.tenant = t]
<1>1. t \in Tenant /\ route.pin \in Upstream \cup {None}
  BY ConstantsAssumption
  DEF Arrive, TenantFromContext, parseNPMTenantPath, OCITenantFromHost
<1> HIDE DEF t
<1>2. r \in Request
  BY <1>1, IdleIsFine DEF Request
<1>3. /\ r.pc = "routed" /\ r.eco = eco /\ r.op = op /\ r.name = name /\ r.ref = ref
      /\ r.tenant = t /\ r.from = None
  BY DEF IdleRequest
<1> HIDE DEF r
<1>4. RequestInv(r)
  BY <1>1, <1>3 DEF RequestInv, RouteInv, JudgementInv, Resolved, PastTheProxy, Operation
<1>5. Continue(c, r) BY DEF Arrive, r, t
<1>6. UNCHANGED Rest /\ UNCHANGED <<faults, recentAllow>>
  BY DEF Arrive, Rest, Administration
<1> QED BY <1>2, <1>4, <1>5, <1>6, ContinueKeeps, RequestStep, Typing

LEMMA FollowStep ==
    ASSUME IInv, NEW c \in Client, NEW l \in links[c], FollowLink(c, l)
    PROVE  IInv'
<1>1. l \in Link /\ LinkInv(l) BY Typing DEF IInv
<1>2. /\ l.name \in Name /\ l.version \in Version /\ l.version # None
      /\ l.version \in Reference /\ l.pin \in Upstream \cup {None}
      /\ l.from \in Document /\ l.from # None
  BY <1>1, ConstantsAssumption DEF Link, Reference, Document
<1>3. l.from.tenant \in Tenant /\ l.from.tenant # None /\ l.from.json \in BOOLEAN
  BY <1>2, ConstantsAssumption DEF Document
<1> DEFINE q == [IdleRequest EXCEPT !.op = "tarball", !.name = l.name, !.ref = l.version,
                    !.from = l.from, !.tenant = l.tenant, !.pin = l.pin]
<1>4. UNCHANGED Rest /\ UNCHANGED <<faults, recentAllow>>
  BY DEF FollowLink, Rest, Administration
<1>5. CASE l.tenant = None
  <2> DEFINE r == [q EXCEPT !.pc = "done", !.content = Requested(q)]
  <2>1. Continue(c, r) BY <1>5 DEF FollowLink
  <2>2. ~l.from.json BY <1>1, <1>3, <1>5 DEF LinkInv
  <2>3. Requested(q) = [name |-> l.name, ref |-> l.version] BY DEF Requested, IdleRequest
  <2>4. Requested(q) \in Artifact BY <1>2, <2>3 DEF Artifact
  <2>5. r \in Request
    <3>1. q \in Request BY <1>2, <1>5, IdleIsFine DEF Request, Operation
    <3> HIDE DEF q
    <3> QED BY <2>4, <3>1 DEF Request
  <2>6. /\ r.pc = "done" /\ r.eco = "npm" /\ r.op = "tarball" /\ r.name = l.name
        /\ r.ref = l.version /\ r.from = l.from /\ r.up = None
        /\ r.content = Requested(r)
    BY DEF IdleRequest, Requested
  <2> HIDE DEF r
  <2>7. PastTheProxy(r) BY <1>2, <2>2, <2>6 DEF PastTheProxy
  <2>8. RequestInv(r)
    BY <1>2, <2>6, <2>7 DEF RequestInv, RouteInv, JudgementInv
  <2> QED BY <1>4, <2>1, <2>5, <2>8, ContinueKeeps, RequestStep, Typing
<1>6. CASE l.tenant # None
  <2> DEFINE r == [q EXCEPT !.pc = "routed"]
  <2>1. Continue(c, r) BY <1>6 DEF FollowLink
  <2>2. l.from.json /\ l.tenant = l.from.tenant /\ l.pin = l.from.up
    BY <1>1, <1>3, <1>6 DEF LinkInv
  <2>3. r \in Request
    BY <1>2, <1>3, <2>2, IdleIsFine DEF Request, Operation
  <2>4. /\ r.pc = "routed" /\ r.eco = "npm" /\ r.op = "tarball" /\ r.name = l.name
        /\ r.ref = l.version /\ r.from = l.from /\ r.tenant = l.tenant /\ r.pin = l.pin
    BY DEF IdleRequest
  <2> HIDE DEF r
  <2>5. ~PastTheProxy(r) BY <2>2, <2>4 DEF PastTheProxy
  <2>6. RequestInv(r)
    BY <1>2, <1>3, <2>2, <2>4, <2>5 DEF RequestInv, RouteInv, JudgementInv, Resolved
  <2> QED BY <1>4, <2>1, <2>3, <2>6, ContinueKeeps, RequestStep, Typing
<1> QED BY <1>5, <1>6

LEMMA RequestedArtifact ==
    ASSUME NEW r \in Request, RequestInv(r), r.pc # "idle"
    PROVE  Requested(r) \in Artifact
BY DEF Requested, Artifact, Request, RequestInv, RouteInv

\* What both upstream lookups give.
LEMMA LookupGives ==
    ASSUME IInv, NEW c \in Client, request[c].pc \notin {"idle", "done"},
           NEW u, u = ResolveUpstream(bundle[request[c].tenant], request[c].pin, request[c].eco),
           u # None
    PROVE  /\ u \in Upstream /\ Owner[u] = request[c].tenant
           /\ request[c].pin # None => u = request[c].pin
<1>1. request[c] \in Request /\ RequestInv(request[c]) BY Typing
<1>2. request[c].tenant \in Tenant /\ request[c].pin \in Upstream \cup {None}
      /\ request[c].eco \in Ecosystem
  BY <1>1 DEF Request, RequestInv, RouteInv
<1>3. bundle[request[c].tenant] \in Configuration BY <1>2 DEF IInv, TypeOK
<1>4. /\ \E x \in bundle[request[c].tenant].ups : x.id = u
      /\ u \in Upstream
      /\ request[c].pin # None => u = request[c].pin
  BY <1>2, <1>3, ResolvedUpstream
<1>5. Owner[u] = request[c].tenant BY <1>2, <1>4 DEF IInv, OwnInv
<1> QED BY <1>4, <1>5

LEMMA StartStep ==
    ASSUME IInv, NEW c \in Client, NEW ok \in BOOLEAN, Start(c, ok),
           request[c].op # "blob"
    PROVE  IInv'
<1> DEFINE q == request[c]
           u == ResolveUpstream(bundle[q.tenant], q.pin, q.eco)
           r == [q EXCEPT !.pc = "evaluate", !.up = u]
<1>1. q \in Request /\ RequestInv(q) /\ q.pc = "routed" BY Typing DEF Start
<1>2. UNCHANGED Rest /\ UNCHANGED recentAllow /\ faults' \in 0..MaxFaults
  BY FaultType, Typing DEF Start, Rest, Administration
<1>3. CASE u # None /\ (ok \/ ~FailClosed)
  <2>1. Continue(c, r) BY <1>3 DEF Start
  <2>2. u \in Upstream /\ Owner[u] = q.tenant /\ (q.pin # None => u = q.pin)
    BY <1>1, <1>3, LookupGives
  <2> HIDE DEF u
  <2>3. r \in Request BY <1>1, <2>2 DEF Request
  <2>4. RequestInv(r)
    BY <1>1, <2>2, <2>3 DEF RequestInv, RouteInv, JudgementInv, Resolved, Requested, PastTheProxy,
        DecidedOn, Request
  <2> QED BY <1>2, <2>1, <2>3, <2>4, ContinueKeeps, RequestStep, Typing
<1>4. CASE ~(u # None /\ (ok \/ ~FailClosed))
  <2>1. EndRequest(c) BY <1>4 DEF Start
  <2> QED BY <1>2, <2>1, EndKeeps, RequestStep, Typing
<1> QED BY <1>3, <1>4

LEMMA EvaluateStep ==
    ASSUME IInv, NEW c \in Client, NEW resolved \in BOOLEAN, Evaluate(c, resolved)
    PROVE  IInv'
<1> DEFINE q == request[c]
           n == NormalizeArtifactIdentity(Requested(q))
           a == IF resolved THEN ResolveReference(q.up, n) ELSE n
           outcome == IF a \in bundle[q.tenant].deny THEN "deny" ELSE "allow"
           r == [q EXCEPT !.pc = "authorize", !.dec = [outcome |-> outcome, art |-> a]]
<1>1. q \in Request /\ RequestInv(q) /\ q.pc = "evaluate" BY Typing DEF Evaluate
<1>2. UNCHANGED Rest /\ faults' \in 0..MaxFaults
  BY FaultType, Typing DEF Evaluate, Rest, Administration
<1>3. Continue(c, r) BY DEF Evaluate
<1>4. recentAllow' \in SUBSET Tenant
  BY <1>1, Typing DEF Evaluate, RequestInv, RouteInv
<1>5. q.up \in Upstream BY <1>1 DEF RequestInv, RouteInv, Resolved
<1>6. a \in Artifact /\ a.name = ToLower[q.name] /\ (q.ref # Tag => a.ref = q.ref)
  <2>1. q.name \in Name /\ q.ref \in Reference \cup {None}
    BY <1>1 DEF RequestInv, RouteInv, Request
  <2>2. n = [name |-> ToLower[q.name], ref |-> q.ref]
    BY DEF NormalizeArtifactIdentity, Requested
  <2>3. ToLower[q.name] \in Name BY <2>1, ConstantsAssumption
  <2>4. n \in Artifact /\ n.name = ToLower[q.name] /\ n.ref = q.ref
    BY <2>1, <2>2, <2>3 DEF Artifact
  <2> HIDE DEF n
  <2>5. tag[q.up][n.name] \in Reference
    BY <1>5, <2>3, <2>4 DEF IInv, TypeOK, Reference
  <2>6. CASE resolved /\ n.ref = Tag
    <3>1. a = [n EXCEPT !.ref = tag[q.up][n.name]] BY <2>6 DEF ResolveReference
    <3> QED BY <2>4, <2>5, <2>6, <3>1 DEF Artifact
  <2>7. CASE ~(resolved /\ n.ref = Tag)
    <3>1. a = n BY <2>7 DEF ResolveReference
    <3> QED BY <2>4, <3>1
  <2> QED BY <2>6, <2>7
<1>7. outcome \in {"allow", "deny"} OBVIOUS
<1> HIDE DEF n, a, outcome
<1>8. r \in Request BY <1>1, <1>6, <1>7 DEF Request, Decision
<1>9. RequestInv(r)
  BY <1>1, <1>6, <1>8 DEF RequestInv, RouteInv, JudgementInv, Resolved, Requested, PastTheProxy,
        DecidedOn, Request
<1> QED BY <1>2, <1>3, <1>4, <1>8, <1>9, ContinueKeeps, RequestStep

LEMMA AuthorizeStep ==
    ASSUME IInv, NEW c \in Client, NEW ok \in BOOLEAN, Authorize(c, ok)
    PROVE  IInv'
<1> DEFINE q == request[c]
           m == IF ok THEN requestAuditEvent(q) ELSE None
           r == [q EXCEPT !.pc = "fetch", !.recorded = m]
<1>1. q \in Request /\ RequestInv(q) /\ q.pc = "authorize" BY Typing DEF Authorize
<1>2. UNCHANGED Rest /\ UNCHANGED recentAllow /\ faults' \in 0..MaxFaults
  BY FaultType, Typing DEF Authorize, Rest, Administration
<1>3. CASE q.dec.outcome = "allow" /\ (ok \/ ~FailClosed)
  <2>1. Continue(c, r) BY <1>3 DEF Authorize
  <2>2. m \in Artifact \cup {None} /\ (FailClosed => m = q.dec.art)
    BY <1>1, <1>3, ConstantsAssumption DEF requestAuditEvent, Request, Decision
  <2> HIDE DEF m
  <2>3. r \in Request BY <1>1, <2>2 DEF Request
  <2>4. RequestInv(r)
    BY <1>1, <1>3, <2>2, <2>3
    DEF RequestInv, RouteInv, JudgementInv, Resolved, Requested, PastTheProxy,
        DecidedOn, Request
  <2> QED BY <1>2, <2>1, <2>3, <2>4, ContinueKeeps, RequestStep, Typing
<1>4. CASE ~(q.dec.outcome = "allow" /\ (ok \/ ~FailClosed))
  <2>1. EndRequest(c) BY <1>4 DEF Authorize
  <2> QED BY <1>2, <2>1, EndKeeps, RequestStep, Typing
<1> QED BY <1>3, <1>4

LEMMA AuthorizeBlobStep ==
    ASSUME IInv, NEW c \in Client, NEW ok \in BOOLEAN, authorizeBlob(c, ok)
    PROVE  IInv'
<1> DEFINE q == request[c]
           r == [q EXCEPT !.pc = "allowedBlob"]
           open == q.tenant \in recentAllow /\ (ok \/ ~FailClosed)
<1>1. q \in Request /\ RequestInv(q) /\ q.pc = "routed" /\ q.op = "blob"
  BY Typing DEF authorizeBlob
<1>2. UNCHANGED Rest /\ UNCHANGED recentAllow /\ faults' \in 0..MaxFaults
  BY FaultType, Typing DEF authorizeBlob, Rest, Administration
<1>3. CASE open
  <2>1. Continue(c, r) BY <1>3 DEF authorizeBlob
  <2>2. r \in Request BY <1>1 DEF Request
  <2>3. RequestInv(r)
    BY <1>1, <2>2 DEF RequestInv, RouteInv, JudgementInv, Resolved, Requested, PastTheProxy,
        DecidedOn, Request
  <2> QED BY <1>2, <2>1, <2>2, <2>3, ContinueKeeps, RequestStep, Typing
<1>4. CASE ~open
  <2>1. EndRequest(c) BY <1>4 DEF authorizeBlob
  <2> QED BY <1>2, <2>1, EndKeeps, RequestStep, Typing
<1> QED BY <1>3, <1>4

LEMMA HandleBlobStep ==
    ASSUME IInv, NEW c \in Client, NEW ok \in BOOLEAN, handleBlob(c, ok)
    PROVE  IInv'
<1> DEFINE q == request[c]
           u == ResolveUpstream(bundle[q.tenant], q.pin, q.eco)
           m == IF ok THEN Requested(q) ELSE None
           r == [q EXCEPT !.pc = "fetch", !.up = u, !.recorded = m]
<1>1. q \in Request /\ RequestInv(q) /\ q.pc = "allowedBlob" BY Typing DEF handleBlob
<1>2. UNCHANGED Rest /\ UNCHANGED recentAllow /\ faults' \in 0..MaxFaults
  BY FaultType, Typing DEF handleBlob, Rest, Administration
<1>3. CASE u # None /\ (ok \/ ~FailClosed)
  <2>1. Continue(c, r) BY <1>3 DEF handleBlob
  <2>2. u \in Upstream /\ Owner[u] = q.tenant /\ (q.pin # None => u = q.pin)
    BY <1>1, <1>3, LookupGives
  <2>3. q.op = "blob" BY <1>1 DEF RequestInv, JudgementInv
  <2>4. m \in Artifact \cup {None} /\ (FailClosed => m = Requested(q))
    <3>1. Requested(q) \in Artifact BY <1>1, RequestedArtifact
    <3> QED BY <1>3, <3>1, ConstantsAssumption
  <2> HIDE DEF u, m
  <2>5. r \in Request BY <1>1, <2>2, <2>4 DEF Request
  <2>6. RequestInv(r)
    BY <1>1, <2>2, <2>3, <2>4, <2>5
    DEF RequestInv, RouteInv, JudgementInv, Resolved, Requested, PastTheProxy,
        DecidedOn, Request
  <2> QED BY <1>2, <2>1, <2>5, <2>6, ContinueKeeps, RequestStep, Typing
<1>4. CASE ~(u # None /\ (ok \/ ~FailClosed))
  <2>1. EndRequest(c) BY <1>4 DEF handleBlob
  <2> QED BY <1>2, <2>1, EndKeeps, RequestStep, Typing
<1> QED BY <1>3, <1>4

\* The document's links carry the route of the request they answer.
LEMMA MetadataStep ==
    ASSUME IInv, NEW c \in Client, NEW ct \in ContentType, handleMetadata(c, ct)
    PROVE  IInv'
<1> DEFINE q == request[c]
           a == FetchMetadata(q.up, Requested(q))
           versions == IF q.op = "packument" THEN Version ELSE {a.ref}
           new == rewriteMetadataResponse(q.tenant, q.up, ct, q.name, versions)
           r == [q EXCEPT !.pc = "done", !.content = a]
<1>1. /\ q \in Request /\ RequestInv(q) /\ q.pc = "fetch"
      /\ q.eco = "npm" /\ q.op # "tarball" /\ q.op # "blob"
  BY Typing DEF handleMetadata, RequestInv, JudgementInv
<1>2. q.up \in Upstream /\ q.tenant \in Tenant /\ q.name \in Name
  BY <1>1 DEF RequestInv, RouteInv, Resolved
<1>3. a \in Artifact /\ (q.op # "packument" => a.ref \in Version)
  <2> DEFINE m == Requested(q)
  <2>1. m \in Artifact /\ m.name = q.name /\ m.ref = q.ref
    BY <1>1, RequestedArtifact DEF Requested
  <2> HIDE DEF m
  <2>2. tag[q.up][m.name] \in Version BY <1>2, <2>1 DEF IInv, TypeOK
  <2>3. q.op # "packument" => q.ref \in Reference
    BY <1>1 DEF RequestInv, RouteInv, Request, Operation
  <2>4. CASE m.ref = Tag
    <3>1. a = [m EXCEPT !.ref = tag[q.up][m.name]] BY <2>4 DEF FetchMetadata, m
    <3> QED BY <2>1, <2>2, <3>1 DEF Artifact, Reference
  <2>5. CASE m.ref # Tag
    <3>1. a = m BY <2>5 DEF FetchMetadata, m
    <3> QED BY <2>1, <2>3, <2>5, <3>1 DEF Reference
  <2> QED BY <2>4, <2>5
<1>4. versions \subseteq Version BY <1>3
<1> DEFINE json == isJSONContentType(ct)
           link(x) == [tenant |-> IF json THEN q.tenant ELSE None,
                       pin |-> IF json THEN q.up ELSE None, name |-> q.name, version |-> x,
                       from |-> [tenant |-> q.tenant, up |-> q.up, json |-> json]]
<1>5. new = {link(x) : x \in versions}
  <2>1. CASE json
    BY <2>1 DEF rewriteMetadataResponse, npmProxyBaseURL
  <2>2. CASE ~json
    BY <2>2 DEF rewriteMetadataResponse
  <2> QED BY <2>1, <2>2
<1>6. new \subseteq Link /\ \A l \in new : LinkInv(l)
  <2> SUFFICES ASSUME NEW x \in versions PROVE link(x) \in Link /\ LinkInv(link(x))
    BY <1>5
  <2>1. x \in Version BY <1>4
  <2>2. json \in BOOLEAN BY DEF isJSONContentType
  <2> HIDE DEF json
  <2>3. CASE json = TRUE
    BY <1>2, <2>1, <2>3 DEF Link, LinkInv, Document
  <2>4. CASE json = FALSE
    BY <1>2, <2>1, <2>4 DEF Link, LinkInv, Document
  <2> QED BY <2>2, <2>3, <2>4
<1> HIDE DEF a, versions, new
<1>7. links' = [links EXCEPT ![c] = new] BY DEF handleMetadata, new, a, versions
<1>8. /\ links' \in [Client -> SUBSET Link]
      /\ \A d \in Client : \A l \in links'[d] : LinkInv(l)
  BY <1>6, <1>7 DEF IInv, TypeOK
<1>9. Continue(c, r) BY DEF handleMetadata, a
<1>10. r \in Request BY <1>1, <1>3 DEF Request
<1>11. RequestInv(r)
  BY <1>1, <1>10 DEF RequestInv, RouteInv, JudgementInv, Resolved, Requested, PastTheProxy,
        DecidedOn, Request
<1>12. /\ request' \in [Client -> Request]
       /\ \A d \in Client : RequestInv(request'[d])
  BY <1>9, <1>10, <1>11, ContinueKeeps
<1>13. UNCHANGED <<config, retired, bundle, tag, changes, moves, recentAllow, faults>>
  BY DEF handleMetadata, Administration
<1>14. TypeOK' BY <1>8, <1>12, <1>13 DEF IInv, TypeOK
<1>15. OwnInv(config)' /\ OwnInv(bundle)' BY <1>13 DEF IInv, OwnInv
<1> QED BY <1>8, <1>12, <1>14, <1>15 DEF IInv

LEMMA StreamStep ==
    ASSUME IInv, NEW c \in Client, NEW content \in Artifact,
           streamResponse(c, content),
           request[c].op \in {"tarball", "blob"} => content = Requested(request[c]),
           request[c].eco = "oci" /\ request[c].op = "manifest"
                /\ request[c].dec.art.ref # Tag => content = request[c].dec.art
    PROVE  IInv'
<1> DEFINE q == request[c]
           r == [q EXCEPT !.pc = "done", !.content = content]
<1>1. q \in Request /\ RequestInv(q) /\ q.pc = "fetch" BY Typing DEF streamResponse
<1>2. UNCHANGED Rest /\ UNCHANGED <<faults, recentAllow>>
  BY DEF streamResponse, Rest, Administration
<1>3. Continue(c, r) BY DEF streamResponse
<1>4. r \in Request BY <1>1 DEF Request
<1>5. RequestInv(r)
  BY <1>1, <1>4 DEF RequestInv, RouteInv, JudgementInv, Resolved, Requested, PastTheProxy,
        DecidedOn, Request
<1> QED BY <1>2, <1>3, <1>4, <1>5, ContinueKeeps, RequestStep, Typing

\* The administrator, the bundle provider and the registries leave requests
\* and links alone, and upstreams with their owners.
LEMMA SurroundingStep ==
    ASSUME IInv, UNCHANGED <<request, links, faults>>,
           config' \in [Tenant -> Configuration], OwnInv(config)',
           bundle' \in [Tenant -> Configuration], OwnInv(bundle)',
           retired' \in SUBSET Upstream, tag' \in [Upstream -> [Name -> Version]],
           recentAllow' \in SUBSET Tenant,
           changes' \in 0..MaxChanges, moves' \in 0..MaxMoves
    PROVE  IInv'
<1>1. TypeOK' BY DEF IInv, TypeOK
<1> QED BY <1>1 DEF IInv

LEMMA AdministratorStep ==
    ASSUME IInv,
           \/ \E u \in Upstream, eco \in Ecosystem : PutUpstream(u, eco)
           \/ \E u \in Upstream : DeleteUpstream(u)
           \/ \E t \in Tenant, d \in Denials : ChangePolicies(t, d)
    PROVE  IInv'
<1> USE ConstantsAssumption
<1>0. TypeOK /\ OwnInv(config) /\ OwnInv(bundle) BY DEF IInv
<1>1. ASSUME NEW u \in Upstream, NEW eco \in Ecosystem, PutUpstream(u, eco)
      PROVE  IInv'
  <2> DEFINE new == [id |-> u, eco |-> eco, at |-> changes']
             ups == {x \in config[Owner[u]].ups : x.id # u} \cup {new}
  <2>1. changes' \in 0..MaxChanges BY <1>0, <1>1 DEF PutUpstream, TypeOK
  <2>2. ups \in SUBSET UpstreamRecord
    BY <1>0, <2>1 DEF TypeOK, Configuration, UpstreamRecord
  <2>3. config' = [config EXCEPT ![Owner[u]].ups = ups] BY <1>1 DEF PutUpstream
  <2>4. \A x \in ups : Owner[x.id] = Owner[u] BY <1>0 DEF OwnInv
  <2> HIDE DEF ups
  <2>5. config' \in [Tenant -> Configuration]
    <3>1. Owner[u] \in Tenant OBVIOUS
    <3> HIDE ConstantsAssumption
    <3> QED BY <1>0, <2>2, <2>3, <3>1 DEF TypeOK, Configuration
  <2>6. OwnInv(config)'
    BY <1>0, <2>3, <2>4 DEF TypeOK, Configuration, OwnInv
  <2>7. UNCHANGED <<bundle, retired, tag, request, links, recentAllow, moves, faults>>
    BY <1>1 DEF PutUpstream
  <2> QED BY <1>0, <2>1, <2>5, <2>6, <2>7, SurroundingStep DEF TypeOK, OwnInv
<1>2. ASSUME NEW u \in Upstream, DeleteUpstream(u) PROVE IInv'
  <2> DEFINE ups == {x \in config[Owner[u]].ups : x.id # u}
  <2>1. changes' \in 0..MaxChanges BY <1>0, <1>2 DEF DeleteUpstream, TypeOK
  <2>2. ups \in SUBSET UpstreamRecord BY <1>0 DEF TypeOK, Configuration
  <2>3. config' = [config EXCEPT ![Owner[u]].ups = ups] BY <1>2 DEF DeleteUpstream
  <2>4. \A x \in ups : Owner[x.id] = Owner[u] BY <1>0 DEF OwnInv
  <2> HIDE DEF ups
  <2>5. config' \in [Tenant -> Configuration]
    <3>1. Owner[u] \in Tenant OBVIOUS
    <3> HIDE ConstantsAssumption
    <3> QED BY <1>0, <2>2, <2>3, <3>1 DEF TypeOK, Configuration
  <2>6. OwnInv(config)'
    BY <1>0, <2>3, <2>4 DEF TypeOK, Configuration, OwnInv
  <2>7. /\ UNCHANGED <<bundle, tag, request, links, recentAllow, moves, faults>>
        /\ retired' \in SUBSET Upstream
    BY <1>0, <1>2 DEF DeleteUpstream, TypeOK
  <2> QED BY <1>0, <2>1, <2>5, <2>6, <2>7, SurroundingStep DEF TypeOK, OwnInv
<1>3. ASSUME NEW t \in Tenant, NEW d \in Denials, ChangePolicies(t, d) PROVE IInv'
  <2>1. changes' \in 0..MaxChanges BY <1>0, <1>3 DEF ChangePolicies, TypeOK
  <2>2. config' = [config EXCEPT ![t].deny = d] BY <1>3 DEF ChangePolicies
  <2>0. d \in SUBSET Artifact OBVIOUS
  <2>3. config' \in [Tenant -> Configuration]
    <3> HIDE ConstantsAssumption
    <3> QED BY <1>0, <2>0, <2>2 DEF TypeOK, Configuration
  <2>4. OwnInv(config)' BY <1>0, <2>2 DEF TypeOK, Configuration, OwnInv
  <2>5. UNCHANGED <<bundle, retired, tag, request, links, recentAllow, moves, faults>>
    BY <1>3 DEF ChangePolicies
  <2> QED BY <1>0, <2>1, <2>3, <2>4, <2>5, SurroundingStep DEF TypeOK, OwnInv
<1> QED BY <1>1, <1>2, <1>3

LEMMA EnvironmentStep ==
    ASSUME IInv,
           \/ \E u \in Upstream, n \in Name, v \in Version : MoveTag(u, n, v)
           \/ \E t \in Tenant : RefreshBundle(t) \/ ExpireAllow(t)
    PROVE  IInv'
<1>0. TypeOK /\ OwnInv(config) /\ OwnInv(bundle) BY DEF IInv
<1>1. ASSUME NEW u \in Upstream, NEW n \in Name, NEW v \in Version, MoveTag(u, n, v)
      PROVE  IInv'
  <2>1. tag' \in [Upstream -> [Name -> Version]] /\ moves' \in 0..MaxMoves
    BY <1>0, <1>1, ConstantsAssumption DEF MoveTag, TypeOK
  <2>2. UNCHANGED <<config, retired, bundle, request, links, recentAllow, changes, faults>>
    BY <1>1 DEF MoveTag
  <2> QED BY <1>0, <2>1, <2>2, SurroundingStep DEF TypeOK, OwnInv
<1>2. ASSUME NEW t \in Tenant, RefreshBundle(t) PROVE IInv'
  <2>1. bundle' \in [Tenant -> Configuration] /\ OwnInv(bundle)'
    BY <1>0, <1>2 DEF RefreshBundle, TypeOK, OwnInv
  <2>2. UNCHANGED <<config, retired, tag, request, links, recentAllow, changes, moves, faults>>
    BY <1>2 DEF RefreshBundle
  <2> QED BY <1>0, <2>1, <2>2, SurroundingStep DEF TypeOK, OwnInv
<1>3. ASSUME NEW t \in Tenant, ExpireAllow(t) PROVE IInv'
  <2>1. recentAllow' \in SUBSET Tenant BY <1>0, <1>3 DEF ExpireAllow, TypeOK
  <2>2. UNCHANGED <<config, retired, bundle, tag, request, links, changes, moves, faults>>
    BY <1>3 DEF ExpireAllow
  <2> QED BY <1>0, <2>1, <2>2, SurroundingStep DEF TypeOK, OwnInv
<1> QED BY <1>1, <1>2, <1>3

\* A request that ends in an error response.
LEMMA FailureStep ==
    ASSUME IInv, NEW c \in Client, EvaluateFails(c) \/ FetchFails(c)
    PROVE  IInv'
<1>1. EndRequest(c) BY DEF EvaluateFails, FetchFails
<1>2. UNCHANGED Rest /\ UNCHANGED recentAllow /\ faults' \in 0..MaxFaults
  BY FaultType, Typing DEF EvaluateFails, FetchFails, Rest, Administration
<1> QED BY <1>1, <1>2, EndKeeps, RequestStep, Typing

LEMMA ServeStep ==
    ASSUME IInv, NEW c \in Client,
           streamTarball(c) \/ streamManifest(c) \/ streamBlob(c)
    PROVE  IInv'
<1> DEFINE q == request[c]
<1>1. q \in Request /\ RequestInv(q) /\ q.pc = "fetch"
  BY Typing DEF streamTarball, streamManifest, streamBlob, streamResponse
<1>2. q.up \in Upstream BY <1>1 DEF RequestInv, RouteInv, Resolved
<1>3. CASE streamTarball(c) \/ streamBlob(c)
  <2>1. q.op \in {"tarball", "blob"} /\ streamResponse(c, Requested(q))
    BY <1>3 DEF streamTarball, streamBlob
  <2>2. Requested(q) \in Artifact BY <1>1, RequestedArtifact
  <2> QED BY <2>1, <2>2, StreamStep
<1>4. CASE streamManifest(c)
  <2> DEFINE d == q.dec.art
             v == FetchMetadata(q.up, d)
  <2>1. streamResponse(c, v) /\ q.op = "manifest" /\ q.eco = "oci"
    BY <1>4 DEF streamManifest, manifestReference
  <2>2. d \in Artifact
    BY <1>1, <2>1 DEF RequestInv, RouteInv, JudgementInv, PastTheProxy, DecidedOn
  <2> HIDE DEF d
  <2>3. tag[q.up][d.name] \in Reference
    BY <1>2, <2>2 DEF IInv, TypeOK, Artifact, Reference
  <2>4. v \in Artifact /\ (d.ref # Tag => v = d)
    <3>1. CASE d.ref = Tag
      <4>1. v = [d EXCEPT !.ref = tag[q.up][d.name]] BY <3>1 DEF FetchMetadata
      <4> QED BY <2>2, <2>3, <3>1, <4>1 DEF Artifact
    <3>2. CASE d.ref # Tag
      BY <2>2, <3>2 DEF FetchMetadata
    <3> QED BY <3>1, <3>2
  <2> HIDE DEF v
  <2> QED BY <2>1, <2>4, StreamStep DEF d
<1> QED BY <1>3, <1>4

LEMMA ClientStep ==
    ASSUME IInv, NEW c \in Client,
           \/ \E route \in Routes, n \in Name :
                 \/ \E ref \in Reference \cup {None} : RouteNPM(c, route, n, ref)
                 \/ \E ref \in Reference : RouteTarball(c, route, n, ref)
                 \/ \E ref \in Reference : RouteManifest(c, route, n, ref)
                 \/ \E digest \in Version : RouteBlob(c, route, n, digest)
           \/ \E l \in links[c] : FollowLink(c, l)
    PROVE  IInv'
<1> USE DEF Ecosystem, Operation
<1>1. ASSUME NEW route \in Routes, NEW n \in Name, NEW ref \in Reference \cup {None},
             RouteNPM(c, route, n, ref)
      PROVE  IInv'
  <2>1. CASE ref = None
    <3>1. Arrive(c, route, "npm", "packument", n, ref) BY <1>1, <2>1 DEF RouteNPM
    <3> QED BY <3>1, ArriveStep
  <2>2. CASE ref # None
    <3>1. Arrive(c, route, "npm", "manifest", n, ref) BY <1>1, <2>2 DEF RouteNPM
    <3> QED BY <2>2, <3>1, ArriveStep
  <2> QED BY <2>1, <2>2
<1>2. ASSUME NEW route \in Routes, NEW n \in Name, NEW ref \in Reference,
             RouteTarball(c, route, n, ref)
      PROVE  IInv'
  <2>1. ref # None BY ConstantsAssumption
  <2>2. Arrive(c, route, "npm", "tarball", n, ref) BY <1>2 DEF RouteTarball
  <2> QED BY <2>1, <2>2, ArriveStep
<1>3. ASSUME NEW route \in Routes, NEW n \in Name, NEW ref \in Reference,
             RouteManifest(c, route, n, ref)
      PROVE  IInv'
  <2>1. ref # None BY ConstantsAssumption
  <2>2. Arrive(c, route, "oci", "manifest", n, ref) BY <1>3 DEF RouteManifest
  <2> QED BY <2>1, <2>2, ArriveStep
<1>4. ASSUME NEW route \in Routes, NEW n \in Name, NEW digest \in Version,
             RouteBlob(c, route, n, digest)
      PROVE  IInv'
  <2>1. digest # None /\ digest \in Reference \cup {None}
    BY ConstantsAssumption DEF Reference
  <2>2. Arrive(c, route, "oci", "blob", n, digest) BY <1>4 DEF RouteBlob
  <2> QED BY <2>1, <2>2, ArriveStep
<1> QED BY <1>1, <1>2, <1>3, <1>4, FollowStep

LEMMA NextInvariant == IInv /\ [Next]_vars => IInv'
<1> SUFFICES ASSUME IInv, [Next]_vars PROVE IInv' OBVIOUS
<1>1. CASE UNCHANGED vars
  BY <1>1 DEF vars, IInv, TypeOK, OwnInv
<1>2. ASSUME NEW c \in Client, NEW ok \in BOOLEAN,
             \/ startNPMRequest(c, ok) \/ handleManifest(c, ok)
             \/ Evaluate(c, ok)
             \/ authorizeMetadata(c, ok) \/ authorizeTarball(c, ok)
             \/ authorizeManifest(c, ok)
             \/ authorizeBlob(c, ok) \/ handleBlob(c, ok)
      PROVE  IInv'
  <2>1. CASE startNPMRequest(c, ok)
    <3>1. request[c].op # "blob"
      BY <2>1, Typing DEF startNPMRequest, RequestInv, JudgementInv
    <3> QED BY <2>1, <3>1, StartStep DEF startNPMRequest
  <2>2. CASE handleManifest(c, ok)
    BY <2>2, StartStep DEF handleManifest
  <2>3. CASE authorizeMetadata(c, ok) \/ authorizeTarball(c, ok) \/ authorizeManifest(c, ok)
    BY <2>3, AuthorizeStep DEF authorizeMetadata, authorizeTarball, authorizeManifest
  <2> QED BY <1>2, <2>1, <2>2, <2>3, EvaluateStep, AuthorizeBlobStep, HandleBlobStep
<1>3. CASE Next
  BY <1>2, <1>3, ClientStep, FailureStep, MetadataStep, ServeStep, AdministratorStep,
     EnvironmentStep DEF Next
<1> QED BY <1>1, <1>3

THEOREM Invariance == Spec => []IInv
BY InitInvariant, NextInvariant, PTL DEF Spec

\* Every variable of the handlers keeps its type.
THEOREM HandlersTypeCorrect == Spec => []TypeOK
<1>1. IInv => TypeOK BY DEF IInv
<1> QED BY Invariance, <1>1, PTL

\* Artifacts that agree on the reference and on the lower-cased name.
LEMMA SameUpToCase ==
    ASSUME NEW a \in Artifact, NEW b \in Artifact,
           a.ref = b.ref, ToLower[a.name] = ToLower[b.name]
    PROVE  SameArtifact(a, b)
<1>1. NormalizeArtifactIdentity(a) = [name |-> ToLower[a.name], ref |-> a.ref]
  BY DEF NormalizeArtifactIdentity, Artifact
<1>2. NormalizeArtifactIdentity(b) = [name |-> ToLower[b.name], ref |-> b.ref]
  BY DEF NormalizeArtifactIdentity, Artifact
<1> QED BY <1>1, <1>2 DEF SameArtifact

\* What IInv says of judged content, in both of its forms.
LEMMA JudgedContent ==
    ASSUME IInv, NEW c \in Client, Judged(request[c])
    PROVE  /\ request[c].op \in {"tarball", "manifest"} /\ ~PastTheProxy(request[c])
           /\ request[c].dec.outcome = "allow"
           /\ request[c].dec.art \in Artifact
           /\ SameArtifact(request[c].content, request[c].dec.art)
           /\ request[c].op = "manifest" => request[c].content = request[c].dec.art
<1> DEFINE r == request[c]
<1>1. r \in Request /\ RequestInv(r) /\ r.pc = "done" BY Typing DEF Judged
<1>2. r.op \in {"tarball", "manifest"} /\ ~PastTheProxy(r)
  BY <1>1 DEF Judged, RequestInv, RouteInv
<1>3. r.dec.outcome = "allow" /\ DecidedOn(r) BY <1>1, <1>2 DEF RequestInv, JudgementInv
<1>4. CASE r.op = "tarball"
  <2>1. r.content = Requested(r) /\ r.ref # Tag
    BY <1>1, <1>4 DEF RequestInv, JudgementInv, Judged
  <2>2. Requested(r) \in Artifact BY <1>1, RequestedArtifact
  <2>3. Requested(r).ref = r.dec.art.ref BY <1>3, <2>1 DEF Requested, DecidedOn
  <2>4. ToLower[Requested(r).name] = ToLower[r.dec.art.name]
    BY <1>1, <1>3, ConstantsAssumption DEF Requested, DecidedOn, RequestInv, RouteInv
  <2>5. SameArtifact(Requested(r), r.dec.art)
    BY <1>3, <2>2, <2>3, <2>4, SameUpToCase DEF DecidedOn
  <2> QED BY <1>2, <1>3, <1>4, <2>1, <2>5 DEF DecidedOn
<1>5. CASE r.op = "manifest"
  <2>1. r.content = r.dec.art BY <1>1, <1>5 DEF RequestInv, JudgementInv, Judged
  <2>2. SameArtifact(r.content, r.dec.art) BY <2>1 DEF SameArtifact
  <2> QED BY <1>2, <1>3, <2>1, <2>2 DEF DecidedOn
<1> QED BY <1>2, <1>4, <1>5

\* Tarballs of a version and manifests that clients end up with are the ones
\* that were judged, up to the letter case of a tarball's name, however tags
\* move and whichever links are followed.
THEOREM ObtainedIsJudged == Spec => []ObtainedWasJudged
<1>1. IInv => ObtainedWasJudged
  BY JudgedContent DEF ObtainedWasJudged
<1> QED BY Invariance, <1>1, PTL

\* A link of a JSON document leads back to the tenant and the upstream of its
\* document, and no tenant is served from the upstream of another.
THEOREM RoutesAreKept == Spec => []LinksKeepRoute
<1>1. IInv => LinksKeepRoute
  <2> SUFFICES ASSUME IInv, NEW c \in Client, request[c].pc = "done"
               PROVE  /\ request[c].from # None /\ ~PastTheProxy(request[c]) =>
                            /\ request[c].tenant = request[c].from.tenant
                            /\ request[c].up = request[c].from.up
                      /\ request[c].up # None => Owner[request[c].up] = request[c].tenant
    BY DEF LinksKeepRoute
  <2>1. request[c] \in Request /\ RequestInv(request[c]) BY Typing
  <2>2. request[c].from # None => request[c].from.up # None
    BY <2>1, ConstantsAssumption DEF Request, Document
  <2> QED BY <2>1, <2>2 DEF RequestInv, RouteInv, Resolved
<1> QED BY Invariance, <1>1, PTL

\* In fail_closed mode everything served on a verdict is on record under the
\* name, up to letter case, and the version or digest that was served.
THEOREM ServedContentIsOnRecord == Spec => []ServedIsOnRecord
<1>1. IInv => ServedIsOnRecord
  <2> SUFFICES ASSUME IInv, FailClosed, NEW c \in Client,
                      Judged(request[c]) \/ (request[c].pc = "done" /\ request[c].op = "blob")
               PROVE  /\ request[c].recorded # None
                      /\ SameArtifact(request[c].recorded, request[c].content)
    BY DEF ServedIsOnRecord
  <2> DEFINE r == request[c]
  <2>1. r \in Request /\ RequestInv(r) /\ r.pc = "done" BY Typing DEF Judged
  <2>2. CASE Judged(r)
    <3>1. /\ r.op # "blob" /\ ~PastTheProxy(r) /\ r.dec.art \in Artifact
          /\ SameArtifact(r.content, r.dec.art)
      BY <2>2, JudgedContent
    <3>2. r.recorded = r.dec.art BY <2>1, <3>1 DEF RequestInv, JudgementInv
    <3> QED BY <3>1, <3>2, ConstantsAssumption DEF SameArtifact
  <2>3. CASE r.op = "blob"
    <3>1. ~PastTheProxy(r) BY <2>1, <2>3 DEF RequestInv, RouteInv
    <3>2. r.recorded = Requested(r) /\ r.content = Requested(r)
      BY <2>1, <2>3, <3>1 DEF RequestInv, JudgementInv
    <3>3. Requested(r) \in Artifact BY <2>1, RequestedArtifact
    <3> QED BY <3>2, <3>3, ConstantsAssumption DEF SameArtifact
  <2> QED BY <2>2, <2>3
<1> QED BY Invariance, <1>1, PTL
=============================================================================
