----------------------- MODULE AccessPipeline_proofs -----------------------
(***************************************************************************)
(* The safety properties of AccessPipeline for every value of its          *)
(* constants, from one inductive invariant.                                *)
(***************************************************************************)
EXTENDS AccessPipeline, TLAPS

\* An allow is the evaluator's verdict, under a valid set the tenant had, on the
\* artifact and in the context the decision carries.
DecisionSound(d) ==
    d.outcome = "allow" =>
        /\ d.version \in 1..Len(history)
        /\ ValidatePolicies(history[d.version])
        /\ Admits(d.version, d.ctx)
        /\ Allows(d)

Loaded == {"store", "prepare", "context", "lookupGen", "lookupKey",
           "evaluate", "setGen", "setKey", "record", "respond"}
Validated == {"context", "lookupGen", "lookupKey", "evaluate"}
Decided == {"setGen", "setKey", "record", "respond"}

\* Metadata.IsMutableTag of a resolved artifact: it was asked for by an OCI tag.
MutableTag(a) == a.ecosystem = "oci" /\ a.version # None

\* What holds of one request q at each stage.
RequestInv(q) ==
    /\ q.snap <= Len(history)
    /\ q.pc \in Loaded => q.snap \in 1..Len(history)
    /\ q.pc \in Validated => ValidatePolicies(history[q.snap])
    /\ q.pc \in Decided =>
          /\ DecisionSound(q.dec)
          /\ q.dec.outcome = "allow" =>
                /\ ValidatePolicies(history[q.snap])
                /\ CacheKey(q.dec.art) = CacheKey(q.art)
                /\ q.dec.ctx = q.ctx
    /\ q.pc = "resolve" => ~q.mutableTag /\ (q.art.ecosystem = "oci" => q.art.version # None)
    /\ q.pc \notin {"idle", "resolve"} => q.mutableTag = MutableTag(q.art)
    /\ q.pc = "context" => q.art.ecosystem = "npm"
    /\ q.art.ecosystem = "oci" => q.ctx = "none"
    /\ q.startGen <= generation
    /\ q.pc = "lookupKey" => q.startGen <= q.gen
    /\ q.pc # "respond" => q.hit = -1
    /\ q.hit # -1 => q.startGen <= q.hit

IInv ==
    /\ TypeOK
    /\ bundle.version <= Len(history)
    /\ \A e \in cache : DecisionSound(e.dec)
    /\ \A r \in Req : RequestInv(req[r])
    /\ BlobGateJustified
-----------------------------------------------------------------------------
(* Lemmas about the operators.                                             *)

\* Request goroutine r continues in a state that satisfies its invariant.
Moves(r) == \E q \in Request : RequestInv(q) /\ req' = [req EXCEPT ![r] = q]

\* The zero values are well typed.
LEMMA IdleTyped ==
    IdleRequest \in Request /\ NoArtifact \in Artifact /\ NoDecision \in Decision
<1>1. NoArtifact \in Artifact
  BY DEF NoArtifact, Artifact
<1>2. NoDecision \in Decision
  BY <1>1, ConstantsAssumption DEF NoDecision, Decision, Versions, Contexts
<1>3. (CHOOSE u \in Upstreams : TRUE) \in Upstreams
  BY ConstantsAssumption
<1>4. QED
  BY <1>1, <1>2, <1>3, ConstantsAssumption
  DEF IdleRequest, Request, Stages, Versions, Contexts, Generations

\* A request that has not started satisfies its invariant.
LEMMA IdleInv == ASSUME TypeOK PROVE RequestInv(IdleRequest)
  BY DEF TypeOK, RequestInv, IdleRequest, Loaded, Validated, Decided,
         Generations, NoArtifact

\* Normalization of a routed artifact yields an artifact.
LEMMA NormalizeTyped ==
    ASSUME NEW a \in RawArtifacts PROVE NormalizeArtifactIdentity(a) \in Artifact
  BY DEF RawArtifacts, NormalizeArtifactIdentity, Artifact, Refs

\* If the evaluator allows, no tenant-wide name rule of the set applies.
LEMMA AllowAdmits ==
    ASSUME NEW v, NEW u, NEW a, NEW mt, NEW meta, NEW c,
           Outcome(FilterPoliciesForUpstream(history[v], u), a, mt, meta, c) = "allow"
    PROVE  Admits(v, c)
<1>1. SUFFICES ASSUME NEW p \in history[v], p.type = "denylist",
                      p.upstream = AnyUpstream
               PROVE  TargetMode(p, c) # "apply"
  BY DEF Admits
<1>2. p \in FilterPoliciesForUpstream(history[v], u)
  BY <1>1 DEF FilterPoliciesForUpstream
<1>3. Matches(p, a, mt, meta)
  BY <1>1 DEF Matches
<1>4. QED
  BY <1>2, <1>3 DEF Outcome

\* A step of one request keeps the invariant of all.
LEMMA MovesKeeps ==
    ASSUME TypeOK, \A r \in Req : RequestInv(req[r]),
           NEW r \in Req, Moves(r), UNCHANGED <<history, generation>>
    PROVE  req' \in [Req -> Request] /\ (\A s \in Req : RequestInv(req[s]))'
<1>1. PICK q \in Request : RequestInv(q) /\ req' = [req EXCEPT ![r] = q]
  BY DEF Moves
<1>2. req' \in [Req -> Request]
  BY <1>1 DEF TypeOK
<1>3. ASSUME NEW s \in Req PROVE RequestInv(req'[s])
  <2>1. CASE s = r
    BY <1>1, <2>1 DEF TypeOK
  <2>2. CASE s # r
    BY <1>1, <2>2 DEF TypeOK
  <2>3. QED
    BY <2>1, <2>2
<1>4. QED
  BY <1>2, <1>3 DEF RequestInv, DecisionSound, Admits, Allows

\* A fault keeps its counter within its bound.
LEMMA FaultTyped ==
    ASSUME TypeOK, NEW ok \in BOOLEAN, Fault(ok) PROVE faults' \in 0..MaxFaults
  BY ConstantsAssumption DEF TypeOK, Fault

\* Steps of a request that change nothing else keep the invariant.
LEMMA ReqStepKeeps ==
    ASSUME IInv, NEW r \in Req, Moves(r), faults' \in 0..MaxFaults,
           UNCHANGED <<history, admin, generation, cache, bundle, recentAllow, covered>>
    PROVE  IInv'
<1>1. TypeOK /\ \A s \in Req : RequestInv(req[s])
  BY DEF IInv
<1>2. req' \in [Req -> Request] /\ (\A s \in Req : RequestInv(req[s]))'
  BY <1>1, MovesKeeps
<1>3. TypeOK'
  BY <1>1, <1>2 DEF TypeOK
<1>4. (\A e \in cache : DecisionSound(e.dec))'
  BY DEF IInv, DecisionSound, Admits, Allows
<1>5. BlobGateJustified'
  BY DEF IInv, BlobGateJustified, Admits, Allows
<1>6. QED
  BY <1>2, <1>3, <1>4, <1>5 DEF IInv

-----------------------------------------------------------------------------
(* One lemma per stage of Evaluate.                                     *)

\* Values that requests store are within their types.
LEMMA InRange ==
    ASSUME TypeOK
    PROVE  0 \in Generations /\ generation \in Generations /\ Len(history) \in Versions
  BY ConstantsAssumption DEF TypeOK, Generations, Versions

\* The stages that follow the policy set and the decision.
LEMMA StagesAfter ==
    ASSUME NEW a, NEW o
    PROVE  LookupStage(a) \in {"lookupGen", "evaluate"} /\ FinalizeStage(a, o) \in Decided
  BY DEF LookupStage, FinalizeStage, Decided

\* Arrival of a request.
LEMMA NormalizeKeeps ==
    ASSUME IInv, NEW r \in Req, NEW raw \in RawArtifacts,
           NEW u \in Upstreams, NEW ok \in BOOLEAN,
           NormalizeAccessRequest(r, raw, u, ok) PROVE IInv'
<1>. DEFINE next == [IdleRequest EXCEPT
        !.pc = IF \/ /\ NormalizeArtifactIdentity(raw).ecosystem = "oci"
                     /\ IsMutableReference(NormalizeArtifactIdentity(raw))
                  \/ IsNPMDistTag(NormalizeArtifactIdentity(raw))
               THEN "resolve" ELSE "load",
        !.art = NormalizeArtifactIdentity(raw), !.up = u, !.startGen = generation]
<1>1. TypeOK /\ req[r] \in Request /\ RequestInv(req[r]) /\ RequestInv(IdleRequest)
  BY IdleInv DEF IInv, TypeOK
<1>2. next \in Request
  BY <1>1, IdleTyped, NormalizeTyped, ConstantsAssumption DEF Request, Stages, TypeOK
<1>3. RequestInv(next)
  <2>1. /\ next.pc \in {"resolve", "load"} /\ next.snap = 0 /\ next.mutableTag = FALSE
        /\ next.art = NormalizeArtifactIdentity(raw) /\ next.ctx = "none"
        /\ next.hit = -1 /\ next.startGen = generation
    BY <1>1, IdleTyped DEF IdleRequest
  <2>2. CASE next.pc = "resolve"
    <3>1. next.art.ecosystem = "oci" => next.art.version # None
      BY <2>1, <2>2 DEF IsMutableReference, IsNPMDistTag, IdleRequest
    <3>2. QED
      BY <1>1, <2>1, <2>2, <3>1
      DEF RequestInv, Loaded, Validated, Decided, TypeOK, Generations
  <2>3. CASE next.pc = "load"
    <3>1. ~(next.art.ecosystem = "oci" /\ IsMutableReference(next.art))
      BY <2>1, <2>3 DEF IdleRequest
    <3>2. next.art.ecosystem = "oci" => next.art.version = None
      <4>1. CASE raw.ecosystem = "oci" /\ raw.version \in OCIDigests
        <5>1. NormalizeArtifactIdentity(raw) =
                  [raw EXCEPT !.digest = raw.version, !.version = None]
          BY <4>1 DEF NormalizeArtifactIdentity
        <5>2. NormalizeArtifactIdentity(raw).version = None
          BY <5>1 DEF RawArtifacts
        <5>3. QED
          BY <2>1, <5>2
      <4>2. CASE ~(raw.ecosystem = "oci" /\ raw.version \in OCIDigests)
        BY <2>1, <3>1, <4>2 DEF IsMutableReference, NormalizeArtifactIdentity, RawArtifacts
      <4>3. QED
        BY <4>1, <4>2
    <3>3. MutableTag(next.art) = FALSE
      BY <3>2 DEF MutableTag
    <3>4. next.mutableTag = MutableTag(next.art)
      BY <2>1, <3>3
    <3>5. QED
      BY <1>1, <2>1, <2>3, <3>4
      DEF RequestInv, Loaded, Validated, Decided, TypeOK, Generations
  <2>4. QED
    BY <2>1, <2>2, <2>3
<1>4. Moves(r)
  BY <1>1, <1>2, <1>3, IdleTyped DEF Moves, NormalizeAccessRequest, RecordAudit, Continue, EndRequest
<1>5. faults' \in 0..MaxFaults
  BY <1>1, FaultTyped DEF NormalizeAccessRequest
<1>6. QED
  BY <1>4, <1>5, ReqStepKeeps DEF NormalizeAccessRequest

\* An OCI tag gets its digest.
LEMMA ResolveOCIKeeps ==
    ASSUME IInv, NEW r \in Req, NEW d \in OCIDigests, NEW ok \in BOOLEAN,
           ResolveOCITag(r, d, ok) PROVE IInv'
<1>. DEFINE next == [req[r] EXCEPT !.pc = "load", !.mutableTag = TRUE, !.art.digest = d]
<1>1. TypeOK /\ req[r] \in Request /\ RequestInv(req[r]) /\ RequestInv(IdleRequest)
  BY IdleInv DEF IInv, TypeOK
<1>2. next \in Request
  BY <1>1, ConstantsAssumption DEF Request, Stages, Artifact
<1>3. RequestInv(next)
  <2>1. /\ next.pc = "load" /\ next.snap = req[r].snap /\ next.mutableTag = TRUE
        /\ next.ctx = req[r].ctx /\ next.hit = req[r].hit
        /\ next.startGen = req[r].startGen
        /\ next.art.ecosystem = req[r].art.ecosystem
        /\ next.art.version = req[r].art.version
    BY <1>1 DEF Request, Artifact
  <2>2. /\ req[r].pc = "resolve" /\ req[r].art.ecosystem = "oci"
        /\ req[r].art.version # None
    BY <1>1 DEF RequestInv, ResolveOCITag
  <2>3. QED
    BY <1>1, <2>1, <2>2 DEF RequestInv, Loaded, Validated, Decided, MutableTag
<1>4. Moves(r)
  BY <1>1, <1>2, <1>3, IdleTyped DEF Moves, ResolveOCITag, RecordAudit, Continue, EndRequest
<1>5. faults' \in 0..MaxFaults
  BY <1>1, FaultTyped DEF ResolveOCITag
<1>6. QED
  BY <1>4, <1>5, ReqStepKeeps DEF ResolveOCITag

\* An npm dist-tag becomes a version.
LEMMA ResolveNPMKeeps ==
    ASSUME IInv, NEW r \in Req, NEW v \in NPMVersions, NEW ok \in BOOLEAN,
           ResolveNPMDistTag(r, v, ok) PROVE IInv'
<1>. DEFINE next == [req[r] EXCEPT !.pc = "load", !.art.version = v]
<1>1. TypeOK /\ req[r] \in Request /\ RequestInv(req[r]) /\ RequestInv(IdleRequest)
  BY IdleInv DEF IInv, TypeOK
<1>2. next \in Request
  BY <1>1, ConstantsAssumption DEF Request, Stages, Artifact, Refs
<1>3. RequestInv(next)
  <2>1. /\ next.pc = "load" /\ next.snap = req[r].snap
        /\ next.mutableTag = req[r].mutableTag
        /\ next.ctx = req[r].ctx /\ next.hit = req[r].hit
        /\ next.startGen = req[r].startGen
        /\ next.art.ecosystem = req[r].art.ecosystem
    BY <1>1 DEF Request, Artifact
  <2>2. /\ req[r].pc = "resolve" /\ req[r].art.ecosystem = "npm"
        /\ req[r].mutableTag = FALSE
    BY <1>1 DEF RequestInv, ResolveNPMDistTag, Request
  <2>3. MutableTag(next.art) = FALSE
    BY <2>1, <2>2 DEF MutableTag
  <2>4. next.mutableTag = MutableTag(next.art)
    BY <2>1, <2>2, <2>3
  <2>5. QED
    BY <1>1, <2>1, <2>2, <2>4 DEF RequestInv, Loaded, Validated, Decided
<1>4. Moves(r)
  BY <1>1, <1>2, <1>3, IdleTyped DEF Moves, ResolveNPMDistTag, RecordAudit, Continue, EndRequest
<1>5. faults' \in 0..MaxFaults
  BY <1>1, FaultTyped DEF ResolveNPMDistTag
<1>6. QED
  BY <1>4, <1>5, ReqStepKeeps DEF ResolveNPMDistTag

\* Resolution fails and the tag stays.
LEMMA FallBackKeeps ==
    ASSUME IInv, NEW r \in Req, ResolveFallsBackToTag(r) PROVE IInv'
<1>. DEFINE next == [req[r] EXCEPT !.pc = "load",
                                  !.mutableTag = req[r].art.ecosystem = "oci"]
<1>1. TypeOK /\ req[r] \in Request /\ RequestInv(req[r]) /\ RequestInv(IdleRequest)
  BY IdleInv DEF IInv, TypeOK
<1>2. next \in Request
  BY <1>1, ConstantsAssumption DEF Request, Stages
<1>3. RequestInv(next)
  <2>1. /\ next.pc = "load" /\ next.snap = req[r].snap
        /\ next.mutableTag = (req[r].art.ecosystem = "oci")
        /\ next.ctx = req[r].ctx /\ next.hit = req[r].hit
        /\ next.startGen = req[r].startGen /\ next.art = req[r].art
    BY <1>1 DEF Request
  <2>2. req[r].pc = "resolve" /\ (req[r].art.ecosystem = "oci" => req[r].art.version # None)
    BY <1>1 DEF RequestInv, ResolveFallsBackToTag
  <2>3. QED
    BY <1>1, <2>1, <2>2 DEF RequestInv, Loaded, Validated, Decided, MutableTag
<1>4. Moves(r)
  BY <1>1, <1>2, <1>3, IdleTyped DEF Moves, ResolveFallsBackToTag, Continue, EndRequest
<1>5. faults' \in 0..MaxFaults
  BY <1>1, FaultTyped DEF ResolveFallsBackToTag
<1>6. QED
  BY <1>4, <1>5, ReqStepKeeps DEF ResolveFallsBackToTag

\* A fresh bundle is served, any other is refreshed.
LEMMA LoadKeeps ==
    ASSUME IInv, NEW r \in Req, LoadCachedBundle(r) PROVE IInv'
<1>. DEFINE next == [req[r] EXCEPT
        !.pc = IF bundle.version # 0 /\ bundle.fresh /\ ~AlwaysRefresh
               THEN "prepare" ELSE "fetch",
        !.snap = bundle.version]
<1>1. TypeOK /\ req[r] \in Request /\ RequestInv(req[r]) /\ RequestInv(IdleRequest)
  BY IdleInv DEF IInv, TypeOK
<1>2. next \in Request
  BY <1>1, ConstantsAssumption DEF Request, Stages, TypeOK
<1>3. RequestInv(next)
  BY <1>1 DEF RequestInv, Loaded, Validated, Decided, IInv, TypeOK, Request, Versions, LoadCachedBundle
<1>4. Moves(r)
  BY <1>1, <1>2, <1>3, IdleTyped DEF Moves, LoadCachedBundle, Continue, EndRequest
<1>5. faults' \in 0..MaxFaults
  BY <1>1, FaultTyped DEF TypeOK, LoadCachedBundle
<1>6. QED
  BY <1>4, <1>5, ReqStepKeeps DEF TypeOK, LoadCachedBundle

\* A fetched bundle, or the last-known-good one.
LEMMA FetchKeeps ==
    ASSUME IInv, NEW r \in Req, NEW ok \in BOOLEAN, FetchTenantBundle(r, ok) PROVE IInv'
<1>. DEFINE fetched == [req[r] EXCEPT !.pc = "store", !.snap = Len(history)]
            lkg == [req[r] EXCEPT !.pc = "prepare"]
<1>1. /\ TypeOK /\ req[r] \in Request /\ req[r].pc = "fetch"
      /\ RequestInv(req[r]) /\ RequestInv(IdleRequest)
  BY IdleInv DEF IInv, TypeOK, FetchTenantBundle
<1>2. fetched \in Request /\ lkg \in Request
  BY <1>1, InRange DEF Request, Stages
<1>3. RequestInv(fetched)
  BY <1>1 DEF TypeOK, Request, RequestInv, Loaded, Validated, Decided
<1>4. req[r].snap # 0 => RequestInv(lkg)
  BY <1>1 DEF TypeOK, Request, Versions, RequestInv, Loaded, Validated, Decided
<1>5. Moves(r)
  BY <1>1, <1>2, <1>3, <1>4, IdleTyped DEF Moves, FetchTenantBundle, Continue, EndRequest
<1>6. faults' \in 0..MaxFaults
  BY <1>1, FaultTyped DEF FetchTenantBundle
<1>7. QED
  BY <1>5, <1>6, ReqStepKeeps DEF FetchTenantBundle

\* The policy set is validated before anything else.
LEMMA PrepareKeeps ==
    ASSUME IInv, NEW r \in Req, NEW ok \in BOOLEAN, PreparePolicySet(r, ok) PROVE IInv'
<1>. DEFINE dec == [outcome |-> "deny", version |-> req[r].snap,
                    art |-> req[r].art, ctx |-> "none"]
            denied == [req[r] EXCEPT !.pc = FinalizeStage(req[r].art, "deny"),
                                     !.dec = dec]
            valid == [req[r] EXCEPT
                !.pc = IF ShouldResolveDependencyContext(req[r].art, PolicySet(r))
                       THEN "context" ELSE LookupStage(req[r].art)]
<1>1. /\ TypeOK /\ req[r] \in Request /\ req[r].pc = "prepare"
      /\ RequestInv(req[r]) /\ RequestInv(IdleRequest)
  BY IdleInv DEF IInv, TypeOK, PreparePolicySet
<1>2. dec \in Decision
  BY <1>1 DEF Request, Decision, Contexts
<1>3. FinalizeStage(req[r].art, "deny") \in Stages \cap Decided
  BY StagesAfter DEF Stages, Decided
<1>4. denied \in Request
  BY <1>1, <1>2, <1>3 DEF Request
<1>5. RequestInv(denied)
  BY <1>1, <1>3 DEF Request, DecisionSound, RequestInv, Loaded, Validated, Decided
<1>6. valid \in Request
  BY <1>1, StagesAfter DEF Request, Stages
<1>7. ValidatePolicies(history[req[r].snap]) => RequestInv(valid)
  BY <1>1, StagesAfter
  DEF Request, ShouldResolveDependencyContext, RequestInv, Loaded, Validated, Decided
<1>8. Moves(r)
  BY <1>1, <1>4, <1>5, <1>6, <1>7, IdleTyped
  DEF Moves, PreparePolicySet, RecordAudit, Continue, EndRequest
<1>9. faults' \in 0..MaxFaults
  BY <1>1, FaultTyped DEF PreparePolicySet
<1>10. QED
  BY <1>8, <1>9, ReqStepKeeps DEF PreparePolicySet

\* The dependency context is attached.
LEMMA AttachKeeps ==
    ASSUME IInv, NEW r \in Req, NEW c \in Scopes \cup {"unknown"},
           NEW ok \in BOOLEAN, AttachDependencyContext(r, c, ok) PROVE IInv'
<1>. DEFINE next == [req[r] EXCEPT !.pc = LookupStage(req[r].art), !.ctx = c]
<1>1. TypeOK /\ req[r] \in Request /\ RequestInv(req[r]) /\ RequestInv(IdleRequest)
  BY IdleInv DEF IInv, TypeOK
<1>2. next \in Request
  BY <1>1, StagesAfter, ConstantsAssumption DEF Request, Stages, Contexts
<1>3. RequestInv(next)
  BY <1>1, StagesAfter DEF RequestInv, Loaded, Validated, Decided, Request, AttachDependencyContext
<1>4. Moves(r)
  BY <1>1, <1>2, <1>3, IdleTyped DEF Moves, AttachDependencyContext, RecordAudit, Continue, EndRequest
<1>5. faults' \in 0..MaxFaults
  BY <1>1, FaultTyped DEF AttachDependencyContext
<1>6. QED
  BY <1>4, <1>5, ReqStepKeeps DEF AttachDependencyContext

\* The reader fetches the generation.
LEMMA LookupGenKeeps ==
    ASSUME IInv, NEW r \in Req, NEW ok \in BOOLEAN, LookupGeneration(r, ok) PROVE IInv'
<1>. DEFINE found == [req[r] EXCEPT !.pc = "lookupKey", !.gen = generation]
<1>. DEFINE failed == [req[r] EXCEPT !.pc = "evaluate"]
<1>1. TypeOK /\ req[r] \in Request /\ RequestInv(req[r]) /\ RequestInv(IdleRequest)
  BY IdleInv DEF IInv, TypeOK
<1>2. found \in Request /\ failed \in Request
  BY <1>1, ConstantsAssumption DEF Request, Stages, TypeOK
<1>3. Moves(r)
  BY <1>1, <1>2, IdleTyped
  DEF Moves, LookupGeneration, Continue, EndRequest, RequestInv, Loaded, Validated, Decided, Request
<1>4. faults' \in 0..MaxFaults
  BY <1>1, FaultTyped DEF LookupGeneration
<1>5. QED
  BY <1>3, <1>4, ReqStepKeeps DEF LookupGeneration

\* Equal keys agree on generation, context and artifact cache key.
LEMMA KeyInjective ==
    ASSUME NEW g, NEW a, NEW c, NEW h, NEW b, NEW d, DecisionKey(g, a, c) = DecisionKey(h, b, d)
    PROVE  g = h /\ c = d /\ CacheKey(a) = CacheKey(b)
  BY DEF DecisionKey

\* The reader fetches the entry and replays it, or misses.
LEMMA LookupEntryKeeps ==
    ASSUME IInv, NEW r \in Req, NEW ok \in BOOLEAN, LookupEntry(r, ok) PROVE IInv'
<1>. DEFINE key == DecisionKey(req[r].gen, req[r].art, req[r].ctx)
            hit(e) == [req[r] EXCEPT !.pc = "respond", !.gen = 0,
                                     !.dec = e.dec, !.hit = e.gen]
            miss == [req[r] EXCEPT !.pc = "evaluate", !.gen = 0]
<1>1. TypeOK /\ req[r] \in Request /\ RequestInv(req[r]) /\ RequestInv(IdleRequest)
  BY IdleInv DEF IInv, TypeOK
<1>2. ASSUME RecordAudit(r, ok, miss) PROVE Moves(r)
  <2>1. miss \in Request
    BY <1>1, InRange DEF Request, Stages
  <2>2. RequestInv(miss)
    BY <1>1 DEF LookupEntry, Request, RequestInv, Loaded, Validated, Decided
  <2>3. QED
    BY <1>1, <1>2, <2>1, <2>2, IdleTyped DEF Moves, RecordAudit, Continue, EndRequest
<1>3. ASSUME \E e \in cache : EntryKey(e) = key /\ RecordAudit(r, ok, hit(e))
      PROVE  Moves(r)
  <2>1. PICK e \in cache : EntryKey(e) = key /\ RecordAudit(r, ok, hit(e))
    BY <1>3
  <2>2. e \in Entry /\ DecisionSound(e.dec)
    BY <1>1 DEF IInv, TypeOK
  <2>3. /\ e.gen = req[r].gen /\ e.dec.ctx = req[r].ctx
        /\ CacheKey(e.dec.art) = CacheKey(req[r].art)
    BY <2>1, KeyInjective DEF EntryKey
  <2>4. hit(e) \in Request
    BY <1>1, <2>2, InRange DEF Entry, Request, Stages
  <2>5. RequestInv(hit(e))
    BY <1>1, <2>2, <2>3
    DEF LookupEntry, Entry, Request, RequestInv, Loaded, Validated, Decided, Generations
  <2>6. QED
    BY <1>1, <2>1, <2>4, <2>5, IdleTyped DEF Moves, RecordAudit, Continue, EndRequest
<1>4. Moves(r)
  BY <1>2, <1>3 DEF LookupEntry
<1>5. faults' \in 0..MaxFaults
  BY <1>1, FaultTyped DEF LookupEntry
<1>6. QED
  BY <1>4, <1>5, ReqStepKeeps DEF LookupEntry

\* The entry cannot be read.
LEMMA LookupFailsKeeps ==
    ASSUME IInv, NEW r \in Req, LookupEntryFails(r) PROVE IInv'
<1>. DEFINE next == [req[r] EXCEPT !.pc = "evaluate", !.gen = 0]
<1>1. TypeOK /\ req[r] \in Request /\ RequestInv(req[r]) /\ RequestInv(IdleRequest)
  BY IdleInv DEF IInv, TypeOK
<1>2. next \in Request
  BY <1>1, InRange, ConstantsAssumption DEF Request, Stages
<1>3. RequestInv(next)
  BY <1>1 DEF RequestInv, Loaded, Validated, Decided, Request, LookupEntryFails
<1>4. Moves(r)
  BY <1>1, <1>2, <1>3, IdleTyped DEF Moves, LookupEntryFails, Continue, EndRequest
<1>5. faults' \in 0..MaxFaults
  BY <1>1, FaultTyped DEF LookupEntryFails
<1>6. QED
  BY <1>4, <1>5, ReqStepKeeps DEF LookupEntryFails

\* The evaluator decides on metadata that may be missing.
LEMMA EvaluateKeeps ==
    ASSUME IInv, NEW r \in Req, NEW meta \in Metadata, NEW ok \in BOOLEAN,
           EvaluatePolicies(r, meta, ok)
    PROVE  IInv'
<1>. DEFINE o == Outcome(PolicySet(r), req[r].art, req[r].mutableTag, meta, req[r].ctx)
            dec == [outcome |-> o, version |-> req[r].snap,
                    art |-> req[r].art, ctx |-> req[r].ctx]
            next == [req[r] EXCEPT !.pc = FinalizeStage(req[r].art, o), !.dec = dec]
<1>1. /\ TypeOK /\ req[r] \in Request /\ req[r].pc = "evaluate"
      /\ RequestInv(req[r]) /\ RequestInv(IdleRequest)
  BY IdleInv DEF IInv, TypeOK, EvaluatePolicies
<1>2. o \in {"allow", "deny"}
  BY DEF Outcome
<1>3. dec \in Decision
  BY <1>1, <1>2 DEF Request, Decision
<1>4. o = "allow" => Admits(req[r].snap, req[r].ctx)
  BY AllowAdmits DEF PolicySet
<1>5. DecisionSound(dec)
  <2>1. req[r].mutableTag = MutableTag(req[r].art) /\ req[r].up \in Upstreams
    BY <1>1 DEF RequestInv, Request
  <2>2. o = "allow" => Allows(dec)
    BY <2>1 DEF Allows, MutableTag, PolicySet
  <2>3. QED
    BY <1>1, <1>4, <2>2 DEF RequestInv, Loaded, Validated, DecisionSound
<1>6. FinalizeStage(req[r].art, o) \in Stages \cap Decided
  BY StagesAfter DEF Stages, Decided
<1>7. next \in Request
  BY <1>1, <1>3, <1>6 DEF Request
<1>8. RequestInv(next)
  BY <1>1, <1>5, <1>6 DEF Request, RequestInv, Loaded, Validated, Decided
<1>9. Moves(r)
  BY <1>1, <1>7, <1>8, IdleTyped DEF Moves, EvaluatePolicies, RecordAudit, Continue, EndRequest
<1>10. faults' \in 0..MaxFaults
  BY <1>1, FaultTyped DEF EvaluatePolicies
<1>11. QED
  BY <1>9, <1>10, ReqStepKeeps DEF EvaluatePolicies

\* The writer fetches the generation.
LEMMA SetGenKeeps ==
    ASSUME IInv, NEW r \in Req, NEW ok \in BOOLEAN, SetReadsGeneration(r, ok) PROVE IInv'
<1>. DEFINE read == [req[r] EXCEPT !.pc = "setKey", !.gen = generation]
<1>. DEFINE failed == [req[r] EXCEPT !.pc = "record"]
<1>1. TypeOK /\ req[r] \in Request /\ RequestInv(req[r]) /\ RequestInv(IdleRequest)
  BY IdleInv DEF IInv, TypeOK
<1>2. read \in Request /\ failed \in Request
  BY <1>1, InRange, ConstantsAssumption DEF Request, Stages
<1>3. Moves(r)
  BY <1>1, <1>2, IdleTyped
  DEF Moves, SetReadsGeneration, Continue, EndRequest, RequestInv, Loaded, Validated, Decided, Request
<1>4. faults' \in 0..MaxFaults
  BY <1>1, FaultTyped DEF SetReadsGeneration
<1>5. QED
  BY <1>3, <1>4, ReqStepKeeps DEF SetReadsGeneration

\* The decision cannot be persisted.
LEMMA RecordFailsKeeps ==
    ASSUME IInv, NEW r \in Req, RecordDecisionFails(r) PROVE IInv'
<1>. DEFINE next == [req[r] EXCEPT !.pc = "respond"]
<1>1. TypeOK /\ req[r] \in Request /\ RequestInv(req[r]) /\ RequestInv(IdleRequest)
  BY IdleInv DEF IInv, TypeOK
<1>2. next \in Request
  BY <1>1, ConstantsAssumption DEF Request, Stages
<1>3. RequestInv(next)
  BY <1>1 DEF RequestInv, Loaded, Validated, Decided, Request, RecordDecisionFails
<1>4. Moves(r)
  BY <1>1, <1>2, <1>3, IdleTyped DEF Moves, RecordDecisionFails, Continue, EndRequest
<1>5. faults' \in 0..MaxFaults
  BY <1>1, FaultTyped DEF RecordDecisionFails
<1>6. QED
  BY <1>4, <1>5, ReqStepKeeps DEF RecordDecisionFails

\* A request that ends keeps the invariant.
LEMMA EndKeeps ==
    ASSUME IInv, NEW r \in Req, DependencyContextFails(r) \/ Respond(r) PROVE IInv'
<1>1. TypeOK /\ IdleRequest \in Request /\ RequestInv(IdleRequest)
  BY IdleInv, IdleTyped DEF IInv
<1>2. Moves(r)
  BY <1>1 DEF Moves, DependencyContextFails, Respond, EndRequest
<1>3. faults' \in 0..MaxFaults
  BY <1>1, FaultTyped DEF TypeOK, DependencyContextFails, Respond
<1>4. QED
  BY <1>2, <1>3, ReqStepKeeps DEF DependencyContextFails, Respond

\* The fetched bundle replaces the cached one, whatever its version.
LEMMA StoreKeeps ==
    ASSUME IInv, NEW r \in Req, StoreBundle(r) PROVE IInv'
<1>. DEFINE next == [req[r] EXCEPT !.pc = "prepare"]
<1>1. /\ TypeOK /\ req[r] \in Request /\ req[r].pc = "store" /\ RequestInv(req[r])
      /\ \A s \in Req : RequestInv(req[s])
  BY DEF IInv, TypeOK, StoreBundle
<1>2. next \in Request
  BY <1>1 DEF Request, Stages
<1>3. RequestInv(next)
  BY <1>1 DEF Request, RequestInv, Loaded, Validated, Decided
<1>4. Moves(r)
  BY <1>2, <1>3 DEF Moves, StoreBundle, Continue
<1>5. req' \in [Req -> Request] /\ (\A s \in Req : RequestInv(req[s]))'
  BY <1>1, <1>4, MovesKeeps DEF StoreBundle
<1>6. bundle' \in [version : Versions, fresh : BOOLEAN] /\ bundle'.version <= Len(history)
  BY <1>1 DEF StoreBundle, Request, RequestInv
<1>7. TypeOK'
  BY <1>1, <1>5, <1>6 DEF StoreBundle, TypeOK
<1>8. (\A e \in cache : DecisionSound(e.dec))' /\ BlobGateJustified'
  BY DEF IInv, DecisionSound, BlobGateJustified, Admits, Allows, StoreBundle
<1>9. QED
  BY <1>5, <1>6, <1>7, <1>8 DEF IInv, StoreBundle

\* The writer stores the decision under the generation it read.
LEMMA SetEntryKeeps ==
    ASSUME IInv, NEW r \in Req, NEW ok \in BOOLEAN, SetWritesEntry(r, ok) PROVE IInv'
<1>. DEFINE next == [req[r] EXCEPT !.pc = "record", !.gen = 0]
            new == [gen |-> req[r].gen, dec |-> req[r].dec]
<1>1. /\ TypeOK /\ req[r] \in Request /\ req[r].pc = "setKey" /\ RequestInv(req[r])
      /\ \A s \in Req : RequestInv(req[s])
  BY DEF IInv, TypeOK, SetWritesEntry
<1>2. next \in Request
  BY <1>1, InRange DEF Request, Stages
<1>3. RequestInv(next)
  BY <1>1 DEF Request, RequestInv, Loaded, Validated, Decided
<1>4. Moves(r)
  BY <1>2, <1>3 DEF Moves, SetWritesEntry, Continue
<1>5. req' \in [Req -> Request] /\ (\A s \in Req : RequestInv(req[s]))'
  BY <1>1, <1>4, MovesKeeps DEF SetWritesEntry
<1>6. new \in Entry /\ DecisionSound(new.dec)
  BY <1>1 DEF Request, Entry, RequestInv, Decided
<1>7. cache' \subseteq cache \cup {new}
  BY DEF SetWritesEntry
<1>8. TypeOK'
  <2>1. cache' \subseteq Entry
    BY <1>1, <1>6, <1>7 DEF TypeOK
  <2>2. faults' \in 0..MaxFaults
    BY <1>1, FaultTyped DEF SetWritesEntry
  <2>3. QED
    BY <1>1, <1>5, <2>1, <2>2 DEF SetWritesEntry, TypeOK
<1>9. (\A e \in cache : DecisionSound(e.dec))'
  <2>1. \A e \in cache' : DecisionSound(e.dec)
    BY <1>6, <1>7 DEF IInv
  <2>2. QED
    BY <2>1 DEF SetWritesEntry, DecisionSound, Admits, Allows
<1>10. BlobGateJustified'
  BY DEF IInv, BlobGateJustified, Admits, Allows, SetWritesEntry
<1>11. QED
  BY <1>5, <1>8, <1>9, <1>10 DEF IInv, SetWritesEntry

\* A persisted OCI allow opens the blob gate, and only that.
LEMMA RecordKeeps ==
    ASSUME IInv, NEW r \in Req, NEW ok \in BOOLEAN, RecordDecision(r, ok) PROVE IInv'
<1>. DEFINE next == [req[r] EXCEPT !.pc = "respond"]
<1>1. /\ TypeOK /\ req[r] \in Request /\ req[r].pc = "record" /\ RequestInv(req[r])
      /\ RequestInv(IdleRequest) /\ \A s \in Req : RequestInv(req[s])
  BY IdleInv DEF IInv, TypeOK, RecordDecision
<1>2. next \in Request
  BY <1>1 DEF Request, Stages
<1>3. RequestInv(next)
  BY <1>1 DEF Request, RequestInv, Loaded, Validated, Decided
<1>4. Moves(r)
  BY <1>1, <1>2, <1>3, IdleTyped DEF Moves, RecordDecision, RecordAudit, Continue, EndRequest
<1>5. req' \in [Req -> Request] /\ (\A s \in Req : RequestInv(req[s]))'
  BY <1>1, <1>4, MovesKeeps DEF RecordDecision
<1>6. TypeOK'
  <2>1. faults' \in 0..MaxFaults
    BY <1>1, FaultTyped DEF RecordDecision
  <2>2. recentAllow' \in Decision
    BY <1>1 DEF TypeOK, Request, RecordDecision
  <2>3. QED
    BY <1>1, <1>5, <2>1, <2>2 DEF RecordDecision, TypeOK
<1>7. (\A e \in cache : DecisionSound(e.dec))'
  BY DEF IInv, DecisionSound, Admits, Allows, RecordDecision
<1>8. ASSUME recentAllow' # recentAllow
      PROVE  /\ recentAllow'.art.ecosystem = "oci"
             /\ recentAllow'.outcome = "allow" /\ DecisionSound(recentAllow')
  <2>1. /\ recentAllow' = req[r].dec
        /\ req[r].dec.outcome = "allow" /\ req[r].art.ecosystem = "oci"
    BY <1>8 DEF RecordDecision
  <2>2. DecisionSound(req[r].dec) /\ CacheKey(req[r].dec.art) = CacheKey(req[r].art)
    BY <1>1, <2>1 DEF RequestInv, Decided
  <2>3. req[r].dec.art.ecosystem = req[r].art.ecosystem
    BY <2>2 DEF CacheKey
  <2>4. QED
    BY <2>1, <2>2, <2>3
<1>9. BlobGateJustified'
  <2>1. CASE recentAllow' = recentAllow
    BY <2>1 DEF IInv, BlobGateJustified, Allows, RecordDecision
  <2>2. CASE recentAllow' # recentAllow
    BY <1>8, <2>2 DEF BlobGateJustified, DecisionSound, Allows, RecordDecision
  <2>3. QED
    BY <2>1, <2>2
<1>10. QED
  BY <1>5, <1>6, <1>7, <1>9 DEF IInv, RecordDecision

-----------------------------------------------------------------------------
(* The control plane and the clock.                                        *)

\* Everything said about existing policy versions survives a longer history
\* and a larger generation.
LEMMA GrowthKeeps ==
    ASSUME IInv, UNCHANGED <<cache, bundle, req, recentAllow>>,
           Len(history') \in Nat, Len(history) <= Len(history'),
           \A v \in 1..Len(history) : history'[v] = history[v],
           generation' \in Nat, generation <= generation'
    PROVE  /\ bundle'.version <= Len(history')
           /\ (\A e \in cache : DecisionSound(e.dec))'
           /\ (\A r \in Req : RequestInv(req[r]))'
           /\ BlobGateJustified'
<1>1. TypeOK /\ Len(history) \in Nat
  BY DEF IInv, TypeOK
<1>2. ASSUME NEW v \in 1..Len(history), NEW c
      PROVE  /\ v \in 1..Len(history')
             /\ history'[v] = history[v]
             /\ Admits(v, c)' <=> Admits(v, c)
  BY <1>1 DEF Admits
<1>3. ASSUME NEW d, DecisionSound(d) PROVE DecisionSound(d)'
  BY <1>2, <1>3 DEF DecisionSound, Allows
<1>4. bundle'.version <= Len(history')
  BY <1>1 DEF IInv, TypeOK, Versions
<1>5. (\A e \in cache : DecisionSound(e.dec))'
  <2>1. SUFFICES ASSUME NEW e \in cache PROVE DecisionSound(e.dec)'
    OBVIOUS
  <2>2. PICK d : d = e.dec
    OBVIOUS
  <2>3. DecisionSound(d)
    BY <2>1, <2>2 DEF IInv
  <2>4. QED
    BY <1>3, <2>2, <2>3
<1>6. ASSUME NEW r \in Req PROVE RequestInv(req[r])'
  <2>1. PICK q : q = req[r]
    OBVIOUS
  <2>2. q \in Request /\ RequestInv(q)
    BY <1>1, <2>1 DEF IInv, TypeOK
  <2>3. q.pc \in Decided => DecisionSound(q.dec)'
    BY <1>3, <2>2 DEF RequestInv
  <2>4. q.snap <= Len(history') /\ q.startGen <= generation'
    BY <1>1, <2>2 DEF RequestInv, Request, Versions, Generations, TypeOK
  <2>5. q.pc \in Loaded => /\ q.snap \in 1..Len(history')
                           /\ history'[q.snap] = history[q.snap]
    BY <1>2, <2>2 DEF RequestInv
  <2>6. Validated \subseteq Loaded /\ Decided \subseteq Loaded
    BY DEF Validated, Decided, Loaded
  <2>7. RequestInv(q)'
    BY <2>2, <2>3, <2>4, <2>5, <2>6 DEF RequestInv
  <2>8. QED
    BY <2>1, <2>7
<1>7. BlobGateJustified'
  <2>1. SUFFICES ASSUME recentAllow # NoDecision PROVE BlobGateJustified'
    BY DEF BlobGateJustified, NoDecision
  <2>2. /\ recentAllow.version \in 1..Len(history) /\ Allows(recentAllow)
        /\ ValidatePolicies(history[recentAllow.version])
        /\ recentAllow.art.ecosystem = "oci"
    BY <2>1 DEF IInv, BlobGateJustified
  <2>3. recentAllow.version \in 1..Len(history') /\ Allows(recentAllow)'
    BY <1>2, <2>2 DEF Allows
  <2>4. QED
    BY <1>2, <2>2, <2>3 DEF BlobGateJustified
<1>8. QED
  BY <1>4, <1>5, <1>6, <1>7

\* A committed policy mutation keeps the invariant.
LEMMA MutateKeeps ==
    ASSUME IInv, NEW m \in Admin, NEW ps \in PolicySets, MutatePolicies(m, ps) PROVE IInv'
<1>1. TypeOK
  BY DEF IInv
<1>2. /\ history' \in Seq(PolicySets) /\ Len(history') = Len(history) + 1
      /\ \A v \in 1..Len(history) : history'[v] = history[v]
  BY <1>1 DEF TypeOK, MutatePolicies
<1>3. Len(history') \in 1..MaxVersion
  BY <1>1, <1>2, ConstantsAssumption DEF TypeOK, MutatePolicies
<1>4. admin' \in [Admin -> Versions]
  BY <1>1, <1>2, <1>3, ConstantsAssumption DEF TypeOK, MutatePolicies, Versions
<1>5. TypeOK'
  BY <1>1, <1>2, <1>3, <1>4 DEF TypeOK, MutatePolicies
<1>6. QED
  BY <1>1, <1>2, <1>3, <1>5, GrowthKeeps DEF IInv, TypeOK, MutatePolicies, Generations

\* InvalidateTenant after a mutation, or on demand, keeps the invariant.
LEMMA InvalidateKeeps ==
    ASSUME IInv, ClearTenantDecisions \/ \E m \in Admin, ok \in BOOLEAN : FinalizeTenantMutation(m, ok)
    PROVE  IInv'
<1>1. TypeOK
  BY DEF IInv
<1>2. /\ generation' \in Generations /\ generation <= generation'
      /\ covered' \in Seq(Versions) /\ Len(covered') = generation' + 1
  <2>1. \/ UNCHANGED <<generation, covered>>
        \/ /\ generation < MaxGeneration /\ generation' = generation + 1
           /\ covered' = Append(covered, Len(history))
    BY DEF ClearTenantDecisions, FinalizeTenantMutation
  <2>2. CASE UNCHANGED <<generation, covered>>
    BY <1>1, <2>2 DEF TypeOK, Generations
  <2>3. CASE /\ generation < MaxGeneration /\ generation' = generation + 1
             /\ covered' = Append(covered, Len(history))
    <3>1. generation' \in Generations /\ generation <= generation'
      BY <1>1, <2>3, ConstantsAssumption DEF TypeOK, Generations
    <3>2. covered' \in Seq(Versions) /\ Len(covered') = Len(covered) + 1
      BY <1>1, <2>3, InRange DEF TypeOK
    <3>3. QED
      BY <1>1, <2>3, <3>1, <3>2 DEF TypeOK, Generations
  <2>4. QED
    BY <2>1, <2>2, <2>3
<1>3. faults' \in 0..MaxFaults
  BY <1>1, FaultTyped DEF TypeOK, ClearTenantDecisions, FinalizeTenantMutation
<1>4. admin' \in [Admin -> Versions]
  <2>1. 0 \in Versions /\ admin \in [Admin -> Versions]
    BY <1>1, ConstantsAssumption DEF TypeOK, Versions
  <2>2. admin' = admin \/ \E m \in Admin : admin' = [admin EXCEPT ![m] = 0]
    BY DEF ClearTenantDecisions, FinalizeTenantMutation
  <2>3. QED
    BY <2>1, <2>2
<1>5. TypeOK'
  BY <1>1, <1>2, <1>3, <1>4 DEF TypeOK, ClearTenantDecisions, FinalizeTenantMutation
<1>6. QED
  BY <1>1, <1>2, <1>5, GrowthKeeps
  DEF IInv, TypeOK, Generations, ClearTenantDecisions, FinalizeTenantMutation

\* Entries, freshness and recorded allows that age away keep the invariant.
LEMMA ClockKeeps ==
    ASSUME IInv, Clock PROVE IInv'
<1>1. TypeOK
  BY DEF IInv
<1>2. /\ cache' \subseteq cache /\ recentAllow' \in {recentAllow, NoDecision}
      /\ bundle' \in [version : Versions, fresh : BOOLEAN]
      /\ bundle'.version = bundle.version
      /\ UNCHANGED <<history, admin, generation, req, covered, faults>>
  <2>1. CASE \E key \in Keys : DecisionExpires(key)
    BY <1>1, <2>1 DEF TypeOK, DecisionExpires
  <2>2. CASE BundleGoesStale
    BY <1>1, <2>2 DEF TypeOK, BundleGoesStale
  <2>3. CASE RecentAllowAges
    BY <1>1, <2>3 DEF TypeOK, RecentAllowAges
  <2>4. QED
    BY <2>1, <2>2, <2>3 DEF Clock
<1>3. TypeOK'
  BY <1>1, <1>2, IdleTyped DEF TypeOK
<1>4. (\A e \in cache : DecisionSound(e.dec))'
  BY <1>2 DEF IInv, DecisionSound, Admits, Allows
<1>5. (\A r \in Req : RequestInv(req[r]))'
  BY <1>2 DEF IInv, RequestInv, DecisionSound, Admits, Allows
<1>6. BlobGateJustified'
  BY <1>2 DEF IInv, BlobGateJustified, Admits, Allows
<1>7. QED
  BY <1>2, <1>3, <1>4, <1>5, <1>6 DEF IInv

-----------------------------------------------------------------------------
(* The invariant is inductive.                                             *)

\* The pipeline starts with no bundle, no cached decision and no request.
LEMMA InitInv == Init => IInv
<1>1. SUFFICES ASSUME Init PROVE IInv
  OBVIOUS
<1>2. PICK ps \in PolicySets : history = <<ps>>
  BY <1>1 DEF Init
<1>3. TypeOK
  <2>1. history \in Seq(PolicySets) /\ Len(history) \in 1..MaxVersion
    BY <1>2, ConstantsAssumption
  <2>2. covered \in Seq(Versions) /\ Len(covered) = generation + 1
    <3>1. 1 \in Versions
      BY ConstantsAssumption DEF Versions
    <3>2. QED
      BY <1>1, <3>1 DEF Init
  <2>3. 0 \in Versions /\ 0 \in Generations /\ 0 \in 0..MaxFaults
    BY ConstantsAssumption DEF Versions, Generations
  <2>4. QED
    BY <1>1, <2>1, <2>2, <2>3, IdleTyped DEF Init, TypeOK
<1>4. \A r \in Req : RequestInv(req[r])
  BY <1>1, <1>3, IdleInv DEF Init
<1>5. QED
  BY <1>1, <1>3, <1>4 DEF Init, IInv, BlobGateJustified, TypeOK

\* Every step keeps the invariant.
LEMMA NextInv == IInv /\ [Next]_vars => IInv'
<1>. SUFFICES ASSUME IInv, [Next]_vars PROVE IInv'
  OBVIOUS
<1>1. ASSUME NEW r \in Req, Arrive(r) PROVE IInv'
  BY <1>1, NormalizeKeeps DEF Arrive
<1>2. ASSUME NEW r \in Req, RequestStep(r) PROVE IInv'
  BY <1>2, ResolveOCIKeeps, ResolveNPMKeeps, FallBackKeeps, LoadKeeps, FetchKeeps,
     StoreKeeps, PrepareKeeps, AttachKeeps, EndKeeps, LookupGenKeeps,
     LookupEntryKeeps, LookupFailsKeeps, EvaluateKeeps, SetGenKeeps, SetEntryKeeps,
     RecordKeeps, RecordFailsKeeps
  DEF RequestStep
<1>3. ASSUME ControlPlane PROVE IInv'
  BY <1>3, MutateKeeps, InvalidateKeeps DEF ControlPlane
<1>4. ASSUME Clock PROVE IInv'
  BY <1>4, ClockKeeps
<1>5. ASSUME UNCHANGED vars PROVE IInv'
  BY <1>5 DEF vars, IInv, TypeOK, RequestInv, DecisionSound, BlobGateJustified, Admits, Allows
<1>6. QED
  BY <1>1, <1>2, <1>3, <1>4, <1>5 DEF Next

\* The inductive invariant holds in every reachable state.
THEOREM Invariance == Spec => []IInv
  BY InitInv, NextInv, PTL DEF Spec

\* Every variable keeps its type, for every number of requests and policies.
THEOREM TypeCorrect == Spec => []TypeOK
<1>1. IInv => TypeOK
  BY DEF IInv
<1>2. QED
  BY <1>1, Invariance, PTL

\* preparePolicySet: a request that loaded an invalid policy set is never
\* allowed, not even from the decision cache.
THEOREM InvalidSetsDeny == Spec => []InvalidSetNeverAllows
<1>1. IInv => InvalidSetNeverAllows
  BY DEF IInv, TypeOK, RequestInv, InvalidSetNeverAllows, Allowed, Answered,
         Loaded, Decided
<1>2. QED
  BY <1>1, Invariance, PTL

\* Every allow, fresh or replayed, is the verdict of a valid policy set of the
\* tenant on the artifact and dependency context of the request it answers.
THEOREM AllowsAreJustified == Spec => []AllowJustified
<1>1. IInv => AllowJustified
  BY DEF IInv, RequestInv, DecisionSound, AllowJustified, Allowed, Answered, Decided
<1>2. QED
  BY <1>1, Invariance, PTL

\* InvalidateTenant: no request that arrives after a generation bump is
\* answered with an entry filed under an earlier generation.
THEOREM HitsRespectInvalidation == Spec => []HitRespectsInvalidation
<1>1. IInv => HitRespectsInvalidation
  BY DEF IInv, TypeOK, Request, Generations, RequestInv, HitRespectsInvalidation, Answered
<1>2. QED
  BY <1>1, Invariance, PTL

\* HasRecentAllow: the blob gate is open only on the strength of an OCI artifact
\* that the evaluator allows under a valid policy set of the tenant.
THEOREM BlobGateIsJustified == Spec => []BlobGateJustified
<1>1. IInv => BlobGateJustified
  BY DEF IInv
<1>2. QED
  BY <1>1, Invariance, PTL
=============================================================================
