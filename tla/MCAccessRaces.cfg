SPECIFICATION FairSpec
CONSTANTS
    Req = {r1, r2}
    Admin = {m1}
    Upstreams = {u1}
    AnyUpstream = any
    OCITags = {}
    OCIDigests = {}
    NPMTags = {}
    NPMVersions = {v1}
    BlockedTags = {}
    None = none
    PolicySets <- RacePolicySets
    FailClosed = TRUE
    AlwaysRefresh = FALSE
    MaxVersion = 2
    MaxGeneration = 1
    MaxFaults = 1
INVARIANTS
    InvalidSetNeverAllows
    HitRespectsInvalidation
PROPERTIES
    StaleDecisionsDisappear
