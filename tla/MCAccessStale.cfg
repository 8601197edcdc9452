SPECIFICATION Spec
CONSTANTS
    Req = {r1, r2}
    Admin = {m1}
    Upstreams = {u1}
    AnyUpstream = any
    OCITags = {}
    OCIDigests = {d1}
    NPMTags = {}
    NPMVersions = {}
    BlockedTags = {}
    None = none
    PolicySets <- StalePolicySets
    FailClosed = TRUE
    AlwaysRefresh = TRUE
    MaxVersion = 2
    MaxGeneration = 1
    MaxFaults = 0
SYMMETRY Symmetry
INVARIANTS
    NoStaleHit
