SPECIFICATION Spec
CONSTANTS
    Req = {r1}
    Admin = {m1}
    Upstreams = {u1}
    AnyUpstream = any
    OCITags = {latest}
    OCIDigests = {d1}
    NPMTags = {next}
    NPMVersions = {v1}
    BlockedTags = {latest}
    None = none
    PolicySets <- MixedPolicySets
    FailClosed = TRUE
    AlwaysRefresh = FALSE
    MaxVersion = 2
    MaxGeneration = 0
    MaxFaults = 1
INVARIANTS
    AllowJustified
    BlobGateJustified
