SPECIFICATION Spec
CONSTANTS
    j1 = j1
    j2 = j2
    w1 = w1
    w2 = w2
    t1 = t1
    t2 = t2
    Job = {j1, j2}
    Worker = {w1, w2}
    Tenant = {t1, t2}
    JobTenant <- TwoTenants
    Scope <- OneScoped
    AllTenants = any
    NoJob = nojob
    Concurrency = 2
    MaxFaults = 1
    MaxRestarts = 0
INVARIANTS
    SlotsRespected
    OneResolver
    OrphansBounded
    NoLostWakeup
PROPERTIES
    CompleteIsFinal
