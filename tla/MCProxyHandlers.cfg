SPECIFICATION Spec
CONSTANTS
    t1 = t1
    t2 = t2
    u1 = u1
    u2 = u2
    u3 = u3
    v1 = v1
    v2 = v2
    pkg = pkg
    Pkg = Pkg
    Name = {pkg, Pkg}
    ToLower <- MCToLower
    Client = {c1}
    Tenant = {t1, t2}
    Upstream = {u1, u2, u3}
    Owner <- MCOwner
    Version = {v1, v2}
    Tag = latest
    None = none
    Routes <- MCRoutes
    Registered <- MCRegistered
    Denials <- MCDenials
    FailClosed = TRUE
    MaxChanges = 1
    MaxMoves = 1
    MaxFaults = 1
CHECK_DEADLOCK FALSE
INVARIANTS
    ObtainedWasJudged
    LinksKeepRoute
    ServedIsOnRecord
