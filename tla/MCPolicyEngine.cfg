SPECIFICATION EvalSpec
CONSTANTS
    None = none
    Pending = pending
    PolicySets <- Triples
    AccessRequests <- SomeRequests
INVARIANTS
    WorseIsDeniedToo
PROPERTIES
    VerdictRefined
CHECK_DEADLOCK FALSE
