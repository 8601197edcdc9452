SPECIFICATION Spec
CONSTANTS
    Digest = {d1, d2, d3}
    Session = {s1, s2}
    NoDigest = nodigest
    MaxEntries = 1
    AgeLimit = TRUE
    MaxWrites = 4
    MaxCrashes = 1
    MaxIOErrors = 1
SYMMETRY Symmetry
INVARIANTS
    ServedWhole
    CommitsLeaveNoDeadEntry
    OvershootBounded
