SPECIFICATION Spec
CONSTANTS
  None = None
  u1 = u1
  u2 = u2
  Admins = {a1, a2}
  PolicyIDs = {p1, p2}
  UpstreamIDs = {u1, u2}
  Definitions <- MCDefinitions
  Imports <- MCImports
  Requests <- MCRequests
  InitialUpstream <- NpmFull
  InitialID = u1
  AllowAuthenticatedUpstreams = TRUE
  MaxRetainedPolicyVersions = 2
  MaxCalls = 3
  MaxFaults = 1
SYMMETRY Symmetry
INVARIANTS HistoryIntact CommitsInvalidated SuccessIsRecorded FitUnlessOverlapped
PROPERTIES VersionsImmutable EnabledDeletedOnlyByRace
CHECK_DEADLOCK FALSE
