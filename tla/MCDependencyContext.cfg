SPECIFICATION Spec
CONSTANTS
  None = None
  Artifacts <- MCArtifacts
  Locks <- MCLocks
  ManifestDeps <- MCManifestDeps
  Snapshot <- MCSnapshot
  Clients = {c1}
  Requested <- MCRequested
  Concurrency = 2
INVARIANTS TypeOK DepthsShortest RowOrderIrrelevant SnapshotNeverFansOut CompleteGraphsReadWhole
PROPERTY StaleContextsDisappear
