SPECIFICATION Spec
CONSTANTS
  None = None
  Requests = {r1, r2}
  Artifacts <- MCArtifacts
  Registry <- MCRegistry
  Project <- MCProject
  Vulns <- MCVulns
  SkipRules <- MCSkipRules
  StrictRules <- MCStrictRules
  MaxGeneration = 1
  MaxOutages = 1
INVARIANTS OutageNeverDenies OutageFailsClosed AnswersKept
PROPERTY PartialMetadataRecovers
