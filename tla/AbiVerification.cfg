SPECIFICATION MCSpec
CONSTANTS
  Runs <- MCRuns
  Version <- MCVersion
  Commits <- MCCommits
  Headers <- MCHeaders
  Pins <- MCPins
  Descriptors <- MCDescriptors
  ArtifactPaths <- MCArtifactPaths
  Checkouts <- MCCheckouts
INVARIANTS
  FactsAccounted
  CompleteMeansMeasured
  PassedMeansChecked
  ReportMatchesResult
  EvidenceIsMeasured
  DifferencesAreFacts
  SliceFollowsLock
CHECK_DEADLOCK FALSE
