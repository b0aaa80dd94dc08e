SPECIFICATION MCSpec
CONSTANTS
  NumTargets = 4
  DirTargets <- MCDirTargets
  Artifacts <- MCArtifacts
  Manifest = 3
  MaxRuns = 2
  NumFiles = 3
  FileManifest = 1
  MaxCalls = 2
  Absent = Absent
  Damaged = Damaged
  Foreign = Foreign
INVARIANTS
  TargetsAreSafe
  ManifestNeverEarly
  WritesAreSafe
PROPERTIES
  RunsAreCareful
  ImplementsAtomicGeneration
  RunEnds
