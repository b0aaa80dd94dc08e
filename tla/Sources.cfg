\* Every graph of three sources; indexes of up to three versions; caches over
\* any number of runs.  The tool exits, and only a cache is run on again.
SPECIFICATION MCSpec
CONSTANTS
  f1 = f1
  f2 = f2
  Fetchers <- MCFetchers
  MaxVersion = 3
  Absent = Absent
  Damaged = Damaged
  Corrupt = Corrupt
  MaxPart = 3
  MaxInt = 20
  Locks <- MCLocks
  Answers <- MCAnswers
  Revisions <- MCRevisions
  Artifacts <- MCArtifacts
INVARIANTS
  CacheIsWhole
  NoStaleBackup
  CyclesAreFound
  UpdatesAreSound
  CacheServesLock
PROPERTIES
  OnlyVerifiedIsInstalled
  CatchesUp
CHECK_DEADLOCK FALSE
