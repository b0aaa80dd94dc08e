SPECIFICATION Spec
CONSTANTS
  call = call
  type = type
  v1 = v1
  NoId = NoId
  Absent = Absent
  Decl = {call, type}
  Callable = {call}
  Value = {v1, Absent}
  Locked <- MCLocked
  WinMD <- MCWinMD
  Required <- MCAllRequired
  Fixtures <- MCFixtures
  Contents <- MCContents
  Ranges <- MCRanges
  MaxVersion = 2
  MaxOverrides = 1
INVARIANT OverridesFindTargets
