SPECIFICATION Spec
CONSTANTS
  call = call
  type = type
  v1 = v1
  NoId = NoId
  Absent = Absent
  Decl = {call, type}
  Callable = {call}
  Value = {v1, Absent}
  Locked = {1}
  WinMD = {}
  Required = {1}
  Fixtures <- MCEditedFixtures
  Contents = {}
  Ranges <- MCRanges
  MaxVersion = 2
  MaxOverrides = 1
INVARIANT NothingIsOverwrittenUnseen
