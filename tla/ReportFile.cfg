SPECIFICATION MCSpec
CONSTANTS
  w1 = w1
  w2 = w2
  w3 = w3
  r1 = r1
  r2 = r2
  r3 = r3
  Writers <- MCThree
  Report <- MCReports
  Direct <- MCBoth
  Absent = Absent
  Steps = 2
  Inventories <- MCInventories
INVARIANTS
  ReportIsSafe
  RaceSettles
  NothingIsLost
  BuiltIsValid
