SPECIFICATION MCSpec
CONSTANTS
  c1 = c1
  c2 = c2
  Callers <- MCCallers
  MaxAllocations = 3
  Byte = 2
  GuidSize = 4
  LastErrors = {0, 1, 3}
  Counts <- MCCounts
INVARIANTS
  OwnershipHolds
  OutcomesAreTold
