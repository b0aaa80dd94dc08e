SPECIFICATION MCSpec
CONSTANTS
  g1 = g1
  g2 = g2
  g3 = g3
  p1 = p1
  p2 = p2
  p3 = p3
  d1 = d1
  d2 = d2
  t1 = t1
  t2 = t2
  t3 = t3
  a1 = a1
  a2 = a2
  a3 = a3
  b1 = b1
  b2 = b2
  Callers <- MCCallers
  Procs <- MCProcs
  DLLs <- MCDLLs
  DllOf <- MCDllOf
  Loader = Loader
  NoCell = NoCell
  Goroutines <- MCGoroutines
  Threads <- MCThreads
  Apartments <- MCApartments
  OwnerOf <- MCOwnerOf
  ModelOf <- MCModelOf
  MaxOwn = 2
  None = None
INVARIANTS
  AnswersHold
  LocksAreBalanced
  StaysInApartment
PROPERTIES
  LoadedOnDemand
  EveryCallReturns
