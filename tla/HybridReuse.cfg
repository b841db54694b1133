SPECIFICATION Spec
CONSTANTS
  N = 2
  DEBT_SLOT_CNT = 1
  UseFast = TRUE
  GenLimit = 100
  Recycle = FALSE
  FairThreads = {}
  Storages = {A, B}
  Objects = {a1, a2, a3}
  Pool <- SharedPool
  Initial <- SharedInitial
  Script <- ReuseScript
  Droppers = {}
  Null = Null
  A = A
  B = B
  a1 = a1
  a2 = a2
  a3 = a3
  a4 = a4

INVARIANTS
  LoadLinearizable
