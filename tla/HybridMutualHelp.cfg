SPECIFICATION FairSpec
CONSTANTS
  N = 2
  DEBT_SLOT_CNT = 1
  UseFast = TRUE
  GenLimit = 4
  Recycle = TRUE
  FairThreads = {1, 2}
  Storages = {A, B}
  Objects = {a1, a2, a3, a4}
  Pool <- OccupyPool
  Initial <- OccupyInitial
  Script <- MutualScript
  Droppers = {}
  Null = Null
  A = A
  B = B
  a1 = a1
  a2 = a2
  a3 = a3
  a4 = a4

PROPERTIES
  WriteFinishes
