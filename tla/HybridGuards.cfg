SPECIFICATION Spec
CONSTANTS
  N = 2
  DEBT_SLOT_CNT = 1
  UseFast = TRUE
  GenLimit = 4
  Recycle = TRUE
  FairThreads = {}
  Storages = {A}
  Objects = {a1, a2, a3}
  Pool <- AnyObject
  Initial <- StartsWithA1
  Script <- GuardScript
  Droppers = {1, 2}
  Null = Null
  A = A
  B = B
  a1 = a1
  a2 = a2
  a3 = a3
  a4 = a4
SYMMETRY FreshObjects
INVARIANTS
  TypeOK
  Accounting
  NoUseAfterFree
  LoadLinearizable
