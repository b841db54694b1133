SPECIFICATION Spec
CONSTANTS
  N = 2
  DEBT_SLOT_CNT = 1
  UseFast = FALSE
  GenLimit = 2
  Recycle = FALSE
  FairThreads = {}
  Storages = {A}
  Objects = {a1, a2, a3}
  Pool <- AnyObject
  Initial <- StartsWithA1
  Script <- WrapScript
  Droppers = {}
  Null = Null
  A = A
  B = B
  a1 = a1
  a2 = a2
  a3 = a3
  a4 = a4
SYMMETRY FreshObjects
INVARIANTS
  NodeStaysSet
