SPECIFICATION FairSpec
CONSTANTS
  N = 2
  DEBT_SLOT_CNT = 2
  UseFast = TRUE
  GenLimit = 4
  Recycle = TRUE
  FairThreads = {2}
  Storages = {A}
  Objects = {a1, a2, a3}
  Pool <- AnyObject
  Initial <- StartsWithA1
  Script <- LoadsAndBoth
  Droppers = {}
  Null = Null
  A = A
  B = B
  a1 = a1
  a2 = a2
  a3 = a3
  a4 = a4

PROPERTIES
  LoadFinishes
  WriteFinishes
