SPECIFICATION Spec
CONSTANTS
  N = 2
  DEBT_SLOT_CNT = 1
  UseFast = FALSE
  GenLimit = 100
  Recycle = FALSE
  FairThreads = {}
  Storages = {A, B}
  Objects = {a1, a2, a3}
  Pool <- ApartPool
  Initial <- ApartInitial
  Script <- StorageScript
  Droppers = {1}
  Null = Null
  A = A
  B = B
  a1 = a1
  a2 = a2
  a3 = a3
  a4 = a4

INVARIANTS
  Accounting
  LoadLinearizable
  HelpingSlotFree
PROPERTIES
  ImplementsHelpingSlots
