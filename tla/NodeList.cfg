SPECIFICATION FairSpec
CONSTANTS
  Threads = {t1, t2}
  MaxNodes = 3
  FairThreads = {t1}
INVARIANTS
  TypeOK
  ExclusiveOwner
  ReservationsCounted
  NoNodeMissed
PROPERTIES
  CooldownDrainsUnlessStale
  GetFinishes
