SPECIFICATION FairSpec
CONSTANTS
  t1 = t1
  t2 = t2
  Threads = {t1, t2}
  MaxObjects = 6
  Script <- ClientScript
INVARIANTS
  TypeOK
  Accounting
  NoUseAfterFree
  NoLostUpdate
PROPERTIES
  CacheReturnsSeen
  CallsFinish
  ImplementsStrategy
