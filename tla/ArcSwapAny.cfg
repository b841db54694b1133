SPECIFICATION Spec
CONSTANTS
  Addrs = {p1, p2}
  Null = Null
  Places = {h1, h2}
  Caches = {c1, c2}
  Accesses <- SomeAccesses
SYMMETRY Alike
INVARIANTS
  TypeOK
  Counting
  SnapshotStable
  LoadReturnsStored
  CasComparesObjects
  CacheReflectsStorage
