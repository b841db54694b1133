SPECIFICATION Spec
CONSTANTS
  Threads = {t1, t2, t3}
  MaxNodes = 2
  FairThreads = {}
SYMMETRY MCSymmetry
PROPERTIES
  CooldownDrains
