SPECIFICATION Spec
CONSTANTS
  NDevices = 2
  MemSize = 3
  InstrLen = 1
  Value = {0, 1}
INVARIANTS
  CacheIsTask
