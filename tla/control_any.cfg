SPECIFICATION FairSpec
CONSTANTS
  NDevices = 2
  MemSize = 3
  InstrLen = 1
  Value = {0}
INVARIANTS
  TypeOK
  DueIsServed
PROPERTIES
  ReadyIsServed
