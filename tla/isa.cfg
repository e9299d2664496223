SPECIFICATION Spec
CONSTANTS
  B = 4
  InstrLen = 4
  IntBits = 32
  Code <- AllCode
  Boot <- Files
  Garbage <- Used
  Handlers = {12}
  MaxSteps = 4
INVARIANTS
  TypeOK
  StackIntact
PROPERTIES
  ReturnsToCaller
  NoSpill
  KeepsPromise
