SPECIFICATION Spec
CONSTANTS
  Outcomes <- FilledOutcomes
  Arguments16 <- MCArguments
  Text <- MCText
  AsmValue <- MCAsmValue
  StackTop = 1000
  CallerSize = 4
  DataStart = 2000
  Frames = 94
  Fitting = {}
INVARIANT MeaningKept
CHECK_DEADLOCK FALSE
