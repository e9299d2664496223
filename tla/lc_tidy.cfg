SPECIFICATION Spec
CONSTANTS
  Outcomes <- TidyOutcomes
  Arguments16 <- MCArguments
  Text <- MCText
  AsmValue <- MCAsmValue
  StackTop = 1000
  CallerSize = 4
  DataStart = 2000
  Frames = 94
  Fitting <- TidyOutcomes
INVARIANTS TypeOK ParseInverts JumpsLand MeaningKept FrameKept NoStrayAccess
PROPERTIES Returns
CHECK_DEADLOCK FALSE
