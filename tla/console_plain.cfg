SPECIFICATION Spec
CONSTANTS
  Typed = {65, 66}
  Written = {97, 12, 17, 1}
  Sizes <- TermSizes
  EofKinds = {"file", "pipe"}
  MaxTyped = 2
  MaxAsked = 2
  MaxSteps = 7
INVARIANTS
  WrittenAtOnce
