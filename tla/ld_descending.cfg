SPECIFICATION Spec
CONSTANTS
  MaxAddr = 9
  Inputs <- FixedInputs
INVARIANTS
  OutputHasEverySection
