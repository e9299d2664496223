SPECIFICATION Spec
CONSTANTS
  MaxAddr = 7
  Inputs <- AllInputs
INVARIANTS
  TypeOK
  RegionsApart
  SectionsPlaced
  ChainContiguous
  ChainComplete
  OutputComplete
  NoJunk
  NeverUndefined
  LinksResolved
PROPERTIES
  EveryStepProgresses
  PlacementKept
