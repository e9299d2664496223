SPECIFICATION TidySpec
CONSTANTS
  Line <- Everything
  AddrSize = 65536
  MaxLines = 6
INVARIANTS
  TypeOK
  ItemsIntact
  LabelsLead
  ReferencesResolved
  SectionHasEveryItem
