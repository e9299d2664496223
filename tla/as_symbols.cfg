SPECIFICATION TidySpec
CONSTANTS
  Line <- Based
  AddrSize = 65536
  MaxLines = 5
INVARIANT SymbolsInSection
