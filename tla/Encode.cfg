SPECIFICATION Spec
CONSTANTS
  MaxTexts = 4
  Contents <- MCContents
  doc_prefix <- MCDocPrefix
  query_prefix <- MCQueryPrefix
  MaxSeqLength = 7
  Capacities = {5, 8}
  Dim = 2
  kMaxBatchTokens = 6
  kMaxBatchRows = 3
  Pad = Pad
  NoTokens = NoTokens
INVARIANTS
  TokensRight
  RowsRight
  OkMeansComplete
  WritesInBounds
  BatchInBudget
PROPERTY EveryCallReturns
