SPECIFICATION WaveSpec
CONSTANTS
  Names <- MCNames
  Types <- MCTypes
  Widths <- MCWidths
  Ids = {"i"}
  Values <- MCValues
  Char <- MCChar
  Dot = 1
  Bracket = 3
  Top <- MCTop
  MaxTime = 3
  MaxLines = 4
  kTargetSegments = 3
CONSTRAINT OneWave
CHECK_DEADLOCK FALSE
INVARIANTS
  DatabaseExact
  SummariesExact
  QueriesAgree
  PartsAreWhole
