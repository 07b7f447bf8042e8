CONSTANTS
  ColumnPeriod = 24
  MaxPackets = 8
  LaneCount = 2
  SubwindowSize = 2
  CauchyMaxRows = 3
  FecNumerator = 2
  FecDenominator = 5
  MaxChunks = 30
  MaxQueued = 2
  MaxAckLag = 8
SPECIFICATION Spec
INVARIANTS TypeOK WindowInShape UnackedIsProtected FecNeverThrows FecRatioKept
CHECK_DEADLOCK FALSE
