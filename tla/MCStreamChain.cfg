CONSTANTS
  ColumnPeriod = 20
  LaneCount = 1
  SubwindowSize = 1
  MaxPackets = 16
  CauchyMaxRows = 6
  FecNumerator = 2
  FecDenominator = 5
  MaxLossRecovery = 255
  Hops = 2
  MaxChunks = 5
  MaxLosses = 2
  ReorderDepth <- MCReorderDepth
SPECIFICATION FairSpec
PROPERTIES ImplementsFifo RedundancySuffices
CHECK_DEADLOCK FALSE
