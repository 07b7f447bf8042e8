CONSTANTS
  ColumnPeriod = 12
  LaneCount = 1
  SubwindowSize = 1
  MaxPackets = 5
  CauchyMaxRows = 6
  FecNumerator = 2
  FecDenominator = 2
  MaxLossRecovery = 2
  Subscriber = {s1}
  EarlySubscriber = {}
  MaxChunks = 4
  MaxInFlight = 4
  MaxLosses = 4
  MaxDuplicates = 1
  ReorderDepth = 2
  MaxDecodeFailures = 1
SPECIFICATION Spec
INVARIANTS RecoversAsSoonAsPossible CheckedRegionIsFresh
PROPERTY ImplementsFifo
CHECK_DEADLOCK FALSE
