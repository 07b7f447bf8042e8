CONSTANTS
  ColumnPeriod = 20
  LaneCount = 1
  SubwindowSize = 1
  MaxPackets = 6
  CauchyMaxRows = 6
  FecNumerator = 2
  FecDenominator = 5
  MaxLossRecovery = 255
  Subscriber = {s1}
  EarlySubscriber = {s1}
  MaxChunks = 8
  MaxInFlight = 3
  MaxLosses = 0
  MaxDuplicates = 0
  ReorderDepth = 0
  MaxDecodeFailures = 0
SPECIFICATION Spec
INVARIANT SubscribersStayUp
CHECK_DEADLOCK FALSE
