CONSTANTS
  ColumnPeriod = 20
  LaneCount = 1
  SubwindowSize = 1
  MaxPackets = 9
  CauchyMaxRows = 6
  FecNumerator = 2
  FecDenominator = 5
  MaxLossRecovery = 255
  Subscriber = {s1}
  EarlySubscriber = {s1}
  MaxChunks = 8
  MaxInFlight = 3
  MaxLosses = 3
  MaxDuplicates = 0
  ReorderDepth = 1
  MaxDecodeFailures = 0
SPECIFICATION Spec
INVARIANTS TypeOK SubscribersStayUp ProtectsWhatIsLacking AcknowledgedIsDelivered
PROPERTY ImplementsFifo
CHECK_DEADLOCK FALSE
