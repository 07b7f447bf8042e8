CONSTANTS
  Kbps = 2
  NanosPerByte = 4
  BufferSize = 4
  PacketType = {0, 3}
  PacketIndex = {0, 1}
  PacketSize = {1, 3}
  ByteBase = 4
  MaxQueued = 3
  QueueUntil = 9
  MaxTime = 24
  MaxLateness = 3
  MaxSubscriptions = 2
SPECIFICATION FairSpec
INVARIANTS TypeOK WaitPendingIffQueued LoopEndsOnlyByResubscription NoPacketStranded BufferNotExceeded PriorityKept
PROPERTY EverythingSent
CHECK_DEADLOCK FALSE
