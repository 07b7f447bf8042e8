CONSTANTS
  ColumnPeriod = 8
  MaxChunks = 8
  MaxDelay = 6
  MaxBatch = 8
  AllowRepeats = FALSE
SPECIFICATION Spec
INVARIANTS TypeOK NothingHeldBack
PROPERTY ImplementsFifo
CHECK_DEADLOCK FALSE
