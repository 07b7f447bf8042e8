CONSTANTS
  ColumnPeriod = 8
  MaxChunks = 6
  MaxDelay = 6
  MaxBatch = 2
  AllowRepeats = TRUE
SPECIFICATION Spec
INVARIANT NothingHeldBack
CHECK_DEADLOCK FALSE
