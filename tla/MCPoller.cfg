CONSTANTS
  t1 = t1
  t2 = t2
  TripStops <- MCTripStops
  BatchOf <- MCBatchOf
  NumBatches = 2
  GapThreshold = 1
  SettleMargin = 2
  StartInterval = 1
  CycleDeadline = 1
  ConnectAttempts = 2
  SilentDrop = FALSE
  MaxTime = 4
SPECIFICATION PollerSpec
INVARIANTS PollerTypeOK ErrorFreeMeansComplete
PROPERTIES RecordedCyclesAreFinal CyclesAreAtomic CyclesRunDown CycleEnds
CHECK_DEADLOCK FALSE
