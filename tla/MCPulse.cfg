CONSTANTS
  t1 = t1
  TripStops <- MCTripStops
  BatchOf <- MCBatchOf
  NumBatches = 1
  GapThreshold = 1
  SettleMargin = 2
  StartInterval = 1
  CycleDeadline = 1
  ConnectAttempts = 1
  SilentDrop = FALSE
  MaxTime = 5
  OriginStops = {}
  Sinces = {0}
  Untils = {2}
  AsOfs = {2}
SPECIFICATION Spec
INVARIANTS TypeOK SettledMeansQuiet WitnessedDisappearance VerdictsAreFinal
PROPERTIES RegimeReproduces LabelsOnlyAdvance
