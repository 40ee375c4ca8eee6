CONSTANTS
  a1 = a1
  a2 = a2
  a3 = a3
  b1 = b1
  NULL = NULL
  Keys <- MCKeys
  Scheduled <- MCScheduled
  RouteHour <- MCRouteHour
  RouteStop <- MCRouteStop
  TripDay <- MCTripDay
  StopSequence <- MCStopSequence
  Delays <- MCDelays
  LateThreshold = 180
  Sinces = {0, 2}
  Untils = {2, 4}
  TrainPercent = 40
  PersistenceThreshold = 180
  MinPercent = 80
SPECIFICATION FeaturesSpec
INVARIANT NullAfterUnusableStop
