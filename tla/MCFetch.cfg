CONSTANTS
  p1 = p1
  p2 = p2
  p3 = p3
  p4 = p4
  p5 = p5
  Predictions <- FivePredictions
  PageLimit = 2
  MaxPages = 2
  MaxRetries = 1
  DefaultBackoff = 1
  MaxHonoredRetryAfter = 2
  RetryAfters <- Minute
  MaxChanges = 3
  MaxSlept = 60
SPECIFICATION FetchSpec
INVARIANTS FetchTypeOK MissedAtMostRemoved BackoffIsBounded
PROPERTIES FetchIsOneRead RequestsRunDown FetchEnds
CHECK_DEADLOCK FALSE
