CONSTANTS
  job = job
  by_hand = by_hand
  Job = job
  Publishers <- MCJobOnly
  Minute = 60
  MaxSnapshots = 2
  Multiplier = 3
  Pauses <- MCPauses
  MaxRuns = 4
SPECIFICATION PublishSpec
INVARIANT DistinctEventsKeepTheirRows
