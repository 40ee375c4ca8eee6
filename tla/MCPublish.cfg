CONSTANTS
  job = job
  by_hand = by_hand
  Job = job
  Publishers <- MCPublishers
  Minute = 15
  MaxSnapshots = 1
  Multiplier = 1
  Pauses <- MCPauses
  MaxRuns = 3
SPECIFICATION FairPublishSpec
INVARIANTS DerivedGapsArePublished NewestSnapshotsAreKept GapsAreTrue
PROPERTIES PushesHealForGood PublishHeals
