CONSTANTS
  poller = poller
  by_hand = by_hand
  Writers <- MCWriters
  MaxId = 4
SPECIFICATION FairSwapSpec
PROPERTIES TableSpec OnlyCommitsFailTheCounts RerunCompletes
CHECK_DEADLOCK FALSE
