CONSTANTS
  MonthsAhead = 2
  Provisioned = 3
  LastMonth = 5
SPECIFICATION PartSpec
INVARIANT DefaultIsForStragglers
