CONSTANTS
  r1 = r1
  s1 = s1
  t1 = t1
  v1 = v1
  x1 = x1
  Missing = Missing
  Null = Null
  Mistyped = Mistyped
  Nested = Nested
  Unreal = Unreal
  Instants <- MCInstants
  Dates = {0}
  Ids <- MCIds
  Pages <- MCPages
  LocalHour <- MCLocalHour
  SettleMargin = 1
  Sinces = {0, 2}
  Untils = {2, 4}
  AsOfs = {2, 4}
  MaxTime = 3
SPECIFICATION Spec
INVARIANTS TypeOK CleanPagesMap LabelsAreReproducible
