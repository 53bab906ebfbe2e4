\* The credential secret: its data is replaced.
SPECIFICATION FairSpec
CONSTANTS
  c1 = c1
  c2 = c2
  spec = spec
  extra = extra
  owned = owned
  map = map
  v1 = v1
  v2 = v2
  NoValue = NoValue
  Calls = {c1, c2}
  Fields = {spec, extra}
  Values = {v1, v2}
  Desired <- MCDesiredWhole
  Replaces = TRUE
  MaxFaults = 2
  MaxOther = 3
  Keys = {spec, extra, owned, map}
  Scalars = {v1, v2}
  Absent = Absent
  Depth = 1
  Tried = {spec, extra}
  Inner = {spec, extra}
PROPERTIES
  SuccessMeansApplied
  ImplementsUpsert
  EveryCallSucceeds
CHECK_DEADLOCK FALSE
