\* Objects rendered from templates: merged, and created if they do not exist.
SPECIFICATION FairSpec
CONSTANTS
  c1 = c1
  c2 = c2
  spec = spec
  extra = extra
  owned = owned
  map = map
  v1 = v1
  v2 = v2
  NoValue = NoValue
  Calls = {c1, c2}
  Fields = {spec, extra, owned}
  Values = {v1, v2}
  Desired <- MCDesired
  Replaces = FALSE
  MaxFaults = 2
  MaxOther = 3
  Keys = {spec, extra, owned, map}
  Scalars = {v1, v2}
  Absent = Absent
  Depth = 1
  Tried = {spec, extra}
  Inner = {spec, extra}
INVARIANTS
  TypeOK
  MergedAsMaps
PROPERTIES
  NoLostUpdate
  ImplementsUpsert
  EveryCallSucceeds
CHECK_DEADLOCK FALSE
