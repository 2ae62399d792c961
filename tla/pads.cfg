SPECIFICATION Spec
CONSTANTS
  v1 = v1
  v2 = v2
  d1 = d1
  Views = {v1, v2, d1}
  Owner <- OwnerOf
  Sessions <- Running
  Names = {1, 2}
  Configs <- TwoPads
  Spawns = {2}
  o1 = o1
  o2 = o2
  Outputs = {o1, o2}
  None = None
  Present = {o1, o2}
  MaxEvents = 4
SYMMETRY Exchange
INVARIANTS
  TypeOK PointersAreMembers OutputsAreListed OnePadPerOutput ShowsWhatItHolds BackOnItsOutput
PROPERTIES
  FocusFollows
CHECK_DEADLOCK FALSE
