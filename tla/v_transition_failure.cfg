SPECIFICATION Spec
CONSTANTS
  MaxWorkspaces = 4
  v1 = v1
  v2 = v2
  t1 = t1
  Views = {v1}
  Launches = {}
  Names = {"a", "b", "c"}
  Anonymous = Anonymous
  None = None
  Configs <- PlainConfigs
  Disturbances = {"transition_failure"}
VIEW Canonical
INVARIANTS
  NoWildPointer
