SPECIFICATION Spec
CONSTANTS
  MaxWorkspaces = 3
  v1 = v1
  v2 = v2
  t1 = t1
  Views = {v1}
  Launches = {t1}
  Names = {"a", "b", "c"}
  Anonymous = Anonymous
  None = None
  Configs <- ReloadConfigs
  Disturbances = {}
VIEW Canonical
INVARIANTS
  NoDangling OrderIsDense WithinLimit NoWildPointer PreviousIsElsewhere
PROPERTIES
  LaunchKeepsWorkspace DeclaredNameKeepsIdentity ReloadFollowsActive ViewsKeepAHome
