SPECIFICATION Spec
CONSTANTS
  Outputs = {1, 2}
  Views = {v1, v2}
  Names = {"n"}
  Anonymous = Anonymous
  None = None
  MaxWorkspaces = 6
  Config <- OneName
  Present <- Both
  MaxEvents = 5
VIEW Shapes
SYMMETRY Exchange
INVARIANTS
  TypeOK BackOnItsOutput NobodyLost DisabledIsEmpty
PROPERTIES
  CompanyKept
CHECK_DEADLOCK FALSE
