SPECIFICATION Spec
CONSTANTS
  Files = {"user", "packaged", "extra"}
  Directories = {"home", "usr", "themes"}
  Lasting = {"home", "usr"}
  Lineage <- InLine
  Candidates <- Wishes
  Texts <- Written
  FirstDisks <- Beginnings
  None = None
  MaxEvents = 3
INVARIANTS
  TypeOK AtRestCurrent PolicyIsWhole
PROPERTIES
  PreviousIsKept ComesToRest
CHECK_DEADLOCK FALSE
