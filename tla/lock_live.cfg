SPECIFICATION FairSpec
CONSTANTS
  Outputs = {o1, o2}
  None = None
  Desktop = Desktop
  MaxFlight = 1
  SeqBound = 1
  MaxDisruptions = 2
PROPERTIES
  HandoffEnds
