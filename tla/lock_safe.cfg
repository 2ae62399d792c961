SPECIFICATION Spec
CONSTANTS
  Outputs = {o1, o2}
  None = None
  Desktop = Desktop
  MaxFlight = 2
  SeqBound = 4
  MaxDisruptions = 2
VIEW Relative
SYMMETRY Exchange
INVARIANTS
  TypeOK LockedMeansSecure KeyboardOnLock
PROPERTIES
  ConfirmedAfterPresented BlankOutlivesClient KeepsPromise
