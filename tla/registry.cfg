SPECIFICATION Spec
CONSTANTS
  Clients = {c1, c2, c3}
  Walkers = {c2}
  NoClient = NoClient
  Listener = Listener
  MaxSignals = 1
  Address <- MCAddress
CHECK_DEADLOCK FALSE
INVARIANT HolderAtWork
PROPERTIES  UnknownOnlyInARace QuitsWhenTold
