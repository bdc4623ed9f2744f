SPECIFICATION Spec
CONSTANTS
  Conns = {1, 2, 3}
  Capacity = 2
  NoConn = 0
  Fields = {"uri", "group"}
  MaxMoves = 3
INVARIANTS
  Inv EventsNotUndone EventFromTarget NoHandlerOfDestroyed AllJoined SidsGivenBack
  ShutdownNeverStuck
PROPERTIES ShutdownGoesOn
CHECK_DEADLOCK FALSE
