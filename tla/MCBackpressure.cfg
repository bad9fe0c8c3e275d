SPECIFICATION Spec
CONSTANTS
  p1 = p1
  p2 = p2
  Clients = {p1, p2}
  PromptClients = {p1}
  SocketCap = 1
  Capacity = 1
  MaxTyped = 2
INVARIANTS
  TypeOK
  NoEventIsForgotten
PROPERTIES
  CommitsAreNeverBlocked
  SlownessIsLocal
CHECK_DEADLOCK FALSE
