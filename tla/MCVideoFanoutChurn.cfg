SPECIFICATION Spec
CONSTANTS
  a = a
  b = b
  top = top
  NoClient = NoClient
  Clients <- MCClients
  Rows <- MCRows
  Size <- MCSize
  Budget = 2
  Primary = TRUE
  Stayer = a
  Pausers = {b}
  MaxEvents = 2
INVARIANT ChainsSafe
CHECK_DEADLOCK FALSE
