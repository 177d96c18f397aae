SPECIFICATION Spec
CONSTANTS
  a = a
  b = b
  top = top
  NoClient = NoClient
  Clients <- MCClients
  Rows <- MCRows
  Size <- MCSize
  Budget = 2
  Primary = FALSE
  Stayer = a
  Pausers = {}
  MaxEvents = 2
PROPERTY NoTornReuse
CHECK_DEADLOCK FALSE
