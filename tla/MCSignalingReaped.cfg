SPECIFICATION Spec
CONSTANTS
  ctrl = ctrl
  reload = reload
  player = player
  second = second
  Clients = {ctrl, player}
  MaxServers = 1
  Role <- MCRole
  Display <- MCDisplay
  Slot <- MCSlot
  Strict <- MCStrict
  NoSlot = 99
  Primary = "primary"
  AllowedSlots = {1, 2}
  EnableSharing = TRUE
  EnableShared = TRUE
  StormLimit = 1
  Contested <- MCContested
  Leavers = {ctrl, player}
CHECK_DEADLOCK FALSE
INVARIANT Reaped
