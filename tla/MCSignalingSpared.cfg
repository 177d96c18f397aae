SPECIFICATION Spec
CONSTANTS
  ctrl = ctrl
  reload = reload
  player = player
  second = second
  Clients = {ctrl, second}
  MaxServers = 1
  Role <- MCRole
  Display <- MCDisplay
  Slot <- MCSlot
  Strict <- MCStrict
  NoSlot = 99
  Primary = "primary"
  AllowedSlots = {1, 2}
  EnableSharing = TRUE
  EnableShared = TRUE
  StormLimit = 1
  Contested <- MCContested
  Leavers = {second}
CHECK_DEADLOCK FALSE
PROPERTY ServerSpared
