SPECIFICATION WebRtcSpec
CONSTANTS
  ctrl = ctrl
  reload = reload
  player = player
  second = second
  Clients = {ctrl, reload, player, second}
  MaxServers = 2
  Role <- MCRole
  Display <- MCDisplay
  Slot <- MCSlot
  Strict <- MCStrict
  NoSlot = 99
  Primary = "primary"
  AllowedSlots = {1, 2}
  EnableSharing = TRUE
  EnableShared = TRUE
  StormLimit = 1
  Contested <- MCContested
  Leavers = {ctrl, second, 1}
  d1 = d1
  d2 = d2
  Channels = {d1, d2}
  DcSizes = {1, 2, 3}
  KeySizes = {1, 2}
  Encoders = {1, 2}
  MinPace = 1
  BurstFloor = 2
  PacePerBurst = 2
  IdrWindow = 1
  HighWater = 3
  LowWater = 1
  Deadline = TRUE
  PacerBudgets <- MCPacerBudgets
INVARIANT OneHolder
INVARIANT NoOrphan
INVARIANT ServerLives
INVARIANT SessionsEnd
INVARIANT NoStaleSession
INVARIANT Presence
INVARIANT Unblocked
INVARIANT Ledger
INVARIANT KeyframeFits
INVARIANT Prompt
CHECK_DEADLOCK FALSE
