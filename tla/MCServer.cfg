SPECIFICATION ServerSpec
CONSTANTS
  u1 = u1
  u2 = u2
  r1 = r1
  r2 = r2
  Ids = {u1, u2}
  Requests = {r1, r2}
  FileSize = 2
  Part = Part
  NoFile = NoFile
  NoId = NoId
  NoTotal = NoTotal
  c1 = c1
  c2 = c2
  Sockets = {c1, c2}
  Grants <- MCGrants
  NoGrant = NoGrant
  NoSocket = NoSocket
  Tables <- MCTables
  MaxReplaces = 2
  o1 = o1
  o2 = o2
  watcher = watcher
  Owners = {o1, o2}
  Viewers = {watcher}
  NoOne = NoOne
  MaxEvents = 3
  Sizes <- MCSizes
  Fallbacks <- MCFallbacks
  Sides = {"right", "left", "up"}
  NoRegion = NoRegion
  StopRequest = StopRequest
  MaxChanges = 3
  MaxRefusals = 2
  page = page
  revisit = revisit
  viewer = viewer
  Drivers = {page, revisit}
  Watchers = {viewer}
  NoPeer = NoPeer
  Budgets <- MCBudgets
INVARIANT WholeFile
INVARIANT Undisturbed
INVARIANT Banked
INVARIANT RolesReconciled
INVARIANT VerdictTold
INVARIANT WantedRuns
INVARIANT Throttled
INVARIANT Registered
INVARIANT DesktopRealised
INVARIANT RegionsInRoot
INVARIANT CaptureFollows
INVARIANT ViewersFollow
INVARIANT InputReleased
INVARIANT GraphKept
CHECK_DEADLOCK FALSE
