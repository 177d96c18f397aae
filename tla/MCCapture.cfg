SPECIFICATION CaptureSpec
CONSTANTS
  o1 = o1
  o2 = o2
  watcher = watcher
  Owners = {o1, o2}
  Viewers = {watcher}
  NoOne = NoOne
  MaxEvents = 3
INVARIANT ResetPerStop
CHECK_DEADLOCK FALSE
