SPECIFICATION ControlSpec
CONSTANTS
  a = a
  b = b
  c = c
  audio = audio
  Tasks <- MCTasks
  Cancellable = {audio}
  ws = ws
  rtc = rtc
  s1 = s1
  s2 = s2
  Switchers = {s1, s2}
  Modes = {ws, rtc}
  NoMode = NoMode
  Shutdown = Shutdown
  MaxStarts = 2
  IdSpace = 7
  Windows = {1, 2}
  StallChecks = 1
  MaxBurst = 1
  MaxFlight = 2
  MaxAge = 2
  NoFrame = NoFrame
  Reset = Reset
INVARIANT TypeOK
INVARIANT NothingStranded
PROPERTY Converges
INVARIANT OneService
INVARIANT Tracked
INVARIANT DeadNotReported
PROPERTY SwitchAnswered
INVARIANT LagBounded
PROPERTY Unlatched
PROPERTY StallGated
CHECK_DEADLOCK FALSE
