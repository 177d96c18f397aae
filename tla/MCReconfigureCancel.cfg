SPECIFICATION Spec
CONSTANTS
  a = a
  b = b
  c = c
  audio = audio
  Tasks <- MCTasks
  Cancellable = {audio}
INVARIANT AlwaysHonored
