SPECIFICATION FairSpec
CONSTANTS
  top = top
  bottom = bottom
  Rows <- MCRows
  Size <- MCSize
  Budget = 2
  Codecs = {"h264", "jpeg"}
  MaxEvents = 2
INVARIANT TypeOK
INVARIANT ChainSafe
INVARIANT BacklogBounded
PROPERTY CaughtUp
CHECK_DEADLOCK FALSE
