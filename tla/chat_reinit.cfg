SPECIFICATION ChatSpec
CONSTANTS
  Chatters = {a, b}
  Copies = 2
  Window = 1
  Restarting = {a}
  Relaunching = {}
  MaxLines = 2
  MaxRuns = 2
INVARIANT OnlyCopiesDropped
CHECK_DEADLOCK FALSE
