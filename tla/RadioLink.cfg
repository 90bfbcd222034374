CONSTANTS
  w = w
  a = a
  b = b
  NoCmd = NoCmd
  Callers = {w}
  Verbs = {a, b}
  Styles = {"verbs", "lines"}
  BackoffMax = 2
  MaxCmds = 3
  MaxPush = 2
  MaxDrops = 1
SPECIFICATION FairSpec
INVARIANTS LinkInv OwnReply PushesKept Rearmed
PROPERTY EveryCommandAnswered
CHECK_DEADLOCK FALSE
