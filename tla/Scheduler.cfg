CONSTANTS
  c1 = c1
  c2 = c2
  watchdog = watchdog
  poller = poller
  NoOp = NoOp
  SessionIds = {c1, c2, poller}
  Actors = {c1, c2, watchdog, poller}
  Kinds = {"tx", "rx", "write", "read", "poll"}
  ChannelCap = 2
  Requests <- MCRequests
  MaxSubmits = 5
SPECIFICATION Spec
INVARIANT SubmitsKept
PROPERTY ImplementsFifo
PROPERTY EverySubmitAnswered
