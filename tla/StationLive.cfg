CONSTANTS
  c1 = c1
  c2 = c2
  Watchdog = Watchdog
  MainTask = MainTask
  Poller = Poller
  Nobody = Nobody
  NoOp = NoOp
  Clients = {c1, c2}
  PttClients = {c1}
  SessionIds = {c1, c2, Poller}
  Actors = {c1, c2, Watchdog, MainTask, Poller}
  Kinds = {"tx", "rx", "other", "poll"}
  MaxTx = 1
  OtherPrio = {1}
  Outcomes = {"done"}
SPECIFICATION FairSpec
INVARIANTS StationTypeOK ExactlyOneInFlight
PROPERTY Backstop
