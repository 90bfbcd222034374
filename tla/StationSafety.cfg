CONSTANTS
  c1 = c1
  c2 = c2
  Watchdog = Watchdog
  MainTask = MainTask
  Poller = Poller
  Nobody = Nobody
  NoOp = NoOp
  Clients = {c1, c2}
  PttClients = {c1, c2}
  SessionIds = {c1, c2, Poller}
  Actors = {c1, c2, Watchdog, MainTask, Poller}
  Kinds = {"tx", "rx", "other", "poll"}
  MaxTx = 1
  OtherPrio = {}
  Outcomes = {"done", "refused", "unanswered", "lost"}
SPECIFICATION Spec
SYMMETRY MCSymmetry
INVARIANTS LeaseCoversKey DisconnectDropsTx CleanExit
PROPERTY NoTakeover
