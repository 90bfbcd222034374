CONSTANTS
  Nothing = Nothing
  Scale = 20
  MaxU32 = 255
  Clients = {"wsjtx", "logger"}
  SingleVfo = {"logger"}
  Grant = {"read", "write"}
  Hz = {1, 2}
  MainTokens <- MCMain
  SplitTokens <- MCSplit
  Levels = {3, 20}
  Errors = {"m", "x", "l"}
  MaxEvents = 3
SPECIFICATION Spec
INVARIANTS BridgeInv CommandHolds HiddenFromLoggers ExtendedEnds
CHECK_DEADLOCK FALSE
