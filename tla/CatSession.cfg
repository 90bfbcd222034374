CONSTANTS
  Nothing = Nothing
  Hz = {1, 2}
  RadioModes = {"USB", "CW"}
  Grants <- MCGrants
  RingCap = 2
  MaxMoves = 3
SPECIFICATION Spec
INVARIANTS CatInv SessionFollows HiddenVfo
CHECK_DEADLOCK FALSE
