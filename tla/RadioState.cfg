SPECIFICATION Spec
CONSTANTS
  Hz = {1, 2}
  RadioModes = {"USB", "CW"}
  Asks = {"freq", "mode", "split"}
  Knobs = {"freq", "mode", "rx"}
  Unasked = {"DA", "PC"}
  MaxWrites = 2
  MaxKnobs = 1
  NoRequest = NoRequest
INVARIANTS CacheInv WriteHolds
