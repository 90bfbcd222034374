CONSTANTS
  n1 = n1
  n2 = n2
  n3 = n3
  Names = {n1, n2, n3}
  Grants <- MCGrants
  Messages <- MCMessages
  Statuses <- MCStatuses
  MaxTyped = 2
  MaxQueue = 1
  MaxSize = 6
  RingCap = 2
  MaxMoves = 3
SPECIFICATION Spec
INVARIANTS EndpointInv BytesInOrder  MaintenanceHeld Authority
CHECK_DEADLOCK FALSE
