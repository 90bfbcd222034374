CONSTANTS
  p = p
  q = q
  r1 = r1
  r2 = r2
  v1 = v1
  NoClient = NoClient
  NoJob = NoJob
  Unset = Unset
  Clients = {p, q}
  Primaries = {p}
  Maintainers = {q}
  Regs = {}
  Vals = {v1}
  MaxJobs = 2
  MaxQueue = 1
  MaxSize = 1
  MaxReports = 1
  Events = {"key", "fault"}
  Speeds = {"pot"}
SPECIFICATION FairSpec
PROPERTIES EveryJobEnds LeaseReturned
