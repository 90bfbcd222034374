CONSTANTS
  p = p
  q = q
  r1 = r1
  r2 = r2
  v1 = v1
  NoClient = NoClient
  NoJob = NoJob
  Unset = Unset
  Clients = {p, q}
  Primaries = {p}
  Maintainers = {}
  Regs = {}
  Vals = {v1}
  MaxJobs = 3
  MaxQueue = 2
  MaxSize = 2
  MaxReports = 1
  Events = {"fault", "stop", "expiry", "shutdown"}
  Speeds = {"pot"}
SPECIFICATION Spec
INVARIANTS JobsKept JobsInOrder LeaseSpansJobs
