CONSTANTS
  p = p
  q = q
  r1 = r1
  r2 = r2
  v1 = v1
  NoClient = NoClient
  NoJob = NoJob
  Unset = Unset
  Clients = {p, q}
  Primaries = {p}
  Maintainers = {q}
  Regs = {r1}
  Vals = {v1}
  MaxJobs = 1
  MaxQueue = 1
  MaxSize = 1
  MaxReports = 1
  Events = {"fault", "cat", "paddle", "key"}
  Speeds = {"pot", "fixed"}
SPECIFICATION Spec
INVARIANTS SettingsInEffect MaintenanceSilent HostMode
