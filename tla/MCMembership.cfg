CONSTANTS
  p1 = p1 p2 = p2 r1 = r1 r2 = r2 n1 = n1 n2 = n2 f1 = f1 f2 = f2 d1 = d1 d2 = d2
  a = a b = b
  NoState = NoState NoEvent = NoEvent Unregistered = Unregistered NoRoot = NoRoot
  NoDigest = NoDigest NoLog = NoLog
  EventIds <- Ids
  Tasks <- TheTasks
  Keyless = {}
  Projects = {p1, p2}
  Registered = {p1, p2}
  Owner <- OwnerOfTask
  States = {}
  Inputs = {}
  Explicit = {FALSE}
  MaxEvents = 4
  Roots = {r1, r2}
  CandidateId <- IdOfRoot
  Syncs = {a, b}
  Given = {"Active", "Completed"}
  LogNames = {n1, n2}
  Files = {f1, f2}
  Written = {f1}
  PathOf <- Paths
  Digests = {d1}
  MaxFaults = 1
SPECIFICATION LogSyncSpec
INVARIANTS OneOwner CandidatesRooted ImportedOnce HiddenUntilAdmitted
PROPERTIES LogsImported
