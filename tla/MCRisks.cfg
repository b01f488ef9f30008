CONSTANTS
  e1 = e1 e2 = e2 e3 = e3 t1 = t1 p1 = p1 s1 = s1 s2 = s2
  r1 = r1 r2 = r2 u1 = u1 u2 = u2 w1 = w1 f1 = f1 f2 = f2
  NoState = NoState NoEvent = NoEvent NoRisk = NoRisk NoStatus = NoStatus NoCall = NoCall
  EventIds = {e1, e2, e3}
  Tasks = {t1}
  Keyless = {}
  Projects = {p1}
  Registered = {p1}
  Owner <- OwnerOfTask
  States = {s1, s2}
  Inputs <- RiskInputs
  Explicit = {FALSE}
  MaxEvents = 3
  Risks = {r1, r2}
  RiskProject <- ProjectOfRisk
  Fingerprints = {f1, f2}
  Targets = {"New", "Accepted"}
  Callers = {u1, u2}
  Times = {0, 3}
  Calls <- RiskCalls
  Observed <- ObservedAt
  MaxClock = 5
  Viewers = {w1}
  NoPage = NoPage
  Alarming = {e1, e2}
  Deciding = {}
  WithAction = {e1, e2, e3}
  Inactive = {s2}
SYMMETRY TheCallers
SPECIFICATION PagesSpec
INVARIANTS TransitionsChain HiddenWasWeighed NextWorkWasDue WatchComplete
PROPERTIES PastStable
