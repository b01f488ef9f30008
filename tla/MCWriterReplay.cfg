CONSTANTS
  e1 = e1 e2 = e2 e3 = e3 e4 = e4 t1 = t1 p1 = p1 s1 = s1 s2 = s2 a = a b = b
  NoState = NoState NoEvent = NoEvent NoReply = NoReply StateConflict = StateConflict
  EventIds = {e1, e2, e3}
  Tasks = {t1}
  Keyless = {}
  Projects = {p1}
  Registered = {p1}
  Owner <- OwnerOfTask
  States = {s1, s2}
  Inputs <- RivalInputs
  Explicit = {FALSE}
  MaxEvents = 3
  Lifecycles = {"Active", "Paused", "Completed"}
  Producers = {a}
  MaxCalls = 3
  MaxFailures = 0
SPECIFICATION WriterSpec
INVARIANT ReplayReturnsOriginal
