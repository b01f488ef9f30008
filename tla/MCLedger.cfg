CONSTANTS
  e1 = e1 e2 = e2 e3 = e3 e4 = e4
  t1 = t1 t2 = t2 p1 = p1 p2 = p2 s1 = s1 s2 = s2
  NoState = NoState NoEvent = NoEvent
  EventIds = {e1, e2, e3, e4}
  Tasks = {t1, t2}
  Keyless = {t2}
  Projects = {p1, p2}
  Registered = {p1, p2}
  Owner <- OwnerOfTasks
  States = {s1, s2}
  Inputs <- DeepInputs
  Explicit = {TRUE, FALSE}
  MaxEvents = 4
SYMMETRY Ids
SPECIFICATION Spec
INVARIANTS TypeOK ChainAccounted ConflictsWellFormed OldestSettledFirst
PROPERTIES HistoryKept TaskStatesKept
