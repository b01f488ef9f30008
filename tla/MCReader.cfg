CONSTANTS
  e1 = e1 e2 = e2 e3 = e3 t1 = t1 t2 = t2 p1 = p1 p2 = p2 s1 = s1 s2 = s2 r1 = r1 r2 = r2
  n1 = n1
  NoState = NoState NoEvent = NoEvent StateConflict = StateConflict NoTask = NoTask
  NoSequence = NoSequence NoQuery = NoQuery
  EventIds = {e1, e2, e3}
  Tasks = {t1, t2}
  Keyless = {}
  Projects = {p1, p2}
  Registered = {p1, p2}
  Owner <- OwnerOfTask
  States = {s1, s2}
  Inputs <- ReaderInputs
  Explicit = {FALSE}
  MaxEvents = 3
  Readers = {r1, r2}
  Names = {n1}
  Scopes = {{p1, p2}, {p2}}
  Sequences = {1, 2}
SYMMETRY TheReaders
SPECIFICATION ReviewsSpec
INVARIANTS HiddenOnlyBySettlement ReviewedWasShown DisputesRedacted
