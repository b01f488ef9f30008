CONSTANTS
  e1 = e1 e2 = e2 p1 = p1 p2 = p2 i1 = i1 i2 = i2
  f = f outer = outer inner = inner a = a b = b
  NoState = NoState NoEvent = NoEvent NoProject = NoProject
  EventIds = {e1, e2}
  Tasks <- ImportTasks
  Keyless = {}
  Projects = {p1, p2}
  Registered = {p1, p2}
  Owner <- OwnerOfImport
  States = {}
  Inputs <- NoInputs
  Explicit = {FALSE}
  MaxEvents = 2
  Items = {i1, i2}
  Content <- Texts
  Created <- ItemsInOrder
  ImportEvent <- Imports
  Paths = {f}
  Within <- Directories
  Lifecycles = {"Active", "Completed"}
  InitialRoots <- RootsAtFirst
  Routers = {a, b}
  Scheduled = a
  MaxFailures = 1
SPECIFICATION FairInboxSpec
INVARIANTS AssignedIffImported OnlyAttributable
PROPERTY ClearItemsRouted
