CONSTANTS
  i1 = i1 i2 = i2 p1 = p1 f1 = f1 f2 = f2 v1 = v1 v2 = v2 b1 = b1 b2 = b2
  ItemIds = {i1, i2}
  TodoIds = {}
  Projects = {p1}
  NoItem = NoItem
  Unset = Unset
  ItemInputs <- AnItem
  TodoInputs = {}
  Given = {}
  MaxPosition = 1
  Paths = {f1, f2}
  NoPlan = NoPlan
  Versions = {v1, v2}
  Gone = Gone
  TasksOf <- Tasks
  BatchIds = {b1, b2}
  ProposalLists <- Lists
  NoCall = NoCall
SPECIFICATION SyncSpec
SYMMETRY Same
INVARIANTS OnePendingPerVersion AcknowledgedDecided TasksImportedOnce RoadmapSound
PROPERTY NotAppliedTwice
