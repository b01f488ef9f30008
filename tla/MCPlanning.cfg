CONSTANTS
  i1 = i1 i2 = i2 i3 = i3 d1 = d1 d2 = d2 p1 = p1 p2 = p2
  NoItem = NoItem Unset = Unset
  ItemIds = {i1, i2, i3}
  TodoIds = {d1, d2}
  Projects = {p1, p2}
  ItemInputs <- AnyItems
  TodoInputs <- SomeTodos
  Given = {1}
  MaxPosition = 2
SYMMETRY Ids
SPECIFICATION Spec
INVARIANTS TwoLevels AttachmentsLocal OrderKept
