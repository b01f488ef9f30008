CONSTANTS
  x = x y = y j1 = j1 j2 = j2 q1 = q1 q2 = q2 r1 = r1 u2 = u2 c1 = c1 c2 = c2 a = a b = b
  NoRecord = NoRecord NoExecution = NoExecution
  ExecutionIds = {x}
  Jobs = {j1}
  Timeline <- RequeuedTimeline
  Raws = {q1, q2, r1, u2, c1, c2}
  Pollers = {a}
  MaxPolls = 3
SPECIFICATION Spec
CHECK_DEADLOCK FALSE
INVARIANT SummaryInIngestionOrder
