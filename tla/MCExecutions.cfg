CONSTANTS
  x = x y = y j1 = j1 j2 = j2 q1 = q1 q2 = q2 r1 = r1 u2 = u2 c1 = c1 c2 = c2 a = a b = b
  NoRecord = NoRecord NoExecution = NoExecution
  ExecutionIds = {x, y}
  Jobs = {j1, j2}
  Timeline <- StraightTimeline
  Raws = {q1, q2, r1, u2, c1, c2}
  Pollers = {a, b}
  MaxPolls = 4
SPECIFICATION Spec
CHECK_DEADLOCK FALSE
INVARIANTS OnlyOverlapTakesBack InactiveMeansEnded
