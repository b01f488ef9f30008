CONSTANTS
  a = a b = b d = d n1 = n1
  Conns = {a, b, d}
  Unread = Unread
  NoJob = NoJob NoFile = NoFile
  SnapshotNames = {n1}
  MaxWrites = 2
  MaxDepth = 2
SPECIFICATION SnapshotsSpec
INVARIANTS AllOrNothing SnapshotsConsistent
PROPERTIES NoLostUpdate WriteLockComesFree
