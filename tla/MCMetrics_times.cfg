SPECIFICATION Spec
CONSTANTS
  c1 = c1
  c2 = c2
  harness = harness
  Conns = {c1}
  Tools = {harness}
  MaxRecords = 1
  MaxResets = 0
  MaxSnapshots = 1
INVARIANTS SnapshotTimesOrdered
