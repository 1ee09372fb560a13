\* One task and a node that is restarted.
CONSTANTS
  t1 = t1
  t2 = t2
  t3 = t3
  Task = {t1}
  MaxWrites = 1
  MaxOwnSaves = 0
SPECIFICATION Spec
INVARIANT
  SnapshotIsFresh
