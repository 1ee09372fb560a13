\* Three POSTs and one GET: every pair of handlers and task goroutines
\* interleaves, with crashes and restarts.
CONSTANTS
  r1 = r1
  r2 = r2
  r3 = r3
  q1 = q1
  q2 = q2
  NoTask = NoTask
  Request = {r1, r2, r3}
  Reader = {q1}
  TaskId <- MCTaskId
  Body <- MCBody
SPECIFICATION Spec
SYMMETRY Symmetry
INVARIANTS
  TypeOK
  MapWritesExclusive
  AckIsBacked
  OneRunPerTaskId
  StatisticOverlapExplained
  LogClosesOnce
PROPERTY
  NoRebinding
