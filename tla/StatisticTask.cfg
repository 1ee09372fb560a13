\* Two tasks, dumps of the node itself, restarts and failovers at any time, fair
\* goroutines.
CONSTANTS
  t1 = t1
  t2 = t2
  t3 = t3
  Task = {t1, t2}
  MaxWrites = 2
  MaxOwnSaves = 2
SPECIFICATION FairSpec
INVARIANTS
  TypeOK
  FreshUnlessVoided
PROPERTIES
  ResultGoesBackByOverlapOnly
  TasksEnd
