\* Two clean tasks, one for a user and one for a pattern, over four keys, two
\* slots and two SCAN calls.
CONSTANTS
  Char <- MCChar
  Task = {"t1", "t2"}
  Key <- MCKey
  Slot = {1, 2}
  SlotOf <- MCSlotOf
  Parts = 2
  PartOf <- MCPartOf
  UserOf <- MCUserOf
  StartCursor <- MCStartCursor
  Flush = 2
SPECIFICATION FairSpec
INVARIANTS
  TypeOK
  CleanIsComplete
  NothingForgotten
  BatchesAreLegal
PROPERTIES
  RemovesOwnKeysOnly
  TasksEnd
