\* Every size up to 600, past the repeated classes and the first header change,
\* and every value of up to three elements with lengths at the limits of the
\* encodings.
CONSTANTS
  MaxSize = 600
  Lengths = {1, 63, 64, 254, 4000, 8180}
  MaxElements = 3
  KeyLengths = {3, 251, 255}
SPECIFICATION Spec
INVARIANTS
  MallocFindsLeastClass
  TablesHoldAll
  AddingNeverShrinks
  ContentIsCovered
CHECK_DEADLOCK FALSE
