\* Numbers on both sides of every limit of the integer encodings, lengths on
\* both sides of the limits of the length encodings and of the entry lengths
\* that follow them, repetitions that need short, long and far references, and
\* lists on both sides of a count of Unknown (65535 in Redis).
CONSTANTS
  Unknown = 4
  Lengths = {0, 1, 63, 64, 125, 126, 250, 251}
  LongLengths = {4095, 4096, 16377, 16378}
  FewElements = {1, 7, 251}
  MaxElements = 5
  MaxSlack = 8
  NodeSize = 2
  KeyBytes = {97, 123, 125}
  MaxKey = 6
SPECIFICATION Spec
INVARIANTS
  ValuesLoad
  UncountedListsLoad
  StreamsLoad
  ModulesPassedOver
  SlotsAgree
CHECK_DEADLOCK FALSE
