\* Every small file, a channel of two, failovers at any time.
CONSTANTS
  a = a
  b = b
  User = {a, b}
  NoUser = NoUser
  Files <- MCFiles
  Cap = 2
  Old = Old
  NaNToUint64 <- MCNaN
SPECIFICATION FairSpec
INVARIANTS
  TypeOK
  NothingLostInFlight
  ResultIsExact
  SharesAddUp
PROPERTY
  PipelineEnds
