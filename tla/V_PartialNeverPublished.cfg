\* A failover while a small file is parsed.
CONSTANTS
  a = a
  b = b
  User = {a, b}
  NoUser = NoUser
  Files <- MCNoExpiryFiles
  Cap = 2
  Old = Old
  NaNToUint64 <- MCNaN
SPECIFICATION Spec
INVARIANT
  PartialNeverPublished
