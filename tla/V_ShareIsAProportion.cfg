\* A dump without any key that expires.
CONSTANTS
  a = a
  b = b
  User = {a, b}
  NoUser = NoUser
  Files <- MCNoExpiryFiles
  Cap = 2
  Old = Old
  NaNToUint64 <- MCNaN
SPECIFICATION Spec
INVARIANT
  ShareIsAProportion
