SPECIFICATION Spec
CONSTANTS
  i1 = i1
  i2 = i2
  i3 = i3
  binding = binding
  k1 = k1
  k2 = k2
  u1 = u1
  MaxSavedIds = 2
  Ids <- MCIds
  Methods <- MCMethods
  Keys <- MCKeys
  Users <- MCUsers
  NoKey = NoKey
  NoUser = NoUser
  NoId = NoId
  PasswordOf <- MCPasswordOf
  Messages <- MCMessages
  ShortTerm = TRUE
  LongTerm = FALSE
  IgnoreCredentials = FALSE
  NoIndicationAuth = FALSE
  ForceValidater = FALSE
  UseFingerprint = TRUE
INVARIANTS Consistent Authenticated StillMatchable
PROPERTIES ImplementsPool
CHECK_DEADLOCK FALSE
SYMMETRY Symmetry
