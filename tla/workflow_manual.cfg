SPECIFICATION Spec
CONSTANTS
  k1 = k1
  k2 = k2
  Keys <- OneKey
  ExpiringKeys = {}
  NoSecretRefKeys = {}
  ProductStates <- Manual
  ConsumerSecrets <- Usable
  UserActions <- ReviewedByOwner
  MaxUserActions = 4
INVARIANTS
  TypeOK
  RequestsShadowKeys
  ApprovalsFollowRequests
  LostOwnersAreReplaced
PROPERTIES
  ImplementsLifecycle
CHECK_DEADLOCK FALSE
