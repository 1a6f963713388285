SPECIFICATION Spec
CONSTANTS
  k1 = k1
  k2 = k2
  Keys <- OneKey
  ExpiringKeys = {}
  NoSecretRefKeys = {}
  ProductStates <- Automatic
  ConsumerSecrets <- Usable
  UserActions <- ReviewedByEither
  MaxUserActions = 1
INVARIANTS
  AutomaticRequestsApproved
CHECK_DEADLOCK FALSE
