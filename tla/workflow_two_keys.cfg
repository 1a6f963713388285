SPECIFICATION Spec
CONSTANTS
  k1 = k1
  k2 = k2
  Keys <- TwoKeys
  ExpiringKeys = {}
  NoSecretRefKeys = {}
  ProductStates <- Manual
  ConsumerSecrets <- ComesAndGone
  UserActions <- Outages
  MaxUserActions = 3
INVARIANTS
  RequestsShadowKeys
CHECK_DEADLOCK FALSE
