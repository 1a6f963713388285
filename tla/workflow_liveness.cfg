SPECIFICATION FairSpec
CONSTANTS
  k1 = k1
  k2 = k2
  Keys <- OneKey
  ExpiringKeys <- OneKey
  NoSecretRefKeys = {}
  ProductStates <- Manual
  ConsumerSecrets <- Usable
  UserActions <- Revocations
  MaxUserActions = 3
INVARIANTS
  DecisionReachesKey
PROPERTIES
  ImplementsLifecycle
  ControllersComeToRest
  RevocationTakesEffect
  ExpiryTakesEffect
CHECK_DEADLOCK FALSE
