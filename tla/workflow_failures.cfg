SPECIFICATION Spec
CONSTANTS
  k1 = k1
  k2 = k2
  Keys <- OneKey
  ExpiringKeys = {}
  NoSecretRefKeys = {}
  ProductStates <- ComesAndGoes
  ConsumerSecrets <- Usable
  UserActions <- Failures
  MaxUserActions = 3
INVARIANTS
  DecisionReachesKey
  ExclusiveConditions
CHECK_DEADLOCK FALSE
