SPECIFICATION Spec
CONSTANTS
  k1 = k1
  k2 = k2
  v1 = v1
  v2 = v2
  NoValue = NoValue
  Keys <- OneKey
  NoSecretRefKeys = {}
  Values <- OneValue
  SecretsPrompt = FALSE
  UserActions <- KeysOnly
  MaxUserActions = 5
INVARIANTS
  RevokedKeysHaveNoSecret
CHECK_DEADLOCK FALSE
