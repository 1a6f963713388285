SPECIFICATION FairSpec
CONSTANTS
  k1 = k1
  k2 = k2
  v1 = v1
  v2 = v2
  NoValue = NoValue
  Keys <- TwoKeys
  NoSecretRefKeys = {}
  Values <- OneValue
  SecretsPrompt = TRUE
  UserActions <- KeysAndConsumers
  MaxUserActions = 4
INVARIANTS
  RevokedKeysHaveNoSecret
  ApprovedKeysHaveSecret
PROPERTIES
  RevokedKeysLoseSecret
CHECK_DEADLOCK FALSE
