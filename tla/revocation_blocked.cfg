SPECIFICATION FairSpec
CONSTANTS
  k1 = k1
  k2 = k2
  v1 = v1
  v2 = v2
  NoValue = NoValue
  Keys <- TwoKeys
  NoSecretRefKeys <- OnlyK2
  Values <- OneValue
  SecretsPrompt = TRUE
  UserActions <- KeysOnly
  MaxUserActions = 5
PROPERTIES
  RevokedKeysLoseSecret
CHECK_DEADLOCK FALSE
