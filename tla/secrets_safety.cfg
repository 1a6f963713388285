SPECIFICATION Spec
CONSTANTS
  k1 = k1
  k2 = k2
  v1 = v1
  v2 = v2
  NoValue = NoValue
  Keys <- TwoKeys
  NoSecretRefKeys = {}
  Values <- TwoValues
  SecretsPrompt = FALSE
  UserActions <- Everything
  MaxUserActions = 4
INVARIANTS
  TypeOK
  SecretsRestOnApproval
PROPERTIES
  WithdrawnOnlyAfterChange
  ImplementsGrants
CHECK_DEADLOCK FALSE
