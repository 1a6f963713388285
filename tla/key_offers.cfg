SPECIFICATION MCSpec
CONSTANTS
  p1 = p1
  k1 = k1
  routeAuth = routeAuth
  gatewayPlan = gatewayPlan
  issuerA = issuerA
  headerKey = headerKey
  Nothing = Nothing
  Products <- OneProduct
  Keys <- OneKey
  KeyProduct <- MCKeyProduct
  KeyTier <- MCKeyTier
  TargetRef <- MCTargetRef
  Target <- MCTarget
  RouteStates <- MCRouteStates
  AuthPolicies <- OneAuth
  AuthStates <- MCAuthStates
  PlanPolicies <- OnePlan
  PlanLists <- MCPlanLists
  FetchErrors = {"timeout", "refused"}
  URLs <- NoURLs
  DocumentSize <- NoDocuments
  Limits <- OneLimit
  UserActions <- Everything
  MaxUserActions = 1
INVARIANTS
  OffersReachKeys
PROPERTIES
  ControllersComeToRest
CHECK_DEADLOCK FALSE
