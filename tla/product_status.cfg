SPECIFICATION MCSpec
CONSTANTS
  p1 = p1
  p2 = p2
  routeAuth = routeAuth
  gatewayAuth = gatewayAuth
  gatewayPlan = gatewayPlan
  issuerA = issuerA
  issuerB = issuerB
  small = small
  large = large
  Nothing = Nothing
  Products <- OneProduct
  TargetRef <- MCTargetRef
  Target <- MCTarget
  RouteStates <- MCRouteStates
  AuthPolicies <- BothAuths
  AuthStates <- MCAuthStates
  PlanPolicies <- OnePlan
  PlanLists <- MCPlanLists
  FetchErrors = {"timeout", "refused"}
  URLs <- BothURLs
  DocumentSize <- MCDocumentSize
  Limits <- BothLimits
  UserActions <- Everything
  MaxUserActions = 2
INVARIANTS
  TypeOK
  TokenEndpointOfIssuer
  StatusShowsPolicies
  DocumentIsCurrent
PROPERTIES
  ImplementsPublication
  ControllerComesToRest
CHECK_DEADLOCK FALSE
