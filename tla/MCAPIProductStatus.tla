------------------------- MODULE MCAPIProductStatus -------------------------
(***************************************************************************)
(* Small instances of APIProductStatus: products of one HTTPRoute, which   *)
(* is attached to a Gateway; the name of that Gateway is used in two       *)
(* namespaces.  The AuthPolicies are for the route and for the Gateway of  *)
(* the namespace "infra", the PlanPolicy for the one beside the route.     *)
(***************************************************************************)
EXTENDS APIProductStatus, TLC

CONSTANTS p1, p2, routeAuth, gatewayAuth, gatewayPlan, issuerA, issuerB, small, large

OneProduct  == {p1}
TwoProducts == {p1, p2}

RouteKey == [namespace |-> "apis", name |-> "route"]
MCTargetRef == [p \in Products |-> RouteKey]

RouteTo(namespace, accepted) ==
  [parents |-> {[name |-> "gateway", namespace |-> namespace]}, accepted |-> accepted]
MCRouteStates == {RouteTo("infra", TRUE), RouteTo(Unset, FALSE)}

MCTarget ==
  (routeAuth   :> [kind |-> "HTTPRoute", namespace |-> "apis",  name |-> "route"]) @@
  (gatewayAuth :> [kind |-> "Gateway",   namespace |-> "infra", name |-> "gateway"]) @@
  (gatewayPlan :> [kind |-> "Gateway",   namespace |-> "apis",  name |-> "gateway"])

RouteAuth == {routeAuth}
BothAuths == {routeAuth, gatewayAuth}
OnePlan   == {gatewayPlan}

Auth(enforced, issuers) == [accepted |-> TRUE, enforced |-> enforced,
                            scheme |-> [issuers |-> issuers]]
ReadyA == Auth(TRUE, {issuerA})
MCAuthStates == {ReadyA, Auth(TRUE, {issuerB}), Auth(FALSE, {issuerA})}
MCPlanLists == {"plans"}

\* The large document is exactly as large as the larger limit.
BothURLs  == {small, large}
MCDocumentSize == (small :> 1) @@ (large :> 2)
BothLimits == {1, 2}

Everything == {"EditProduct", "CreateProduct", "DeleteProduct", "ChangeRoute",
               "ChangeAuthPolicy", "ChangePlanPolicy", "Error", "Restart"}

\* One state of the cluster to begin with: user actions lead to the others.
MCInit ==
  /\ Init
  /\ route = [at \in {RouteKey} |-> RouteTo("infra", TRUE)]
  /\ authPolicy = [a \in AuthPolicies |-> IF a = gatewayAuth THEN ReadyA ELSE Nothing]
  /\ planPolicy = [q \in PlanPolicies |-> "plans"]
  /\ limit = 1

MCSpec == MCInit /\ [][Next]_vars /\ Fairness
=============================================================================
