----------------------------- MODULE MCKeyOffers -----------------------------
(***************************************************************************)
(* A small instance of KeyOffers: one key of one product without an        *)
(* OpenAPI document, an AuthPolicy for its route and a PlanPolicy for the  *)
(* route's Gateway.  The two routes differ in their host name only.        *)
(***************************************************************************)
EXTENDS KeyOffers, TLC

CONSTANTS p1, k1, routeAuth, gatewayPlan, issuerA, headerKey

OneProduct == {p1}
OneKey     == {k1}
MCKeyProduct == [k \in Keys |-> p1]
MCKeyTier    == [k \in Keys |-> "silver"]

RouteKey == [namespace |-> "apis", name |-> "route"]
MCTargetRef == [p \in Products |-> RouteKey]

RouteOf(host) == [parents |-> {[name |-> "gateway", namespace |-> Unset]},
                  accepted |-> TRUE, host |-> host]
MCRouteStates == {RouteOf("a.example"), RouteOf("b.example")}

MCTarget ==
  (routeAuth   :> [kind |-> "HTTPRoute", namespace |-> "apis", name |-> "route"]) @@
  (gatewayPlan :> [kind |-> "Gateway",   namespace |-> "apis", name |-> "gateway"])

OneAuth == {routeAuth}
OnePlan == {gatewayPlan}

\* A scheme with both methods, before its policy is enforced and after.
Auth(enforced) == [accepted |-> TRUE, enforced |-> enforced,
                   scheme |-> [issuers |-> {issuerA}, apiKeys |-> {headerKey}]]
MCAuthStates == {Auth(enforced) : enforced \in BOOLEAN}
\* The tier of the key may be among the plans or not.
MCPlanLists  == {[silver |-> 10], [gold |-> 100]}

NoURLs == {}
NoDocuments == [u \in {} |-> 0]
OneLimit == {1}

Everything == {"CreateProduct", "DeleteProduct", "ChangeRoute", "ChangeAuthPolicy",
               "ChangePlanPolicy", "Error", "Restart"}

\* A cluster with a route and plans to begin with: user actions lead to others.
MCInit ==
  /\ Init
  /\ InitOffers
  /\ route = [at \in {RouteKey} |-> RouteOf("a.example")]
  /\ planPolicy = [q \in PlanPolicies |-> [silver |-> 10]]

MCSpec == MCInit /\ [][ComposedNext]_<<vars, keyVars>> /\ ComposedFairness
=============================================================================
