-------------------------- MODULE PolicyDiscovery --------------------------
(***************************************************************************)
(* Which policy applies to an HTTPRoute: one that targets the route, and   *)
(* only without such a policy one that targets a Gateway the route is      *)
(* attached to.  The same search is made for PlanPolicies                  *)
(* (internal/controller/apiproduct_controller.go) and for AuthPolicies     *)
(* (internal/controller/apiproduct_helper.go).                             *)
(*                                                                         *)
(* The list that is searched comes from a cache, in no particular order,   *)
(* and the first match is taken: an operator that searches it returns the  *)
(* set of everything it may answer.                                        *)
(***************************************************************************)
CONSTANTS
  Nothing,  \* nil
  Target    \* of each policy: the kind and name it targets, its own namespace

\* A parentRef without a namespace means a Gateway of the route's namespace.
Unset == "unset"

ParentNamespace(ref, at) == IF ref.namespace = Unset THEN at.namespace ELSE ref.namespace

TargetsRoute(policy, at) ==
  /\ Target[policy].kind = "HTTPRoute"
  /\ Target[policy].namespace = at.namespace
  /\ Target[policy].name = at.name

\* A mutant: the namespace of a Gateway is not looked at.
MutTargetsParent(policy, at, parents) ==
  /\ Target[policy].kind = "Gateway"
  /\ \E ref \in parents : Target[policy].name = ref.name

TargetsParent(policy, at, parents) ==
  /\ Target[policy].kind = "Gateway"
  /\ \E ref \in parents : /\ Target[policy].name = ref.name
                          /\ Target[policy].namespace = ParentNamespace(ref, at)

\* The search through the policies of a list, for the route at the key "at".
FindPolicy(policies, at, route) ==
  LET direct  == {p \in policies : TargetsRoute(p, at)}
      parents == {p \in policies : TargetsParent(p, at, route.parents)}
  IN  IF route = Nothing THEN {Nothing}
      ELSE IF direct # {} THEN direct
      ELSE IF parents # {} THEN parents
      ELSE {Nothing}

-----------------------------------------------------------------------------
(* What the search is for, without an order of steps. *)

\* 2 for a policy of the route, 1 for one of a Gateway it is attached to.
Specificity(policy, at, route) ==
  IF route = Nothing THEN 0
  ELSE IF Target[policy] = [kind |-> "HTTPRoute", namespace |-> at.namespace, name |-> at.name]
  THEN 2
  ELSE IF \E ref \in route.parents :
            Target[policy] = [kind |-> "Gateway", name |-> ref.name,
                              namespace |-> IF ref.namespace = Unset THEN at.namespace
                                                                     ELSE ref.namespace]
  THEN 1 ELSE 0

\* The policy is one of those that apply and none of them is more specific.
IsEffective(policy, policies, at, route) ==
  IF policy = Nothing
  THEN \A p \in policies : Specificity(p, at, route) = 0
  ELSE /\ policy \in policies
       /\ Specificity(policy, at, route) # 0
       /\ Specificity(policy, at, route) = 1 =>
            \A p \in policies : Specificity(p, at, route) # 2
=============================================================================
