-------------------------- MODULE APIProductStatus --------------------------
(***************************************************************************)
(* The apiproduct controller                                               *)
(* (internal/controller/apiproduct_controller.go): it publishes, in the    *)
(* status of every APIProduct, the plans and the authentication scheme of  *)
(* the policies that apply to its HTTPRoute, the token endpoint of the     *)
(* issuer of that scheme, and the OpenAPI document its spec points to.     *)
(*                                                                         *)
(* A call of Reconcile handles all products.  It lists PlanPolicies,       *)
(* AuthPolicies and products, and then, for one product after the other,   *)
(* reads the HTTPRoute four times, fetches over HTTP and writes the        *)
(* status.  Each of these is a step: owners, operators and informers act   *)
(* between any two of them, and a fetch may take a minute.                 *)
(*                                                                         *)
(* The controller knows routes and policies only by what the informers     *)
(* hold, and never writes them: here they are what the informers hold.  Of *)
(* products there is the object in the API server and the informer's copy. *)
(***************************************************************************)
EXTENDS Naturals, PolicyDiscovery

CONSTANTS
  Products,      \* names of APIProducts
  TargetRef,     \* the key of the HTTPRoute each of them targets
  RouteStates,   \* the states an HTTPRoute takes
  AuthPolicies,  \* names of AuthPolicies,
  AuthStates,    \*   and the states they take
  PlanPolicies,  \* names of PlanPolicies,
  PlanLists,     \*   and the plans they have
  FetchErrors,   \* what the error of a failed discovery says
  URLs,          \* values of documentation.openAPISpecURL
  DocumentSize,  \* the size of the document there
  Limits,        \* values of OPENAPI_SPEC_MAX_SIZE the manager is started with
  UserActions,   \* what owners, operators and the cluster do in this instance
  MaxUserActions \* and how many of those steps there are at most

Issuers == UNION {s.scheme.issuers : s \in {a \in AuthStates : a.scheme # Nothing}}

Schemes == {a.scheme : a \in AuthStates} \ {Nothing}

ASSUME NothingAssumption ==
  /\ Nothing \notin Products \cup AuthPolicies \cup PlanPolicies \cup Issuers \cup URLs
  /\ Nothing \notin FetchErrors
  /\ Nothing \notin PlanLists
  /\ Nothing \notin AuthStates
  /\ Nothing \notin RouteStates
  /\ Nothing \notin {"SpecFetched", "FetchFailed", "SpecSizeTooLarge"}
  /\ \A raw \in URLs \cup {Nothing}, l \in Limits, t \in {0, 1} :
       Nothing # [raw |-> raw, limit |-> l, time |-> t]
ASSUME TargetAssumption ==
  \A policy \in AuthPolicies \cup PlanPolicies :
    Target[policy] = [kind      |-> Target[policy].kind,
                      namespace |-> Target[policy].namespace,
                      name      |-> Target[policy].name]
ASSUME EnvironmentAssumption ==
  /\ \A r \in RouteStates : r.accepted \in BOOLEAN
  /\ \A a \in AuthStates : a.accepted \in BOOLEAN /\ a.enforced \in BOOLEAN
  /\ DocumentSize \in [URLs -> Nat]
  /\ Limits \subseteq Nat \ {0}
  /\ MaxUserActions \in Nat

VARIABLES
  product,     \* the APIProducts in the API server
  cache,       \* what the informer holds of them
  stale,       \* the products changed since the informer last caught up
  route,       \* the HTTPRoutes,
  authPolicy,  \*   AuthPolicies
  planPolicy,  \*   and PlanPolicies the informers hold
  limit,       \* OpenAPISpecMaxSize of the running manager
  queued,      \* the work queue holds the controller's one request
  pc,          \* where the call of Reconcile is
  planList,    \* what it listed
  authList,
  listed,
  outdated,    \* the listed products that were changed since they were read
  todo,        \* the products it has not handled yet
  current,     \* the product it handles
  draft,       \* and the status it computes for it
  userActions  \* how many user actions were taken

policies == <<route, authPolicy, planPolicy>>
objects  == <<product, cache, stale>>
lists    == <<planList, authList, listed>>
call     == <<pc, lists, outdated, todo, current, draft>>
vars     == <<objects, policies, limit, queued, call, userActions>>

-----------------------------------------------------------------------------
(* APIProducts *)

Maybe(S) == S \cup {Nothing}

\* The raw content is empty (Nothing) after a fetch that failed.  Of its time
\* all that matters is that it differs from that of the fetch before.
Documents == [raw : Maybe(URLs), limit : Limits, time : {0, 1}]

OIDCConditions ==
  [reason : {"NoOIDCAuth", "DiscoveryFailed", "Discovered"}, issuer : Maybe(Issuers),
   error : Maybe(FetchErrors)]
AuthConditions ==
  [reason : {"NotFound", "AuthPolicyNotReady", "Found"}, policy : Maybe(AuthPolicies)]
SpecReasons == {"SpecFetched", "FetchFailed", "SpecSizeTooLarge"}
ReadyReasons == {"HTTPRouteNotFound", "HTTPRouteNotAccepted", "HTTPRouteAccepted"}

\* A condition is what its reason and message tell: of PlanPolicyDiscovered
\* the policy that is named, of OpenAPISpecReady the reason.
Statuses ==
  [observed : Nat, plans : Maybe(PlanLists), scheme : Maybe(Schemes),
   endpoint : Maybe(Issuers), openapi : Maybe(Documents),
   planCond : Maybe(PlanPolicies), authCond : Maybe(AuthConditions),
   oidcCond : Maybe(OIDCConditions), readyCond : Maybe(ReadyReasons),
   openapiCond : Maybe(SpecReasons)]

NoStatus ==
  [observed |-> 0, plans |-> Nothing, scheme |-> Nothing, endpoint |-> Nothing,
   openapi |-> Nothing, planCond |-> Nothing, authCond |-> Nothing,
   oidcCond |-> Nothing, readyCond |-> Nothing, openapiCond |-> Nothing]

ProductObjects == [phase : {"absent", "live", "deleting"}, generation : Nat,
                   url : Maybe(URLs), status : Statuses]

NoProduct == [phase |-> "absent", generation |-> 0, url |-> Nothing, status |-> NoStatus]

NewProduct(url) == [NoProduct EXCEPT !.phase = "live", !.generation = 1, !.url = url]

\* A new manager finds products without a status, and any routes and policies.
Init ==
  /\ product \in [Products -> {NewProduct(url) : url \in Maybe(URLs)}]
  /\ cache = product
  /\ stale = {}
  /\ route \in [{TargetRef[p] : p \in Products} -> Maybe(RouteStates)]
  /\ authPolicy \in [AuthPolicies -> Maybe(AuthStates)]
  /\ planPolicy \in [PlanPolicies -> Maybe(PlanLists)]
  /\ limit \in Limits
  /\ queued = TRUE
  /\ pc = "idle"
  /\ planList = [q \in PlanPolicies |-> Nothing]
  /\ authList = [a \in AuthPolicies |-> Nothing]
  /\ listed = [p \in Products |-> NoProduct]
  /\ outdated = {}
  /\ todo = {}
  /\ current = Nothing
  /\ draft = NoStatus
  /\ userActions = 0

PutProduct(p, object) ==
  /\ product' = [product EXCEPT ![p] = object]
  /\ stale' = stale \cup {p}
  /\ UNCHANGED cache

-----------------------------------------------------------------------------
(* Reconcile *)

\* What a call holds in local variables goes when it returns.
NoCall ==
  /\ pc' = "idle"
  /\ planList' = [q \in PlanPolicies |-> Nothing]
  /\ authList' = [a \in AuthPolicies |-> Nothing]
  /\ listed' = [p \in Products |-> NoProduct]
  /\ outdated' = {}
  /\ todo' = {}
  /\ current' = Nothing
  /\ draft' = NoStatus

\* The call asks to be queued again, or returns an error.
GiveUp ==
  /\ NoCall
  /\ queued' = TRUE

Start ==
  /\ pc = "idle"
  /\ queued
  /\ queued' = FALSE
  /\ pc' = "listAuthPolicies"
  /\ planList' = planPolicy
  /\ UNCHANGED <<objects, policies, limit, authList, listed, outdated, todo, current, draft,
                 userActions>>

ListAuthPolicies ==
  /\ pc = "listAuthPolicies"
  /\ pc' = "listProducts"
  /\ authList' = authPolicy
  /\ UNCHANGED <<objects, policies, limit, queued, planList, listed, outdated, todo, current,
                 draft, userActions>>

\* Products that are flagged for deletion are left out.
ListProducts ==
  /\ pc = "listProducts"
  /\ pc' = "loop"
  /\ listed' = cache
  /\ outdated' = stale
  /\ todo' = {p \in Products : cache[p].phase = "live"}
  /\ UNCHANGED <<objects, policies, limit, queued, planList, authList, current, draft,
                 userActions>>

\* A search for the policy of the current product, in the listed ones.
Find(list, p) ==
  LET present == {x \in DOMAIN list : list[x] # Nothing}
  IN  FindPolicy(present, TargetRef[p], route[TargetRef[p]])

\* A mutant: the name of the policy is published instead of its plans.
MutPlanPolicyIntoPlans(q) == q

PlanPolicyIntoPlans(q) == IF q = Nothing THEN Nothing ELSE planList[q]

\* The next product of the loop, in any order: its plans, with a first read of
\* the route.
DiscoverPlans(p) ==
  /\ pc = "loop"
  /\ p \in todo
  /\ pc' = "planCondition"
  /\ current' = p
  /\ todo' = todo \ {p}
  /\ \E q \in Find(planList, p) :
       draft' = [NoStatus EXCEPT !.observed = listed[p].generation,
                                 !.plans = PlanPolicyIntoPlans(q)]
  /\ UNCHANGED <<objects, policies, limit, queued, lists, outdated, userActions>>

\* The condition searches again, with a second read of the route.
PlanPolicyDiscoveredCondition ==
  /\ pc = "planCondition"
  /\ pc' = "authPolicy"
  /\ \E q \in Find(planList, current) : draft' = [draft EXCEPT !.planCond = q]
  /\ UNCHANGED <<objects, policies, limit, queued, lists, outdated, todo, current, userActions>>

-----------------------------------------------------------------------------
(* OIDC discovery *)

\* The first issuer of a map: in no particular order.
ExtractIssuerURL(scheme) ==
  IF scheme = Nothing THEN {Nothing}
  ELSE IF scheme.issuers = {} THEN {Nothing}
  ELSE scheme.issuers

\* The issuer answers with its token endpoint, named here by the issuer, or it
\* cannot be reached, or there is none in its answer: the error says why, with
\* addresses, ports and status codes that may be others the next time.
FetchDiscovery(issuer) ==
  {[endpoint |-> issuer, error |-> Nothing]}
    \cup {[endpoint |-> Nothing, error |-> e] : e \in FetchErrors}

\* A mutant: an endpoint is kept whatever issuer it was fetched from.
MutOIDCDiscoveryStatus(old, issuer, existing) ==
  IF issuer = Nothing \/ old.endpoint # Nothing
  THEN {[endpoint |-> old.endpoint, error |-> Nothing]}
  ELSE FetchDiscovery(issuer)

\* A mutant: an issuer that answered is asked again.
MutOIDCDiscoveryAnew(old, issuer, existing) ==
  IF issuer = Nothing
  THEN {[endpoint |-> old.endpoint, error |-> Nothing]}
  ELSE FetchDiscovery(issuer)

\* Without an issuer what was discovered is kept; with the issuer of the
\* published scheme, too.  Otherwise it is fetched.
OIDCDiscoveryStatus(old, issuer, existing) ==
  IF issuer = Nothing \/ (old.endpoint # Nothing /\ existing = issuer)
  THEN {[endpoint |-> old.endpoint, error |-> Nothing]}
  ELSE FetchDiscovery(issuer)

\* The message names the issuer and quotes the error.
OIDCDiscoveredCondition(issuer, error) ==
  [reason |-> IF issuer = Nothing THEN "NoOIDCAuth"
              ELSE IF error # Nothing THEN "DiscoveryFailed" ELSE "Discovered",
   issuer |-> issuer,
   error  |-> error]

IsAcceptedAndEnforced(policy) == policy.accepted /\ policy.enforced

AuthPolicyDiscoveredCondition(a) ==
  IF a = Nothing THEN [reason |-> "NotFound", policy |-> Nothing]
  ELSE IF ~IsAcceptedAndEnforced(authList[a])
  THEN [reason |-> "AuthPolicyNotReady", policy |-> Nothing]
  ELSE [reason |-> "Found", policy |-> a]

PublishedScheme(a) ==
  IF a = Nothing THEN Nothing
  ELSE IF IsAcceptedAndEnforced(authList[a]) THEN authList[a].scheme ELSE Nothing

\* A third read of the route, and the fetch.  The issuer is extracted three
\* times: to fetch, from the published scheme to compare, and for the message.
DiscoverAuthPolicy ==
  /\ pc = "authPolicy"
  /\ pc' = "ready"
  /\ \E a \in Find(authList, current) :
     LET old == listed[current].status
         scheme == PublishedScheme(a)
     IN  \E issuer, named \in ExtractIssuerURL(scheme),
            existing \in ExtractIssuerURL(old.scheme) :
         \E result \in OIDCDiscoveryStatus(old, issuer, existing) :
           draft' = [draft EXCEPT
                      !.scheme = scheme,
                      !.authCond = AuthPolicyDiscoveredCondition(a),
                      !.endpoint = result.endpoint,
                      !.oidcCond = OIDCDiscoveredCondition(named, result.error)]
  /\ UNCHANGED <<objects, policies, limit, queued, lists, outdated, todo, current, userActions>>

-----------------------------------------------------------------------------
(* The OpenAPI document *)

ReadyCondition(r) ==
  IF r = Nothing THEN "HTTPRouteNotFound"
  ELSE IF r.accepted THEN "HTTPRouteAccepted" ELSE "HTTPRouteNotAccepted"

\* A mutant: the limit is not compared.
MutFetched(object) ==
  /\ object.status.openapi # Nothing
  /\ object.generation = object.status.observed
  /\ object.status.openapiCond # Nothing

\* There is an answer for this generation and this limit.
Fetched(object) ==
  /\ object.status.openapi # Nothing
  /\ object.generation = object.status.observed
  /\ object.status.openapi.limit = limit
  /\ object.status.openapiCond # Nothing

Fetch(object, raw) ==
  [raw |-> raw, limit |-> limit,
   time |-> IF object.status.openapi = Nothing THEN 0 ELSE 1 - object.status.openapi.time]

\* The answers of a fetch: the request cannot be made or fails (whichever way,
\* one reason stands for all of them), or there is a document.
FetchResults(object) ==
  {[openapi |-> Fetch(object, Nothing), cond |-> "FetchFailed"],
   IF DocumentSize[object.url] > limit
   THEN [openapi |-> Fetch(object, Nothing), cond |-> "SpecSizeTooLarge"]
   ELSE [openapi |-> Fetch(object, object.url), cond |-> "SpecFetched"]}

\* openAPIStatus and the condition made of its results.
OpenAPIStatus(object) ==
  IF object.url = Nothing
  THEN {[openapi |-> Nothing, cond |-> Nothing]}
  ELSE IF Fetched(object)
  THEN {[openapi |-> object.status.openapi, cond |-> object.status.openapiCond]}
  ELSE FetchResults(object)

\* The fourth read of the route, and the fetch.
DiscoverReadiness ==
  /\ pc = "ready"
  /\ pc' = "write"
  /\ \E result \in OpenAPIStatus(listed[current]) :
       draft' = [draft EXCEPT !.readyCond = ReadyCondition(route[TargetRef[current]]),
                              !.openapi = result.openapi,
                              !.openapiCond = result.cond]
  /\ UNCHANGED <<objects, policies, limit, queued, lists, outdated, todo, current, userActions>>

-----------------------------------------------------------------------------
UpToDate == draft = listed[current].status

\* A mutant: the update overwrites what others wrote.
MutConflict == FALSE

\* The API server refuses an update of an object that was changed since it was
\* read, or does not find it.
Conflict == current \in outdated

WriteStatus ==
  /\ pc = "write"
  /\ \/ /\ UpToDate
        /\ pc' = "loop"
        /\ UNCHANGED <<objects, queued, lists, outdated, todo>>
        /\ current' = Nothing
        /\ draft' = NoStatus
     \/ /\ ~UpToDate
        /\ ~Conflict
        /\ PutProduct(current, [product[current] EXCEPT !.status = draft])
        /\ outdated' = outdated \cup {current}
        /\ pc' = "loop"
        /\ UNCHANGED <<queued, lists, todo>>
        /\ current' = Nothing
        /\ draft' = NoStatus
     \/ /\ ~UpToDate
        /\ Conflict
        /\ GiveUp
        /\ UNCHANGED objects
  /\ UNCHANGED <<policies, limit, userActions>>

Return ==
  /\ pc = "loop"
  /\ todo = {}
  /\ NoCall
  /\ UNCHANGED <<objects, policies, limit, queued, userActions>>

-----------------------------------------------------------------------------
\* The informer of products catches up.
SyncProducts ==
  /\ stale # {}
  /\ cache' = product
  /\ stale' = {}
  /\ queued' = TRUE
  /\ UNCHANGED <<product, policies, limit, call, userActions>>

\* The end of a foreground deletion.
FinishDeletion(p) ==
  /\ product[p].phase = "deleting"
  /\ PutProduct(p, NoProduct)
  /\ outdated' = outdated \cup {p}
  /\ UNCHANGED <<policies, limit, queued, pc, lists, todo, current, draft, userActions>>

-----------------------------------------------------------------------------
(* Owners, operators and the cluster, within their budget *)

UserAction(name) ==
  /\ name \in UserActions
  /\ userActions < MaxUserActions
  /\ userActions' = userActions + 1

ChangeProduct(p, object) ==
  /\ PutProduct(p, object)
  /\ outdated' = outdated \cup {p}
  /\ UNCHANGED <<policies, limit, queued, pc, lists, todo, current, draft>>

\* The owner edits the spec: the URL, or something that is not modelled.
EditProduct(p) ==
  /\ UserAction("EditProduct")
  /\ product[p].phase = "live"
  /\ \E url \in Maybe(URLs) :
       ChangeProduct(p, [product[p] EXCEPT !.generation = @ + 1, !.url = url])

CreateProduct(p) ==
  /\ UserAction("CreateProduct")
  /\ product[p].phase = "absent"
  /\ \E url \in Maybe(URLs) : ChangeProduct(p, NewProduct(url))

\* In the background it is gone at once, in the foreground it is flagged.
DeleteProduct(p) ==
  /\ UserAction("DeleteProduct")
  /\ product[p].phase = "live"
  /\ \/ ChangeProduct(p, NoProduct)
     \/ ChangeProduct(p, [product[p] EXCEPT !.phase = "deleting"])

\* Routes, AuthPolicies and PlanPolicies are watched.
ChangeRoute(at) ==
  /\ UserAction("ChangeRoute")
  /\ \E r \in Maybe(RouteStates) \ {route[at]} : route' = [route EXCEPT ![at] = r]
  /\ queued' = TRUE
  /\ UNCHANGED <<objects, authPolicy, planPolicy, limit, call>>

ChangeAuthPolicy(a) ==
  /\ UserAction("ChangeAuthPolicy")
  /\ \E s \in Maybe(AuthStates) \ {authPolicy[a]} : authPolicy' = [authPolicy EXCEPT ![a] = s]
  /\ queued' = TRUE
  /\ UNCHANGED <<objects, route, planPolicy, limit, call>>

ChangePlanPolicy(q) ==
  /\ UserAction("ChangePlanPolicy")
  /\ \E l \in Maybe(PlanLists) \ {planPolicy[q]} : planPolicy' = [planPolicy EXCEPT ![q] = l]
  /\ queued' = TRUE
  /\ UNCHANGED <<objects, route, authPolicy, limit, call>>

\* A request to the API server fails, and so does the call.
Error ==
  /\ UserAction("Error")
  /\ pc # "idle"
  /\ GiveUp
  /\ UNCHANGED <<objects, policies, limit>>

\* A new manager process, perhaps with another limit: its caches are filled and
\* every object is an event.
Restart ==
  /\ UserAction("Restart")
  /\ GiveUp
  /\ cache' = product
  /\ stale' = {}
  /\ limit' \in Limits
  /\ UNCHANGED <<product, policies>>

-----------------------------------------------------------------------------
Reconcile ==
  \/ Start
  \/ ListAuthPolicies
  \/ ListProducts
  \/ \E p \in Products : DiscoverPlans(p)
  \/ PlanPolicyDiscoveredCondition
  \/ DiscoverAuthPolicy
  \/ DiscoverReadiness
  \/ WriteStatus
  \/ Return

Environment ==
  \/ \E p \in Products :
       FinishDeletion(p) \/ EditProduct(p) \/ CreateProduct(p) \/ DeleteProduct(p)
  \/ \E at \in DOMAIN route : ChangeRoute(at)
  \/ \E a \in AuthPolicies : ChangeAuthPolicy(a)
  \/ \E q \in PlanPolicies : ChangePlanPolicy(q)
  \/ Error

Next == Reconcile \/ SyncProducts \/ Environment \/ Restart

\* The work queue is served and the informer delivers; an issuer or a document
\* server may fail for ever.
Fairness == WF_vars(Reconcile) /\ WF_vars(SyncProducts)

Spec == Init /\ [][Next]_vars

FairSpec == Spec /\ Fairness

-----------------------------------------------------------------------------
(* Properties *)

\* Every variable keeps its type.
TypeOK ==
  /\ product \in [Products -> ProductObjects]
  /\ cache \in [Products -> ProductObjects]
  /\ stale \in SUBSET Products
  /\ route \in [{TargetRef[p] : p \in Products} -> Maybe(RouteStates)]
  /\ authPolicy \in [AuthPolicies -> Maybe(AuthStates)]
  /\ planPolicy \in [PlanPolicies -> Maybe(PlanLists)]
  /\ limit \in Limits
  /\ queued \in BOOLEAN
  /\ pc \in {"idle", "listAuthPolicies", "listProducts", "loop", "planCondition",
             "authPolicy", "ready", "write"}
  /\ planList \in [PlanPolicies -> Maybe(PlanLists)]
  /\ authList \in [AuthPolicies -> Maybe(AuthStates)]
  /\ listed \in [Products -> ProductObjects]
  /\ outdated \in SUBSET Products
  /\ todo \in SUBSET Products
  /\ current \in Maybe(Products)
  /\ draft \in Statuses
  /\ userActions \in 0 .. MaxUserActions

\* No token endpoint is published for the wrong issuer: whichever policies came,
\* went and were not ready in between, the endpoint beside a published scheme
\* that has issuers was fetched from one of them.
TokenEndpointOfIssuer ==
  \A p \in Products :
    LET s == product[p].status
    IN  s.scheme # Nothing /\ s.endpoint # Nothing =>
          s.scheme.issuers = {} \/ s.endpoint \in s.scheme.issuers

AtRest == pc = "idle" /\ ~queued /\ stale = {}

PresentAuthPolicies == {a \in AuthPolicies : authPolicy[a] # Nothing}
PresentPlanPolicies == {q \in PlanPolicies : planPolicy[q] # Nothing}

PlanPolicyNamed(s, at) == IsEffective(s.planCond, PresentPlanPolicies, at, route[at])

PlansShown(s, at) ==
  \E q \in Maybe(PresentPlanPolicies) :
    /\ IsEffective(q, PresentPlanPolicies, at, route[at])
    /\ s.plans = IF q = Nothing THEN Nothing ELSE planPolicy[q]

SchemeShown(s, at) ==
  \E a \in Maybe(PresentAuthPolicies) :
    LET reason == IF a = Nothing THEN "NotFound"
                  ELSE IF IsAcceptedAndEnforced(authPolicy[a]) THEN "Found"
                  ELSE "AuthPolicyNotReady"
    IN  /\ IsEffective(a, PresentAuthPolicies, at, route[at])
        /\ s.authCond.reason = reason
        /\ s.authCond.policy = IF reason = "Found" THEN a ELSE Nothing
        /\ s.scheme = IF reason = "Found" THEN authPolicy[a].scheme ELSE Nothing

IssuerShown(s) ==
  IF s.scheme = Nothing \/ s.scheme.issuers = {}
  THEN s.oidcCond.reason = "NoOIDCAuth"
  ELSE /\ s.oidcCond.issuer \in s.scheme.issuers
       /\ s.oidcCond.reason = IF s.endpoint = Nothing THEN "DiscoveryFailed" ELSE "Discovered"

\* When the controller has come to rest every product shows the most specific
\* policies that exist, as they are, and its route: whatever changed between
\* the reads from which the parts of its status were computed.
StatusShowsPolicies ==
  AtRest => \A p \in Products :
    LET s == product[p].status
    IN  product[p].phase = "live" =>
          /\ PlansShown(s, TargetRef[p])
          /\ PlanPolicyNamed(s, TargetRef[p])
          /\ SchemeShown(s, TargetRef[p])
          /\ IssuerShown(s)
          /\ s.readyCond = ReadyCondition(route[TargetRef[p]])

\* The status answers for the spec beside it and the limit of the manager.
Answered(object) ==
  LET s == object.status
  IN  /\ s.observed = object.generation
      /\ IF object.url = Nothing
         THEN s.openapi = Nothing /\ s.openapiCond = Nothing
         ELSE /\ s.openapi # Nothing
              /\ s.openapiCond # Nothing
              /\ s.openapi.limit = limit
              /\ s.openapi.raw = IF s.openapiCond = "SpecFetched" THEN object.url ELSE Nothing
              /\ s.openapi.raw # Nothing => DocumentSize[s.openapi.raw] <= limit

\* When the controller has come to rest every product with a URL has been
\* answered for its spec and for the limit of the running manager, within the
\* limit; one without a URL publishes nothing.
DocumentIsCurrent ==
  AtRest => \A p \in Products : product[p].phase = "live" => Answered(product[p])

Publication == INSTANCE DocumentPublication
  WITH wanted    <- [p \in Products |-> [generation |-> product[p].generation,
                                         url |-> product[p].url]],
       published <- [p \in Products |-> [observed |-> product[p].status.observed,
                                         openapi |-> product[p].status.openapi]]

\* The controller implements DocumentPublication: from outside, a call reads
\* the spec, fetches and publishes in one step.
ImplementsPublication == Publication!Spec

\* A failure that is worded differently from the last one is another status.
ErrorReworded ==
  \E p \in Products :
    LET s == product[p].status.oidcCond
        t == product'[p].status.oidcCond
    IN  /\ s # Nothing /\ t # Nothing
        /\ s.reason = "DiscoveryFailed" /\ t.reason = "DiscoveryFailed"
        /\ s.error # t.error
        /\ product' = [product EXCEPT ![p].status.oidcCond = t]

\* Left alone the controller comes to rest, unless an issuer fails for ever and
\* the errors say something new again and again: a discovery that failed is
\* fetched in every call, a message is written when it changes, and what is
\* written starts the next call.  No other answer is fetched for ever.
ControllerComesToRest == []<><<ErrorReworded>>_vars \/ <>[]AtRest
=============================================================================
