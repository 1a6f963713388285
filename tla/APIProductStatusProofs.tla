----------------------- MODULE APIProductStatusProofs -----------------------
(***************************************************************************)
(* Theorems about APIProductStatus, for every set of products, policies,   *)
(* routes and documents and every number of user actions.                  *)
(***************************************************************************)
EXTENDS APIProductStatus, TLAPS

\* Where a call handles a product.
Handling == {"planCondition", "authPolicy", "ready", "write"}

CurrentListed == pc \in Handling => current \in Products

TypeInv == TypeOK /\ CurrentListed

InLoop == Handling \cup {"loop"}

\* What is not flagged as changed is what was copied.
CopiesFresh ==
  \A p \in Products :
    /\ p \notin stale => cache[p] = product[p]
    /\ pc \in InLoop /\ p \notin outdated => listed[p] = product[p]

\* An object that is gone leaves nothing behind; any other has a generation.
ObjectsWhole ==
  \A p \in Products :
    IF product[p].phase = "absent" THEN product[p] = NoProduct ELSE product[p].generation # 0

\* Only products that were listed as live are handled.
ListedLive ==
  /\ \A p \in todo : listed[p].phase = "live"
  /\ pc \in Handling => listed[current].phase = "live"

\* If there is an answer for the present spec it fits the spec and the limit
\* it was fetched with.
AnswerFits(object) ==
  LET s == object.status
  IN  /\ s.observed <= object.generation
      /\ s.openapi # Nothing => s.openapiCond # Nothing
      /\ s.openapi # Nothing /\ s.observed = object.generation =>
           /\ object.url # Nothing
           /\ s.openapi.raw = IF s.openapiCond = "SpecFetched" THEN object.url ELSE Nothing
           /\ s.openapi.raw # Nothing => DocumentSize[s.openapi.raw] <= s.openapi.limit

AnswersFit ==
  \A p \in Products : AnswerFits(product[p]) /\ AnswerFits(cache[p]) /\ AnswerFits(listed[p])

\* What a call writes answers for the object it listed.
DraftAnswers ==
  /\ pc \in Handling => draft.observed = listed[current].generation
  /\ pc = "write" =>
       /\ Answered([listed[current] EXCEPT !.status = draft])
       /\ \E result \in OpenAPIStatus(listed[current]) :
            draft.openapi = result.openapi /\ draft.openapiCond = result.cond

IndInv ==
  /\ TypeInv
  /\ CopiesFresh
  /\ ObjectsWhole
  /\ ListedLive
  /\ AnswersFit
  /\ DraftAnswers

\* As long as no event has queued the controller again, what a call works from
\* is what there is,
ListsCurrent ==
  /\ pc # "idle" => planList = planPolicy
  /\ pc \notin {"idle", "listAuthPolicies"} => authList = authPolicy
  /\ pc \in InLoop => listed = cache

\* what it has computed shows what there is,
DraftShows ==
  LET at == TargetRef[current]
  IN  /\ pc \in Handling => PlansShown(draft, at)
      /\ pc \in {"authPolicy", "ready", "write"} => PlanPolicyNamed(draft, at)
      /\ pc \in {"ready", "write"} => SchemeShown(draft, at) /\ IssuerShown(draft)
      /\ pc = "write" => draft.readyCond = ReadyCondition(route[at])

StatusShows(s, at) ==
  /\ PlansShown(s, at)
  /\ PlanPolicyNamed(s, at)
  /\ SchemeShown(s, at)
  /\ IssuerShown(s)
  /\ s.readyCond = ReadyCondition(route[at])

\* and every product is done, will be handled by this call, or is an event to come.
Settled(p) ==
  product[p].phase = "live" =>
    Answered(product[p]) /\ StatusShows(product[p].status, TargetRef[p])

WorkLeft(p) ==
  \/ p \in stale
  \/ pc \in {"listAuthPolicies", "listProducts"}
  \/ pc \in InLoop /\ p \in todo
  \/ pc \in Handling /\ p = current

QuietInv ==
  ~queued => /\ ListsCurrent
             /\ DraftShows
             /\ \A p \in Products : WorkLeft(p) \/ Settled(p)

\* No two issuers in one scheme.
SingleIssuer == \A s \in Schemes : \A i, j \in s.issuers : i = j

EndpointFits(s) ==
  s.scheme # Nothing /\ s.endpoint # Nothing =>
    s.scheme.issuers = {} \/ s.endpoint \in s.scheme.issuers

EndpointsFit ==
  /\ \A p \in Products : /\ EndpointFits(product[p].status)
                         /\ EndpointFits(cache[p].status)
                         /\ EndpointFits(listed[p].status)
  /\ EndpointFits(draft)

-----------------------------------------------------------------------------
(* Type correctness *)

LEMMA SchemeOfPolicy ==
  ASSUME NEW state \in AuthStates
  PROVE  state.scheme \in Maybe(Schemes)
BY DEF Maybe, Schemes

LEMMA ExtractedIssuer ==
  ASSUME NEW scheme \in Maybe(Schemes), NEW issuer \in ExtractIssuerURL(scheme)
  PROVE  /\ issuer \in Maybe(Issuers)
         /\ issuer # Nothing => scheme \in Schemes /\ issuer \in scheme.issuers
         /\ issuer = Nothing => scheme = Nothing \/ scheme.issuers = {}
<1>1. CASE scheme = Nothing \/ scheme.issuers = {}
  BY <1>1 DEF ExtractIssuerURL, Maybe
<1>2. CASE ~(scheme = Nothing \/ scheme.issuers = {})
  <2>1. scheme \in Schemes /\ issuer \in scheme.issuers
    BY <1>2 DEF ExtractIssuerURL, Maybe
  <2>2. PICK state \in AuthStates : scheme = state.scheme /\ state.scheme # Nothing
    BY <2>1 DEF Schemes
  <2>3. issuer \in Issuers
    BY <2>1, <2>2 DEF Issuers
  <2> QED BY <2>1, <2>3, NothingAssumption DEF NothingAssumption, Maybe
<1> QED BY <1>1, <1>2

\* A search answers a policy that is listed, or nothing.
LEMMA FoundPolicy ==
  ASSUME NEW list, NEW p, NEW policy \in Find(list, p)
  PROVE  policy # Nothing => policy \in DOMAIN list /\ list[policy] # Nothing
BY DEF Find, FindPolicy, TargetsRoute, TargetsParent

LEMMA TypeInit == Init => TypeInv
<1> SUFFICES ASSUME Init PROVE TypeInv
  OBVIOUS
<1>1. NoStatus \in Statuses
  BY DEF NoStatus, Statuses, Maybe
<1>2. NoProduct \in ProductObjects
  BY <1>1 DEF NoProduct, ProductObjects, Maybe
<1>3. \A url \in Maybe(URLs) : NewProduct(url) \in ProductObjects
  BY <1>1 DEF NewProduct, NoProduct, ProductObjects, Maybe
<1>4. product \in [Products -> ProductObjects]
  BY <1>3 DEF Init
<1>5. 0 \in 0 .. MaxUserActions
  BY EnvironmentAssumption DEF EnvironmentAssumption
<1> QED
  BY <1>1, <1>2, <1>4, <1>5 DEF Init, TypeInv, TypeOK, CurrentListed, Handling, Maybe

LEMMA NoCallType == NoCall => /\ pc' = "idle"
                              /\ planList' \in [PlanPolicies -> Maybe(PlanLists)]
                              /\ authList' \in [AuthPolicies -> Maybe(AuthStates)]
                              /\ listed' \in [Products -> ProductObjects]
                              /\ outdated' = {}
                              /\ todo' = {}
                              /\ current' \in Maybe(Products)
                              /\ draft' \in Statuses
<1>1. NoStatus \in Statuses
  BY DEF NoStatus, Statuses, Maybe
<1>2. NoProduct \in ProductObjects
  BY <1>1 DEF NoProduct, ProductObjects, Maybe
<1> QED BY <1>1, <1>2 DEF NoCall, Maybe

LEMMA PutProductType ==
  ASSUME TypeOK, NEW p \in Products, NEW object \in ProductObjects, PutProduct(p, object)
  PROVE  /\ product' \in [Products -> ProductObjects]
         /\ cache' \in [Products -> ProductObjects]
         /\ stale' \in SUBSET Products
BY DEF PutProduct, TypeOK

LEMMA UserActionType ==
  ASSUME TypeOK, NEW name, UserAction(name)
  PROVE  userActions' \in 0 .. MaxUserActions
BY EnvironmentAssumption DEF EnvironmentAssumption, UserAction, TypeOK

LEMMA DocumentType ==
  ASSUME TypeOK, NEW object \in ProductObjects, NEW result \in OpenAPIStatus(object)
  PROVE  result.openapi \in Maybe(Documents) /\ result.cond \in Maybe(SpecReasons)
<1>1. object.status \in Statuses /\ object.url \in Maybe(URLs)
  BY DEF ProductObjects
<1>2. object.status.openapi \in Maybe(Documents) /\ object.status.openapiCond \in Maybe(SpecReasons)
  BY <1>1 DEF Statuses
<1>3. ASSUME NEW raw \in Maybe(URLs) PROVE Fetch(object, raw) \in Documents
  <2>1. CASE object.status.openapi = Nothing
    BY <2>1 DEF Fetch, Documents, TypeOK
  <2>2. CASE object.status.openapi # Nothing
    <3>1. object.status.openapi.time \in {0, 1}
      BY <1>2, <2>2 DEF Documents, Maybe
    <3> QED BY <2>2, <3>1 DEF Fetch, Documents, TypeOK
  <2> QED BY <2>1, <2>2
<1>4. ASSUME object.url # Nothing, result \in FetchResults(object)
      PROVE  result.openapi \in Maybe(Documents) /\ result.cond \in Maybe(SpecReasons)
  BY <1>1, <1>3, <1>4 DEF FetchResults, SpecReasons, Maybe
<1> QED BY <1>2, <1>4 DEF OpenAPIStatus, Maybe

LEMMA DiscoverPlansType ==
  ASSUME TypeInv, NEW p \in Products, DiscoverPlans(p)
  PROVE  TypeInv'
<1> USE DEF TypeInv, TypeOK, CurrentListed
<1>1. PICK q \in Find(planList, p) :
        draft' = [NoStatus EXCEPT !.observed = listed[p].generation,
                                  !.plans = PlanPolicyIntoPlans(q)]
  BY DEF DiscoverPlans
<1>2. PlanPolicyIntoPlans(q) \in Maybe(PlanLists)
  BY FoundPolicy DEF PlanPolicyIntoPlans, Maybe
<1>3. listed[p].generation \in Nat
  BY DEF ProductObjects
<1>4. draft' \in Statuses
  BY <1>1, <1>2, <1>3 DEF NoStatus, Statuses, Maybe
<1> QED BY <1>4 DEF DiscoverPlans, objects, policies, lists, Maybe

LEMMA DiscoverAuthPolicyType ==
  ASSUME TypeInv, DiscoverAuthPolicy
  PROVE  TypeInv'
<1> USE DEF TypeInv, TypeOK, CurrentListed
<1> DEFINE old == listed[current].status
<1>0. current \in Products
  BY DEF DiscoverAuthPolicy, Handling
<1>1. PICK a \in Find(authList, current) :
        \E issuer, named \in ExtractIssuerURL(PublishedScheme(a)),
           existing \in ExtractIssuerURL(old.scheme) :
        \E result \in OIDCDiscoveryStatus(old, issuer, existing) :
           draft' = [draft EXCEPT
                      !.scheme = PublishedScheme(a),
                      !.authCond = AuthPolicyDiscoveredCondition(a),
                      !.endpoint = result.endpoint,
                      !.oidcCond = OIDCDiscoveredCondition(named, result.error)]
  BY DEF DiscoverAuthPolicy
<1>2. PICK issuer \in ExtractIssuerURL(PublishedScheme(a)),
           named \in ExtractIssuerURL(PublishedScheme(a)),
           existing \in ExtractIssuerURL(old.scheme) :
        \E result \in OIDCDiscoveryStatus(old, issuer, existing) :
           draft' = [draft EXCEPT
                      !.scheme = PublishedScheme(a),
                      !.authCond = AuthPolicyDiscoveredCondition(a),
                      !.endpoint = result.endpoint,
                      !.oidcCond = OIDCDiscoveredCondition(named, result.error)]
  BY <1>1
<1>21. PICK result \in OIDCDiscoveryStatus(old, issuer, existing) :
           draft' = [draft EXCEPT
                      !.scheme = PublishedScheme(a),
                      !.authCond = AuthPolicyDiscoveredCondition(a),
                      !.endpoint = result.endpoint,
                      !.oidcCond = OIDCDiscoveredCondition(named, result.error)]
  BY <1>2
<1>3. a # Nothing => a \in AuthPolicies /\ authList[a] \in AuthStates
  BY FoundPolicy DEF Maybe
<1>4. PublishedScheme(a) \in Maybe(Schemes)
  BY <1>3, SchemeOfPolicy DEF PublishedScheme, Maybe
<1>5. AuthPolicyDiscoveredCondition(a) \in Maybe(AuthConditions)
  BY <1>3 DEF AuthPolicyDiscoveredCondition, AuthConditions, Maybe
<1>6. old.endpoint \in Maybe(Issuers)
  BY <1>0 DEF ProductObjects, Statuses
<1>7. issuer \in Maybe(Issuers) /\ named \in Maybe(Issuers)
  BY <1>4, ExtractedIssuer
<1>8. result.endpoint \in Maybe(Issuers)
  BY <1>6, <1>7 DEF OIDCDiscoveryStatus, FetchDiscovery, Maybe
<1>81. result.error \in Maybe(FetchErrors)
  BY DEF OIDCDiscoveryStatus, FetchDiscovery, Maybe
<1>9. OIDCDiscoveredCondition(named, result.error) \in Maybe(OIDCConditions)
  BY <1>7, <1>81 DEF OIDCDiscoveredCondition, OIDCConditions, Maybe
<1>10. draft' \in Statuses
  BY <1>21, <1>4, <1>5, <1>8, <1>9 DEF Statuses
<1> QED BY <1>0, <1>10 DEF DiscoverAuthPolicy, objects, policies, lists

LEMMA DiscoverReadinessType ==
  ASSUME TypeInv, DiscoverReadiness
  PROVE  TypeInv'
<1> USE DEF TypeInv, TypeOK, CurrentListed
<1>0. current \in Products /\ listed[current] \in ProductObjects
  BY DEF DiscoverReadiness, Handling
<1>1. PICK result \in OpenAPIStatus(listed[current]) :
        draft' = [draft EXCEPT !.readyCond = ReadyCondition(route[TargetRef[current]]),
                               !.openapi = result.openapi,
                               !.openapiCond = result.cond]
  BY DEF DiscoverReadiness
<1>2. result.openapi \in Maybe(Documents) /\ result.cond \in Maybe(SpecReasons)
  BY <1>0, DocumentType
<1>3. ReadyCondition(route[TargetRef[current]]) \in Maybe(ReadyReasons)
  BY DEF ReadyCondition, ReadyReasons, Maybe
<1>4. draft' \in Statuses
  BY <1>1, <1>2, <1>3 DEF Statuses
<1> QED BY <1>0, <1>4 DEF DiscoverReadiness, objects, policies, lists

LEMMA WriteStatusType ==
  ASSUME TypeInv, WriteStatus
  PROVE  TypeInv'
<1> USE DEF TypeInv, TypeOK, CurrentListed
<1>0. current \in Products /\ product[current] \in ProductObjects /\ draft \in Statuses
  BY DEF WriteStatus, Handling
<1>1. NoStatus \in Statuses
  BY DEF NoStatus, Statuses, Maybe
<1>2. [product[current] EXCEPT !.status = draft] \in ProductObjects
  BY <1>0 DEF ProductObjects
<1>3. CASE UNCHANGED objects /\ pc' = "loop"
  BY <1>1, <1>3 DEF WriteStatus, objects, policies, lists, Maybe, NoCall, GiveUp, PutProduct, Handling
<1>4. CASE PutProduct(current, [product[current] EXCEPT !.status = draft])
           /\ ~UpToDate /\ ~Conflict
  BY <1>0, <1>1, <1>2, <1>4, PutProductType DEF WriteStatus, policies, lists, Maybe, Handling
<1>5. CASE GiveUp /\ UNCHANGED objects
  BY <1>5, NoCallType DEF WriteStatus, GiveUp, objects, policies, Handling
<1> QED BY <1>3, <1>4, <1>5 DEF WriteStatus

LEMMA ChangeProductType ==
  ASSUME TypeInv, NEW p \in Products, NEW object \in ProductObjects,
         ChangeProduct(p, object), NEW name, UserAction(name)
  PROVE  TypeInv'
<1> USE DEF TypeInv, TypeOK, CurrentListed
<1>1. userActions' \in 0 .. MaxUserActions
  BY UserActionType
<1> QED BY <1>1, PutProductType DEF ChangeProduct, policies, lists

LEMMA TypeNext == TypeInv /\ [Next]_vars => TypeInv'
<1> SUFFICES ASSUME TypeInv, [Next]_vars PROVE TypeInv'
  OBVIOUS
<1> USE DEF TypeInv, TypeOK, CurrentListed, objects, policies, lists, call
<1>0. NoStatus \in Statuses /\ NoProduct \in ProductObjects
  BY DEF NoStatus, Statuses, NoProduct, ProductObjects, Maybe
<1>1. CASE Start
  BY <1>1 DEF Start, Handling
<1>2. CASE ListAuthPolicies
  BY <1>2 DEF ListAuthPolicies, Handling
<1>3. CASE ListProducts
  BY <1>3 DEF ListProducts, Handling
<1>4. ASSUME NEW p \in Products, DiscoverPlans(p) PROVE TypeInv'
  BY <1>4, DiscoverPlansType
<1>5. CASE PlanPolicyDiscoveredCondition
  <2>1. PICK q \in Find(planList, current) : draft' = [draft EXCEPT !.planCond = q]
    BY <1>5 DEF PlanPolicyDiscoveredCondition
  <2>2. q \in Maybe(PlanPolicies)
    BY FoundPolicy DEF Maybe
  <2>3. draft' \in Statuses
    BY <2>1, <2>2 DEF Statuses
  <2> QED BY <1>5, <2>3 DEF PlanPolicyDiscoveredCondition, Handling
<1>6. CASE DiscoverAuthPolicy
  BY <1>6, DiscoverAuthPolicyType
<1>7. CASE DiscoverReadiness
  BY <1>7, DiscoverReadinessType
<1>8. CASE WriteStatus
  BY <1>8, WriteStatusType
<1>9. CASE Return
  BY <1>9, NoCallType DEF Return, Handling
<1>10. CASE SyncProducts
  BY <1>10 DEF SyncProducts
<1>11. ASSUME NEW p \in Products, FinishDeletion(p) PROVE TypeInv'
  BY <1>0, <1>11, PutProductType DEF FinishDeletion
<1>12. ASSUME NEW p \in Products, EditProduct(p) PROVE TypeInv'
  <2>1. PICK url \in Maybe(URLs) :
          ChangeProduct(p, [product[p] EXCEPT !.generation = @ + 1, !.url = url])
    BY <1>12 DEF EditProduct
  <2>2. product[p] \in ProductObjects /\ product[p].generation + 1 \in Nat
    BY DEF ProductObjects
  <2>3. [product[p] EXCEPT !.generation = @ + 1, !.url = url] \in ProductObjects
    BY <2>2 DEF ProductObjects
  <2> QED BY <1>12, <2>1, <2>3, ChangeProductType DEF EditProduct
<1>13. ASSUME NEW p \in Products, CreateProduct(p) PROVE TypeInv'
  <2>1. PICK url \in Maybe(URLs) : ChangeProduct(p, NewProduct(url))
    BY <1>13 DEF CreateProduct
  <2>2. NewProduct(url) \in ProductObjects
    BY <1>0 DEF NewProduct, NoProduct, ProductObjects, Maybe
  <2> QED BY <1>13, <2>1, <2>2, ChangeProductType DEF CreateProduct
<1>14. ASSUME NEW p \in Products, DeleteProduct(p) PROVE TypeInv'
  <2>1. [product[p] EXCEPT !.phase = "deleting"] \in ProductObjects
    BY DEF ProductObjects
  <2> QED BY <1>0, <1>14, <2>1, ChangeProductType DEF DeleteProduct
<1>15. ASSUME NEW at \in DOMAIN route, ChangeRoute(at) PROVE TypeInv'
  BY <1>15, UserActionType DEF ChangeRoute
<1>16. ASSUME NEW a \in AuthPolicies, ChangeAuthPolicy(a) PROVE TypeInv'
  BY <1>16, UserActionType DEF ChangeAuthPolicy
<1>17. ASSUME NEW q \in PlanPolicies, ChangePlanPolicy(q) PROVE TypeInv'
  BY <1>17, UserActionType DEF ChangePlanPolicy
<1>18. CASE Error
  BY <1>18, UserActionType, NoCallType DEF Error, GiveUp, Handling
<1>19. CASE Restart
  BY <1>19, UserActionType, NoCallType DEF Restart, GiveUp, Handling
<1>20. CASE UNCHANGED vars
  BY <1>20 DEF vars
<1> QED
  BY <1>1, <1>2, <1>3, <1>4, <1>5, <1>6, <1>7, <1>8, <1>9, <1>10, <1>11, <1>12, <1>13,
     <1>14, <1>15, <1>16, <1>17, <1>18, <1>19, <1>20
     DEF Next, Reconcile, Environment

\* Every object, cached copy, list and draft keeps its type in every behaviour.
THEOREM TypeCorrect == Spec => []TypeOK
<1>1. TypeInv => TypeOK
  BY DEF TypeInv
<1> QED BY <1>1, TypeInit, TypeNext, PTL DEF Spec

-----------------------------------------------------------------------------
(* The inductive invariant: copies and objects *)

LEMMA CopiesFreshNext == IndInv /\ [Next]_vars => CopiesFresh'
<1> SUFFICES ASSUME IndInv, [Next]_vars PROVE CopiesFresh'
  OBVIOUS
<1> USE DEF IndInv, CopiesFresh, objects, policies, lists, call
<1>0. TypeOK /\ CurrentListed
  BY DEF TypeInv
<1>1. CASE Start
  BY <1>1 DEF Start, InLoop, Handling
<1>2. CASE ListAuthPolicies
  BY <1>2 DEF ListAuthPolicies, InLoop, Handling
<1>3. CASE ListProducts
  BY <1>3 DEF ListProducts
<1>4. ASSUME NEW p \in Products, DiscoverPlans(p) PROVE CopiesFresh'
  BY <1>4 DEF DiscoverPlans, InLoop, Handling
<1>5. CASE PlanPolicyDiscoveredCondition
  BY <1>5 DEF PlanPolicyDiscoveredCondition, InLoop, Handling
<1>6. CASE DiscoverAuthPolicy
  BY <1>6 DEF DiscoverAuthPolicy, InLoop, Handling
<1>7. CASE DiscoverReadiness
  BY <1>7 DEF DiscoverReadiness, InLoop, Handling
<1>8. CASE WriteStatus
  BY <1>0, <1>8
     DEF WriteStatus, PutProduct, GiveUp, NoCall, InLoop, Handling, TypeOK, CurrentListed
<1>9. CASE Return
  BY <1>9 DEF Return, NoCall, InLoop, Handling
<1>10. CASE SyncProducts
  BY <1>10 DEF SyncProducts
<1>11. ASSUME NEW p \in Products, FinishDeletion(p) PROVE CopiesFresh'
  BY <1>0, <1>11 DEF FinishDeletion, PutProduct, TypeOK
<1>12. ASSUME NEW p \in Products, NEW object, ChangeProduct(p, object) PROVE CopiesFresh'
  BY <1>0, <1>12 DEF ChangeProduct, PutProduct, TypeOK
<1>13. ASSUME NEW p \in Products, EditProduct(p) \/ CreateProduct(p) \/ DeleteProduct(p)
       PROVE  CopiesFresh'
  BY <1>12, <1>13 DEF EditProduct, CreateProduct, DeleteProduct
<1>14. ASSUME NEW at \in DOMAIN route, ChangeRoute(at) PROVE CopiesFresh'
  BY <1>14 DEF ChangeRoute
<1>15. ASSUME NEW a \in AuthPolicies, ChangeAuthPolicy(a) PROVE CopiesFresh'
  BY <1>15 DEF ChangeAuthPolicy
<1>16. ASSUME NEW q \in PlanPolicies, ChangePlanPolicy(q) PROVE CopiesFresh'
  BY <1>16 DEF ChangePlanPolicy
<1>17. CASE Error
  BY <1>17 DEF Error, GiveUp, NoCall, InLoop, Handling
<1>18. CASE Restart
  BY <1>18 DEF Restart, GiveUp, NoCall, InLoop, Handling
<1>19. CASE UNCHANGED vars
  BY <1>19 DEF vars
<1> QED
  BY <1>1, <1>2, <1>3, <1>4, <1>5, <1>6, <1>7, <1>8, <1>9, <1>10, <1>11, <1>13, <1>14,
     <1>15, <1>16, <1>17, <1>18, <1>19
     DEF Next, Reconcile, Environment

\* A status is only written to an object that was not changed since it was listed.
LEMMA Written ==
  ASSUME IndInv, WriteStatus, ~UNCHANGED objects
  PROVE  /\ current \in Products
         /\ listed[current] = product[current]
         /\ product[current].phase = "live"
         /\ PutProduct(current, [product[current] EXCEPT !.status = draft])
         /\ UNCHANGED <<policies, limit>>
         /\ pc = "write"
BY DEF WriteStatus, Conflict, UpToDate, IndInv, TypeInv, CurrentListed, CopiesFresh, ListedLive,
       InLoop, Handling, objects

\* Everything else that changes a product.
LEMMA ObjectsWholeNext == IndInv /\ [Next]_vars => ObjectsWhole'
<1> SUFFICES ASSUME IndInv, [Next]_vars PROVE ObjectsWhole'
  OBVIOUS
<1> USE DEF IndInv, ObjectsWhole
<1>0. TypeOK
  BY DEF TypeInv
<1>1. CASE UNCHANGED product
  BY <1>1
<1>2. ASSUME NEW p \in Products, NEW object, PutProduct(p, object),
             IF object.phase = "absent" THEN object = NoProduct ELSE object.generation # 0
      PROVE  ObjectsWhole'
  BY <1>0, <1>2 DEF PutProduct, TypeOK
<1>3. CASE WriteStatus
  <2>1. CASE UNCHANGED objects
    BY <1>1, <2>1 DEF objects
  <2>2. CASE ~UNCHANGED objects
    <3> DEFINE object == [product[current] EXCEPT !.status = draft]
    <3>1. product[current] \in ProductObjects /\ current \in Products
      BY <1>0, <1>3, <2>2, Written DEF TypeOK
    <3>2. object.phase = "live" /\ object.generation # 0
      BY <1>3, <2>2, <3>1, Written DEF ProductObjects
    <3> QED BY <1>2, <1>3, <2>2, <3>1, <3>2, Written
  <2> QED BY <2>1, <2>2
<1>4. NoProduct.phase = "absent"
  BY DEF NoProduct
<1>5. ASSUME NEW p \in Products, FinishDeletion(p) PROVE ObjectsWhole'
  BY <1>2, <1>4, <1>5 DEF FinishDeletion
<1>6. ASSUME NEW p \in Products, EditProduct(p) PROVE ObjectsWhole'
  <2>1. PICK url \in Maybe(URLs) :
          PutProduct(p, [product[p] EXCEPT !.generation = @ + 1, !.url = url])
    BY <1>6 DEF EditProduct, ChangeProduct
  <2>2. product[p] \in ProductObjects /\ product[p].generation + 1 \in Nat \ {0}
    BY <1>0 DEF TypeOK, ProductObjects
  <2>3. [product[p] EXCEPT !.generation = @ + 1, !.url = url].phase = "live"
    BY <1>6, <2>2 DEF EditProduct, ProductObjects
  <2>4. [product[p] EXCEPT !.generation = @ + 1, !.url = url].generation # 0
    BY <2>2 DEF ProductObjects
  <2> QED BY <1>2, <2>1, <2>3, <2>4
<1>7. ASSUME NEW p \in Products, CreateProduct(p) PROVE ObjectsWhole'
  <2>1. \A url : NewProduct(url).phase = "live" /\ NewProduct(url).generation = 1
    BY DEF NewProduct, NoProduct
  <2> QED BY <1>2, <1>7, <2>1 DEF CreateProduct, ChangeProduct
<1>8. ASSUME NEW p \in Products, DeleteProduct(p) PROVE ObjectsWhole'
  <2>1. product[p] \in ProductObjects
    BY <1>0 DEF TypeOK
  <2>2. [product[p] EXCEPT !.phase = "deleting"].phase = "deleting"
    BY <2>1 DEF ProductObjects
  <2>3. [product[p] EXCEPT !.phase = "deleting"].generation # 0
    BY <1>8, <2>1 DEF ProductObjects, DeleteProduct
  <2> QED BY <1>2, <1>4, <1>8, <2>2, <2>3 DEF DeleteProduct, ChangeProduct
<1>9. CASE UNCHANGED vars
  BY <1>1, <1>9 DEF vars, objects
<1>10. CASE Start \/ ListAuthPolicies \/ ListProducts \/ PlanPolicyDiscoveredCondition
            \/ DiscoverAuthPolicy \/ DiscoverReadiness \/ Return \/ SyncProducts \/ Error
            \/ Restart \/ (\E p \in Products : DiscoverPlans(p))
            \/ (\E at \in DOMAIN route : ChangeRoute(at))
            \/ (\E a \in AuthPolicies : ChangeAuthPolicy(a))
            \/ (\E q \in PlanPolicies : ChangePlanPolicy(q))
  BY <1>1, <1>10
     DEF Start, ListAuthPolicies, ListProducts, PlanPolicyDiscoveredCondition, DiscoverAuthPolicy,
         DiscoverReadiness, Return, SyncProducts, Error, Restart, DiscoverPlans, ChangeRoute,
         ChangeAuthPolicy, ChangePlanPolicy, objects
<1> QED
  BY <1>3, <1>5, <1>6, <1>7, <1>8, <1>9, <1>10 DEF Next, Reconcile, Environment

LEMMA ListedLiveNext == IndInv /\ [Next]_vars => ListedLive'
<1> SUFFICES ASSUME IndInv, [Next]_vars PROVE ListedLive'
  OBVIOUS
<1> USE DEF IndInv, ListedLive, objects, policies, lists, call
<1>0. TypeOK
  BY DEF TypeInv
<1>1. CASE NoCall
  BY <1>1 DEF NoCall, Handling
<1>2. CASE Start \/ ListAuthPolicies
  BY <1>2 DEF Start, ListAuthPolicies, Handling
<1>3. CASE ListProducts
  BY <1>3 DEF ListProducts, Handling
<1>4. ASSUME NEW p \in Products, DiscoverPlans(p) PROVE ListedLive'
  BY <1>4 DEF DiscoverPlans, Handling
<1>5. CASE PlanPolicyDiscoveredCondition \/ DiscoverAuthPolicy \/ DiscoverReadiness
  BY <1>5 DEF PlanPolicyDiscoveredCondition, DiscoverAuthPolicy, DiscoverReadiness, Handling
<1>6. CASE WriteStatus
  BY <1>1, <1>6 DEF WriteStatus, GiveUp, Handling
<1>7. CASE UNCHANGED <<pc, lists, todo, current>>
  BY <1>7
<1>8. CASE Return \/ Error \/ Restart
  BY <1>1, <1>8 DEF Return, Error, Restart, GiveUp
<1>9. CASE SyncProducts \/ (\E p \in Products : FinishDeletion(p))
           \/ (\E p \in Products : EditProduct(p) \/ CreateProduct(p) \/ DeleteProduct(p))
           \/ (\E at \in DOMAIN route : ChangeRoute(at))
           \/ (\E a \in AuthPolicies : ChangeAuthPolicy(a))
           \/ (\E q \in PlanPolicies : ChangePlanPolicy(q))
  BY <1>7, <1>9
     DEF SyncProducts, FinishDeletion, EditProduct, CreateProduct, DeleteProduct, ChangeProduct,
         ChangeRoute, ChangeAuthPolicy, ChangePlanPolicy
<1>10. CASE UNCHANGED vars
  BY <1>7, <1>10 DEF vars
<1> QED
  BY <1>2, <1>3, <1>4, <1>5, <1>6, <1>8, <1>9, <1>10 DEF Next, Reconcile, Environment

-----------------------------------------------------------------------------
(* The inductive invariant: answers *)

LEMMA NewAnswerFits == AnswerFits(NoProduct) /\ \A url : AnswerFits(NewProduct(url))
<1>1. NoProduct.status = NoStatus /\ NoProduct.generation = 0
  BY DEF NoProduct
<1>2. \A url : NewProduct(url).status = NoStatus /\ NewProduct(url).generation = 1
  BY DEF NewProduct, NoProduct
<1>3. NoStatus.observed = 0 /\ NoStatus.openapi = Nothing
  BY DEF NoStatus
<1> QED BY <1>1, <1>2, <1>3 DEF AnswerFits

\* What openAPIStatus returns answers for the object it was called with.
LEMMA ResultAnswers ==
  ASSUME TypeOK, NEW object \in ProductObjects, AnswerFits(object),
         NEW result \in OpenAPIStatus(object), NEW s \in Statuses,
         s.observed = object.generation, s.openapi = result.openapi, s.openapiCond = result.cond
  PROVE  Answered([object EXCEPT !.status = s])
<1> DEFINE new == [object EXCEPT !.status = s]
<1>1. new.status = s /\ new.generation = object.generation /\ new.url = object.url
  BY DEF ProductObjects
<1>2. CASE object.url = Nothing
  BY <1>1, <1>2 DEF OpenAPIStatus, Answered
<1>3. CASE object.url # Nothing /\ Fetched(object)
  BY <1>1, <1>3 DEF OpenAPIStatus, Answered, Fetched, AnswerFits
<1>4. CASE object.url # Nothing /\ ~Fetched(object)
  <2>1. object.url \in URLs /\ limit \in Limits
    BY <1>4 DEF ProductObjects, Maybe, TypeOK
  <2>2. DocumentSize[object.url] \in Nat /\ limit \in Nat
    BY <2>1, EnvironmentAssumption DEF EnvironmentAssumption
  <2>3. result \in FetchResults(object)
    BY <1>4 DEF OpenAPIStatus
  <2>4. \A raw \in URLs \cup {Nothing} : /\ Fetch(object, raw).raw = raw
                                         /\ Fetch(object, raw).limit = limit
    BY DEF Fetch
  <2>5. object.status \in Statuses
    BY DEF ProductObjects
  <2>6. \A raw \in URLs \cup {Nothing} : Fetch(object, raw) # Nothing
    <3> SUFFICES ASSUME NEW raw \in URLs \cup {Nothing} PROVE Fetch(object, raw) # Nothing
      OBVIOUS
    <3> DEFINE t == IF object.status.openapi = Nothing THEN 0
                    ELSE 1 - object.status.openapi.time
    <3>1. t \in {0, 1}
      <4>1. object.status.openapi \in Maybe(Documents)
        BY <2>5 DEF Statuses
      <4>2. object.status.openapi # Nothing => object.status.openapi.time \in {0, 1}
        BY <4>1 DEF Documents, Maybe
      <4> QED BY <4>2
    <3>2. Fetch(object, raw) = [raw |-> raw, limit |-> limit, time |-> t]
      BY DEF Fetch
    <3> QED BY <2>1, <3>1, <3>2, NothingAssumption DEF NothingAssumption
  <2>7. CASE DocumentSize[object.url] > limit
    <3>1. result.openapi = Fetch(object, Nothing) /\ result.cond \in {"FetchFailed", "SpecSizeTooLarge"}
      BY <2>3, <2>7 DEF FetchResults
    <3> QED BY <1>1, <1>4, <2>4, <2>6, <3>1, NothingAssumption DEF NothingAssumption, Answered
  <2>8. CASE ~(DocumentSize[object.url] > limit)
    <3>1. \/ result.openapi = Fetch(object, Nothing) /\ result.cond = "FetchFailed"
          \/ result.openapi = Fetch(object, object.url) /\ result.cond = "SpecFetched"
      BY <2>3, <2>8 DEF FetchResults
    <3>2. DocumentSize[object.url] <= limit
      BY <2>2, <2>8
    <3> QED BY <1>1, <1>4, <2>1, <2>4, <2>6, <3>1, <3>2, NothingAssumption DEF NothingAssumption, Answered
  <2> QED BY <2>7, <2>8
<1> QED BY <1>2, <1>3, <1>4

LEMMA AnswersFitNext == IndInv /\ [Next]_vars => AnswersFit'
<1> SUFFICES ASSUME IndInv, [Next]_vars PROVE AnswersFit'
  OBVIOUS
<1> USE DEF AnswersFit
<1>0. TypeOK /\ AnswersFit
  BY DEF IndInv, TypeInv
<1>1. CASE /\ product' = product \/ cache' = product
           /\ product' = product
           /\ cache' = cache \/ cache' = product
           /\ listed' = listed \/ listed' = cache \/ NoCall
  BY <1>0, <1>1, NewAnswerFits DEF NoCall
<1>2. ASSUME NEW p \in Products, NEW object, PutProduct(p, object), AnswerFits(object),
             listed' = listed
      PROVE  AnswersFit'
  BY <1>0, <1>2 DEF PutProduct, TypeOK
<1>3. CASE WriteStatus
  <2>1. CASE UNCHANGED objects
    BY <1>1, <1>3, <2>1 DEF objects, lists, WriteStatus, GiveUp
  <2>2. CASE ~UNCHANGED objects
    <3> DEFINE object == [product[current] EXCEPT !.status = draft]
    <3>1. Answered(object) /\ product[current] \in ProductObjects /\ current \in Products
      BY <1>0, <1>3, <2>2, Written DEF IndInv, DraftAnswers, TypeOK
    <3>2. object.generation \in Nat
      BY <3>1 DEF ProductObjects
    <3>3. AnswerFits(object)
      BY <3>1, <3>2 DEF Answered, AnswerFits
    <3>4. listed' = listed
      BY <1>3, <2>2 DEF WriteStatus, objects, lists
    <3> QED BY <1>2, <1>3, <2>2, <3>1, <3>3, <3>4, Written
  <2> QED BY <2>1, <2>2
<1>4. ASSUME NEW p \in Products, FinishDeletion(p) PROVE AnswersFit'
  BY <1>2, <1>4, NewAnswerFits DEF FinishDeletion, lists
<1>5. ASSUME NEW p \in Products, EditProduct(p) PROVE AnswersFit'
  <2>1. PICK url \in Maybe(URLs) :
          ChangeProduct(p, [product[p] EXCEPT !.generation = @ + 1, !.url = url])
    BY <1>5 DEF EditProduct
  <2> DEFINE object == [product[p] EXCEPT !.generation = @ + 1, !.url = url]
  <2>2. product[p] \in ProductObjects
    BY <1>0 DEF TypeOK
  <2>3. /\ product[p].generation \in Nat
        /\ product[p].status.observed \in Nat
        /\ object.generation = product[p].generation + 1
        /\ object.status = product[p].status
    BY <2>2 DEF ProductObjects, Statuses
  <2>4. AnswerFits(object)
    BY <1>0, <2>3 DEF AnswerFits
  <2> QED BY <1>2, <2>1, <2>4 DEF ChangeProduct, lists
<1>6. ASSUME NEW p \in Products, CreateProduct(p) PROVE AnswersFit'
  BY <1>2, <1>6, NewAnswerFits DEF CreateProduct, ChangeProduct, lists
<1>7. ASSUME NEW p \in Products, DeleteProduct(p) PROVE AnswersFit'
  <2> DEFINE object == [product[p] EXCEPT !.phase = "deleting"]
  <2>1. product[p] \in ProductObjects
    BY <1>0 DEF TypeOK
  <2>2. /\ object.generation = product[p].generation
        /\ object.status = product[p].status
        /\ object.url = product[p].url
    BY <2>1 DEF ProductObjects
  <2>3. AnswerFits(object)
    BY <1>0, <2>2 DEF AnswerFits
  <2> QED BY <1>2, <1>7, <2>3, NewAnswerFits DEF DeleteProduct, ChangeProduct, lists
<1>8. CASE Start \/ ListAuthPolicies \/ ListProducts \/ PlanPolicyDiscoveredCondition
           \/ DiscoverAuthPolicy \/ DiscoverReadiness \/ Return \/ SyncProducts \/ Error
           \/ Restart \/ (\E p \in Products : DiscoverPlans(p))
           \/ (\E at \in DOMAIN route : ChangeRoute(at))
           \/ (\E a \in AuthPolicies : ChangeAuthPolicy(a))
           \/ (\E q \in PlanPolicies : ChangePlanPolicy(q))
  BY <1>1, <1>8
     DEF Start, ListAuthPolicies, ListProducts, PlanPolicyDiscoveredCondition, DiscoverAuthPolicy,
         DiscoverReadiness, Return, SyncProducts, Error, Restart, GiveUp, DiscoverPlans,
         ChangeRoute, ChangeAuthPolicy, ChangePlanPolicy, objects, lists, call
<1>9. CASE UNCHANGED vars
  BY <1>1, <1>9 DEF vars, objects, lists, call
<1> QED
  BY <1>3, <1>4, <1>5, <1>6, <1>7, <1>8, <1>9 DEF Next, Reconcile, Environment

\* What is computed for a product is computed for the object that was listed.
LEMMA DraftAnswersNext == IndInv /\ [Next]_vars => DraftAnswers'
<1> SUFFICES ASSUME IndInv, [Next]_vars PROVE DraftAnswers'
  OBVIOUS
<1> USE DEF DraftAnswers
<1>0. TypeOK /\ CurrentListed /\ DraftAnswers
  BY DEF IndInv, TypeInv
<1>1. CASE pc' \notin Handling
  BY <1>1 DEF Handling
<1>2. CASE UNCHANGED <<pc, listed, current, draft, limit>>
  <2>1. \A object : OpenAPIStatus(object)' = OpenAPIStatus(object)
    BY <1>2 DEF OpenAPIStatus, Fetched, FetchResults, Fetch
  <2>2. \A object : Answered(object)' <=> Answered(object)
    BY <1>2 DEF Answered
  <2> QED BY <1>0, <1>2, <2>1, <2>2
<1>3. ASSUME NEW p \in Products, DiscoverPlans(p) PROVE DraftAnswers'
  <2>1. PICK q \in Find(planList, p) :
          draft' = [NoStatus EXCEPT !.observed = listed[p].generation,
                                    !.plans = PlanPolicyIntoPlans(q)]
    BY <1>3 DEF DiscoverPlans
  <2>2. draft'.observed = listed[p].generation
    BY <2>1 DEF NoStatus
  <2> QED BY <1>3, <2>2 DEF DiscoverPlans, lists, Handling
<1>4. CASE PlanPolicyDiscoveredCondition
  <2>1. draft'.observed = draft.observed /\ pc = "planCondition" /\ pc' = "authPolicy"
    BY <1>0, <1>4 DEF PlanPolicyDiscoveredCondition, TypeOK, Statuses
  <2> QED BY <1>0, <1>4, <2>1 DEF PlanPolicyDiscoveredCondition, lists, Handling
<1>5. CASE DiscoverAuthPolicy
  <2>1. draft'.observed = draft.observed /\ pc = "authPolicy" /\ pc' = "ready"
    BY <1>0, <1>5 DEF DiscoverAuthPolicy, TypeOK, Statuses
  <2> QED BY <1>0, <1>5, <2>1 DEF DiscoverAuthPolicy, lists, Handling
<1>6. CASE DiscoverReadiness
  <2>0. current \in Products /\ pc = "ready" /\ pc' = "write" /\ pc \in Handling
    BY <1>0, <1>6 DEF DiscoverReadiness, CurrentListed, Handling
  <2> DEFINE object == listed[current]
  <2>1. object \in ProductObjects /\ AnswerFits(object)
    BY <1>0, <2>0 DEF IndInv, TypeOK, AnswersFit
  <2>2. PICK result \in OpenAPIStatus(object) :
          draft' = [draft EXCEPT !.readyCond = ReadyCondition(route[TargetRef[current]]),
                                 !.openapi = result.openapi,
                                 !.openapiCond = result.cond]
    BY <1>6 DEF DiscoverReadiness
  <2>3. /\ draft'.observed = draft.observed
        /\ draft'.openapi = result.openapi
        /\ draft'.openapiCond = result.cond
    BY <1>0, <2>2 DEF TypeOK, Statuses
  <2>4. draft' \in Statuses
    BY <1>6, DiscoverReadinessType DEF IndInv, TypeInv, TypeOK
  <2>5. draft'.observed = object.generation
    BY <1>0, <2>0, <2>3
  <2>6. Answered([object EXCEPT !.status = draft'])
    BY <1>0, <2>1, <2>3, <2>4, <2>5, ResultAnswers
  <2>7. UNCHANGED <<current, listed, limit>>
    BY <1>6 DEF DiscoverReadiness, lists
  <2>8. \A o : (OpenAPIStatus(o)' = OpenAPIStatus(o)) /\ (Answered(o)' <=> Answered(o))
    BY <2>7 DEF OpenAPIStatus, Fetched, FetchResults, Fetch, Answered
  <2>9. \E r \in OpenAPIStatus(object) : draft'.openapi = r.openapi /\ draft'.openapiCond = r.cond
    BY <2>3
  <2> QED BY <2>5, <2>6, <2>7, <2>8, <2>9
<1>7. CASE Start \/ ListAuthPolicies \/ ListProducts \/ WriteStatus \/ Return \/ Error \/ Restart
  BY <1>1, <1>7 DEF Start, ListAuthPolicies, ListProducts, WriteStatus, Return, Error, Restart,
                    GiveUp, NoCall, Handling
<1>8. CASE SyncProducts \/ (\E p \in Products : FinishDeletion(p))
           \/ (\E p \in Products : EditProduct(p) \/ CreateProduct(p) \/ DeleteProduct(p))
           \/ (\E at \in DOMAIN route : ChangeRoute(at))
           \/ (\E a \in AuthPolicies : ChangeAuthPolicy(a))
           \/ (\E q \in PlanPolicies : ChangePlanPolicy(q))
  BY <1>2, <1>8
     DEF SyncProducts, FinishDeletion, EditProduct, CreateProduct, DeleteProduct, ChangeProduct,
         ChangeRoute, ChangeAuthPolicy, ChangePlanPolicy, lists, call
<1>9. CASE UNCHANGED vars
  BY <1>2, <1>9 DEF vars, lists, call
<1> QED
  BY <1>3, <1>4, <1>5, <1>6, <1>7, <1>8, <1>9 DEF Next, Reconcile, Environment

LEMMA IndInit == Init => IndInv
<1> SUFFICES ASSUME Init PROVE IndInv
  OBVIOUS
<1>1. TypeInv
  BY TypeInit
<1>2. ASSUME NEW p \in Products
      PROVE  \E url \in Maybe(URLs) : product[p] = NewProduct(url) /\ cache[p] = NewProduct(url)
  BY DEF Init
<1>3. \A url : NewProduct(url).phase = "live" /\ NewProduct(url).generation = 1
  BY DEF NewProduct, NoProduct
<1>4. CopiesFresh
  BY DEF Init, CopiesFresh, InLoop, Handling
<1>5. ObjectsWhole
  BY <1>2, <1>3 DEF ObjectsWhole
<1>6. AnswersFit
  BY <1>2, NewAnswerFits DEF Init, AnswersFit
<1>7. ListedLive /\ DraftAnswers
  BY DEF Init, ListedLive, DraftAnswers, Handling
<1> QED BY <1>1, <1>4, <1>5, <1>6, <1>7 DEF IndInv

LEMMA IndNext == IndInv /\ [Next]_vars => IndInv'
BY TypeNext, CopiesFreshNext, ObjectsWholeNext, ListedLiveNext, AnswersFitNext, DraftAnswersNext
   DEF IndInv

LEMMA Invariance == Spec => []IndInv
BY IndInit, IndNext, PTL DEF Spec

-----------------------------------------------------------------------------
(* The controller implements DocumentPublication *)

wish     == [p \in Products |-> [generation |-> product[p].generation, url |-> product[p].url]]
answered == [p \in Products |-> [observed |-> product[p].status.observed,
                                 openapi |-> product[p].status.openapi]]

abstractVars == <<wish, answered, limit>>

LEMMA AbstractInit == Init => Publication!Init
<1> SUFFICES ASSUME Init PROVE Publication!Init
  OBVIOUS
<1>1. ASSUME NEW p \in Products
      PROVE  /\ product[p].generation = 1
             /\ product[p].url \in URLs \cup {Nothing}
             /\ product[p].status.observed = 0
             /\ product[p].status.openapi = Nothing
  <2>1. PICK url \in Maybe(URLs) : product[p] = NewProduct(url)
    BY DEF Init
  <2> QED BY <2>1 DEF NewProduct, NoProduct, NoStatus, Maybe
<1>2. limit \in Limits
  BY DEF Init
<1> QED BY <1>1, <1>2 DEF Publication!Init, Publication!Unpublished

\* A written object is seen by its generation, its URL and its answer.
LEMMA PutProductSeen ==
  ASSUME TypeOK, NEW p \in Products, NEW object, PutProduct(p, object)
  PROVE  /\ wish' = [wish EXCEPT ![p] = [generation |-> object.generation, url |-> object.url]]
         /\ answered' = [answered EXCEPT ![p] = [observed |-> object.status.observed,
                                                 openapi |-> object.status.openapi]]
BY DEF PutProduct, wish, answered, TypeOK

LEMMA SpecKept ==
  ASSUME TypeOK, NEW p \in Products, NEW object, PutProduct(p, object),
         object.generation = product[p].generation, object.url = product[p].url
  PROVE  wish' = wish
<1>1. ASSUME NEW q \in Products
      PROVE  product'[q].generation = product[q].generation /\ product'[q].url = product[q].url
  BY DEF PutProduct, TypeOK
<1> QED BY <1>1 DEF wish

LEMMA StatusKept ==
  ASSUME TypeOK, NEW p \in Products, NEW object, PutProduct(p, object),
         object.status = product[p].status
  PROVE  answered' = answered
<1>1. ASSUME NEW q \in Products
      PROVE  product'[q].status = product[q].status
  BY DEF PutProduct, TypeOK
<1> QED BY <1>1 DEF answered

\* What a call publishes is one of the answers DocumentPublication allows.
LEMMA WriteStatusPublishes ==
  ASSUME IndInv, WriteStatus, ~UNCHANGED objects, NEW p \in Products, current = p
  PROVE  Publication!Publish(p)
<1> DEFINE object == product[p]
           new    == [object EXCEPT !.status = draft]
<1>0. TypeOK /\ object \in ProductObjects /\ draft \in Statuses
  BY Written DEF IndInv, TypeInv, TypeOK
<1>1. /\ new.status = draft /\ new.generation = object.generation /\ new.url = object.url
      /\ PutProduct(p, new)
      /\ object.phase = "live"
      /\ pc = "write"
      /\ UNCHANGED limit
      /\ listed[p] = object
  BY <1>0, Written DEF ProductObjects
<1>2. object.generation # 0
  BY <1>0, <1>1 DEF IndInv, ObjectsWhole
<1>3. draft.observed = object.generation
  BY <1>1 DEF IndInv, DraftAnswers, Handling
<1>4. PICK result \in OpenAPIStatus(object) :
        draft.openapi = result.openapi /\ draft.openapiCond = result.cond
  BY <1>1 DEF IndInv, DraftAnswers
<1>5. /\ wish' = wish
      /\ answered' = [answered EXCEPT ![p] = [observed |-> object.generation,
                                                    openapi |-> result.openapi]]
  <2>1. wish' = wish
    BY <1>0, <1>1, SpecKept
  <2>2. new.status.observed = object.generation /\ new.status.openapi = result.openapi
    BY <1>1, <1>3, <1>4
  <2>3. answered' = [answered EXCEPT ![p] = [observed |-> new.status.observed,
                                                   openapi |-> new.status.openapi]]
    BY <1>0, <1>1, PutProductSeen
  <2> QED BY <2>1, <2>2, <2>3
<1>6. /\ wish[p].generation = object.generation
      /\ wish[p].url = object.url
      /\ answered[p].observed = object.status.observed
      /\ answered[p].openapi = object.status.openapi
  BY <1>0 DEF wish, answered
<1>7. result.openapi \in IF object.url = Nothing THEN {Nothing}
                         ELSE IF Publication!Answered(p) THEN {object.status.openapi}
                         ELSE Publication!Answers(object.url)
  <2>1. CASE object.url = Nothing
    BY <1>4, <2>1 DEF OpenAPIStatus
  <2>2. CASE object.url # Nothing /\ Fetched(object)
    <3>1. Publication!Answered(p)
      BY <1>6, <2>2 DEF Publication!Answered, Fetched, wish, answered
    <3> QED BY <1>4, <2>2, <3>1 DEF OpenAPIStatus
  <2>3. CASE object.url # Nothing /\ ~Fetched(object)
    <3>1. AnswerFits(object)
      BY <1>0 DEF IndInv, AnswersFit
    <3>2. ~Publication!Answered(p)
      BY <1>6, <2>3, <3>1 DEF Publication!Answered, Fetched, AnswerFits, wish, answered
    <3>3. result \in FetchResults(object)
      BY <1>4, <2>3 DEF OpenAPIStatus
    <3>4. /\ object.url \in URLs
          /\ DocumentSize[object.url] \in Nat
          /\ limit \in Nat
      BY <1>0, <2>3, EnvironmentAssumption DEF EnvironmentAssumption, ProductObjects, TypeOK, Maybe
    <3>5. \E raw \in {Nothing} \cup {u \in {object.url} : DocumentSize[u] <= limit} :
            result.openapi = Fetch(object, raw)
      BY <3>3, <3>4 DEF FetchResults
    <3>6. \A raw \in Maybe(URLs) : Fetch(object, raw).time \in {0, 1}
      <4>1. object.status.openapi \in Maybe(Documents)
        BY <1>0 DEF ProductObjects, Statuses
      <4>2. object.status.openapi # Nothing => object.status.openapi.time \in {0, 1}
        BY <4>1 DEF Documents, Maybe
      <4> QED BY <4>2 DEF Fetch
    <3>7. result.openapi \in Publication!Answers(object.url)
      BY <3>4, <3>5, <3>6 DEF Publication!Answers, Fetch, Maybe
    <3> QED BY <2>3, <3>2, <3>7
  <2> QED BY <2>1, <2>2, <2>3
<1> QED BY <1>1, <1>2, <1>5, <1>6, <1>7 DEF Publication!Publish, wish, answered

LEMMA GoneReplaces ==
  ASSUME TypeOK, NEW p \in Products, PutProduct(p, NoProduct), UNCHANGED limit
  PROVE  Publication!Replace(p)
<1>1. /\ NoProduct.generation = 0 /\ NoProduct.url = Nothing
      /\ NoProduct.status.observed = 0 /\ NoProduct.status.openapi = Nothing
  BY DEF NoProduct, NoStatus
<1>2. /\ wish' = [wish EXCEPT ![p] = [generation |-> 0, url |-> Nothing]]
      /\ answered' = [answered EXCEPT ![p] = [observed |-> 0, openapi |-> Nothing]]
  BY <1>1, PutProductSeen
<1> QED BY <1>2
         DEF Publication!Replace, Publication!Gone, Publication!Unpublished, wish, answered

LEMMA AbstractNext == IndInv /\ [Next]_vars => [Publication!Next]_abstractVars
<1> SUFFICES ASSUME IndInv, [Next]_vars PROVE Publication!Next \/ UNCHANGED abstractVars
  OBVIOUS
<1>0. TypeOK
  BY DEF IndInv, TypeInv
<1>1. CASE UNCHANGED <<product, limit>>
  BY <1>1 DEF abstractVars, wish, answered
<1>2. CASE WriteStatus
  <2>1. CASE UNCHANGED objects
    BY <1>1, <1>2, <2>1 DEF WriteStatus, objects
  <2>2. CASE ~UNCHANGED objects
    <3>1. PICK p \in Products : p = current
      BY <1>2, <2>2, Written
    <3>2. Publication!Publish(p)
      BY <1>2, <2>2, <3>1, WriteStatusPublishes
    <3> QED BY <3>2 DEF Publication!Next
  <2> QED BY <2>1, <2>2
<1>3. ASSUME NEW p \in Products, FinishDeletion(p) PROVE Publication!Next
  BY <1>0, <1>3, GoneReplaces DEF FinishDeletion, Publication!Next
<1>4. ASSUME NEW p \in Products, EditProduct(p) PROVE Publication!Next
  <2>1. PICK url \in Maybe(URLs) :
          ChangeProduct(p, [product[p] EXCEPT !.generation = @ + 1, !.url = url])
    BY <1>4 DEF EditProduct
  <2> DEFINE object == [product[p] EXCEPT !.generation = @ + 1, !.url = url]
  <2>2. product[p] \in ProductObjects
    BY <1>0 DEF TypeOK
  <2>3. /\ object.generation = product[p].generation + 1
        /\ object.url = url
        /\ object.status = product[p].status
    BY <2>2 DEF ProductObjects
  <2>4. PutProduct(p, object) /\ UNCHANGED limit
    BY <2>1 DEF ChangeProduct
  <2>5. /\ wish' = [wish EXCEPT ![p] = [generation |-> product[p].generation + 1, url |-> url]]
        /\ answered' = answered
    <3>1. answered' = answered
      BY <1>0, <2>3, <2>4, StatusKept
    <3>2. wish' = [wish EXCEPT ![p] = [generation |-> object.generation, url |-> object.url]]
      BY <1>0, <2>4, PutProductSeen
    <3> QED BY <2>3, <3>1, <3>2
  <2>6. wish[p].generation = product[p].generation
    BY DEF wish
  <2>7. product[p].generation # 0
    BY <1>4 DEF IndInv, ObjectsWhole, EditProduct
  <2>8. Publication!Edit(p)
    BY <2>4, <2>5, <2>6, <2>7 DEF Publication!Edit, wish, answered, Maybe
  <2> QED BY <2>8 DEF Publication!Next
<1>5. ASSUME NEW p \in Products, CreateProduct(p) PROVE Publication!Next
  <2>1. PICK url \in Maybe(URLs) : PutProduct(p, NewProduct(url)) /\ UNCHANGED limit
    BY <1>5 DEF CreateProduct, ChangeProduct
  <2>2. /\ NewProduct(url).generation = 1 /\ NewProduct(url).url = url
        /\ NewProduct(url).status.observed = 0 /\ NewProduct(url).status.openapi = Nothing
    BY DEF NewProduct, NoProduct, NoStatus
  <2>3. /\ wish' = [wish EXCEPT ![p] = [generation |-> 1, url |-> url]]
        /\ answered' = [answered EXCEPT ![p] = [observed |-> 0, openapi |-> Nothing]]
    BY <1>0, <2>1, <2>2, PutProductSeen
  <2>4. product[p] = NoProduct
    BY <1>5 DEF IndInv, ObjectsWhole, CreateProduct
  <2>5. wish[p] = [generation |-> 0, url |-> Nothing]
    BY <2>4 DEF wish, NoProduct
  <2>6. Publication!Replace(p)
    BY <2>1, <2>3, <2>5
       DEF Publication!Replace, Publication!Gone, Publication!Unpublished, wish, answered, Maybe
  <2> QED BY <2>6 DEF Publication!Next
<1>6. ASSUME NEW p \in Products, DeleteProduct(p)
      PROVE  Publication!Next \/ UNCHANGED abstractVars
  <2>1. CASE PutProduct(p, NoProduct)
    <3>1. Publication!Replace(p)
      BY <1>0, <1>6, <2>1, GoneReplaces DEF DeleteProduct, ChangeProduct
    <3> QED BY <3>1 DEF Publication!Next
  <2>2. CASE PutProduct(p, [product[p] EXCEPT !.phase = "deleting"])
    <3> DEFINE object == [product[p] EXCEPT !.phase = "deleting"]
    <3>1. product[p] \in ProductObjects
      BY <1>0 DEF TypeOK
    <3>2. /\ object.generation = product[p].generation
          /\ object.url = product[p].url
          /\ object.status = product[p].status
      BY <3>1 DEF ProductObjects
    <3>3. wish' = wish /\ answered' = answered
      BY <1>0, <2>2, <3>2, SpecKept, StatusKept
    <3> QED BY <1>6, <3>3 DEF DeleteProduct, ChangeProduct, abstractVars
  <2> QED BY <1>6, <2>1, <2>2 DEF DeleteProduct, ChangeProduct
<1>7. CASE Restart
  <2>1. Publication!Reconfigure
    BY <1>7 DEF Restart, Publication!Reconfigure
  <2> QED BY <2>1 DEF Publication!Next
<1>8. CASE Start \/ ListAuthPolicies \/ ListProducts \/ PlanPolicyDiscoveredCondition
           \/ DiscoverAuthPolicy \/ DiscoverReadiness \/ Return \/ SyncProducts \/ Error
           \/ (\E p \in Products : DiscoverPlans(p))
           \/ (\E at \in DOMAIN route : ChangeRoute(at))
           \/ (\E a \in AuthPolicies : ChangeAuthPolicy(a))
           \/ (\E q \in PlanPolicies : ChangePlanPolicy(q))
  BY <1>1, <1>8
     DEF Start, ListAuthPolicies, ListProducts, PlanPolicyDiscoveredCondition, DiscoverAuthPolicy,
         DiscoverReadiness, Return, SyncProducts, Error, DiscoverPlans, ChangeRoute,
         ChangeAuthPolicy, ChangePlanPolicy, objects
<1>9. CASE UNCHANGED vars
  BY <1>1, <1>9 DEF vars, objects
<1> QED
  BY <1>2, <1>3, <1>4, <1>5, <1>6, <1>7, <1>8, <1>9 DEF Next, Reconcile, Environment

\* Every behaviour of the controller is one that DocumentPublication allows: no
\* answer is published for an earlier generation, for another URL or beyond the
\* limit, and none is replaced while it still answers.
THEOREM ControllerImplementsPublication == Spec => ImplementsPublication
<1>1. Publication!Spec <=> Publication!Init /\ [][Publication!Next]_abstractVars
  BY DEF Publication!Spec, abstractVars, wish, answered
<1> QED
  BY <1>1, AbstractInit, AbstractNext, Invariance, PTL DEF Spec, ImplementsPublication

-----------------------------------------------------------------------------
(* Token endpoints *)

LEMMA NewEndpointFits ==
  EndpointFits(NoStatus) /\ EndpointFits(NoProduct.status)
    /\ \A url : EndpointFits(NewProduct(url).status)
BY DEF EndpointFits, NoStatus, NoProduct, NewProduct

\* The endpoint a call computes fits the scheme beside it, if the published one does.
LEMMA DiscoverAuthPolicyFits ==
  ASSUME SingleIssuer, TypeInv, EndpointsFit, DiscoverAuthPolicy
  PROVE  EndpointFits(draft')
<1> DEFINE old == listed[current].status
<1>0. /\ current \in Products
      /\ old \in Statuses
      /\ EndpointFits(old)
      /\ draft \in Statuses
      /\ authList \in [AuthPolicies -> Maybe(AuthStates)]
  BY DEF DiscoverAuthPolicy, TypeInv, TypeOK, CurrentListed, Handling, EndpointsFit, ProductObjects
<1>1. PICK a \in Find(authList, current) :
        \E issuer, named \in ExtractIssuerURL(PublishedScheme(a)),
           existing \in ExtractIssuerURL(old.scheme) :
        \E result \in OIDCDiscoveryStatus(old, issuer, existing) :
           draft' = [draft EXCEPT
                      !.scheme = PublishedScheme(a),
                      !.authCond = AuthPolicyDiscoveredCondition(a),
                      !.endpoint = result.endpoint,
                      !.oidcCond = OIDCDiscoveredCondition(named, result.error)]
  BY DEF DiscoverAuthPolicy
<1>2. PICK issuer \in ExtractIssuerURL(PublishedScheme(a)),
           named \in ExtractIssuerURL(PublishedScheme(a)),
           existing \in ExtractIssuerURL(old.scheme) :
        \E result \in OIDCDiscoveryStatus(old, issuer, existing) :
           draft' = [draft EXCEPT
                      !.scheme = PublishedScheme(a),
                      !.authCond = AuthPolicyDiscoveredCondition(a),
                      !.endpoint = result.endpoint,
                      !.oidcCond = OIDCDiscoveredCondition(named, result.error)]
  BY <1>1
<1>3. PICK result \in OIDCDiscoveryStatus(old, issuer, existing) :
           draft' = [draft EXCEPT
                      !.scheme = PublishedScheme(a),
                      !.authCond = AuthPolicyDiscoveredCondition(a),
                      !.endpoint = result.endpoint,
                      !.oidcCond = OIDCDiscoveredCondition(named, result.error)]
  BY <1>2
<1> DEFINE scheme == PublishedScheme(a)
<1>4. draft'.scheme = scheme /\ draft'.endpoint = result.endpoint
  BY <1>0, <1>3 DEF Statuses
<1>5. scheme \in Maybe(Schemes) /\ old.scheme \in Maybe(Schemes)
  <2>1. a # Nothing => authList[a] \in AuthStates
    BY <1>0, FoundPolicy DEF Maybe
  <2> QED BY <1>0, <2>1, SchemeOfPolicy DEF PublishedScheme, Statuses, Maybe
<1>6. CASE issuer = Nothing
  <2>1. scheme = Nothing \/ scheme.issuers = {}
    BY <1>5, <1>6, ExtractedIssuer
  <2> QED BY <1>4, <2>1 DEF EndpointFits
<1>7. CASE issuer # Nothing
  <2>1. issuer \in scheme.issuers
    BY <1>5, <1>7, ExtractedIssuer
  <2>2. CASE old.endpoint # Nothing /\ existing = issuer
    <3>1. old.scheme \in Schemes /\ issuer \in old.scheme.issuers
      BY <1>5, <1>7, <2>2, ExtractedIssuer
    <3>2. old.scheme # Nothing
      BY <3>1 DEF Schemes
    <3>3. old.endpoint \in old.scheme.issuers
      BY <1>0, <2>2, <3>1, <3>2 DEF EndpointFits
    <3>4. old.endpoint = issuer
      BY <3>1, <3>3 DEF SingleIssuer
    <3> QED BY <1>4, <2>1, <2>2, <3>4 DEF OIDCDiscoveryStatus, FetchDiscovery, EndpointFits
  <2>3. CASE ~(old.endpoint # Nothing /\ existing = issuer)
    <3>1. result.endpoint \in {issuer, Nothing}
      BY <1>7, <2>3 DEF OIDCDiscoveryStatus, FetchDiscovery
    <3> QED BY <1>4, <2>1, <3>1 DEF EndpointFits
  <2> QED BY <2>2, <2>3
<1> QED BY <1>6, <1>7

LEMMA EndpointsFitInit == Init => EndpointsFit
<1> SUFFICES ASSUME Init PROVE EndpointsFit
  OBVIOUS
<1>1. ASSUME NEW p \in Products
      PROVE  \E url \in Maybe(URLs) : product[p] = NewProduct(url) /\ cache[p] = NewProduct(url)
  BY DEF Init
<1> QED BY <1>1, NewEndpointFits DEF Init, EndpointsFit

LEMMA EndpointsFitNext ==
  ASSUME SingleIssuer
  PROVE  IndInv /\ EndpointsFit /\ [Next]_vars => EndpointsFit'
<1> SUFFICES ASSUME IndInv, EndpointsFit, [Next]_vars PROVE EndpointsFit'
  OBVIOUS
<1> USE DEF EndpointsFit
<1>0. TypeOK /\ CurrentListed
  BY DEF IndInv, TypeInv
<1>1. CASE /\ product' = product
           /\ cache' = cache \/ cache' = product
           /\ listed' = listed \/ listed' = cache \/ NoCall
           /\ draft' = draft \/ draft' = NoStatus
  BY <1>1, NewEndpointFits DEF NoCall
<1>2. ASSUME NEW p \in Products, NEW object, PutProduct(p, object), EndpointFits(object.status),
             listed' = listed, draft' = draft \/ draft' = NoStatus
      PROVE  EndpointsFit'
  BY <1>0, <1>2, NewEndpointFits DEF PutProduct, TypeOK
<1>3. ASSUME EndpointFits(draft'), UNCHANGED <<product, cache, listed>> PROVE EndpointsFit'
  BY <1>3
<1>4. ASSUME NEW p \in Products, DiscoverPlans(p) PROVE EndpointsFit'
  <2>1. draft'.scheme = Nothing
    BY <1>4 DEF DiscoverPlans, NoStatus
  <2> QED BY <1>3, <1>4, <2>1 DEF DiscoverPlans, objects, lists, EndpointFits
<1>5. CASE PlanPolicyDiscoveredCondition
  <2>1. draft'.scheme = draft.scheme /\ draft'.endpoint = draft.endpoint
    BY <1>0, <1>5 DEF PlanPolicyDiscoveredCondition, TypeOK, Statuses
  <2> QED BY <1>3, <1>5, <2>1 DEF PlanPolicyDiscoveredCondition, objects, lists, EndpointFits
<1>6. CASE DiscoverAuthPolicy
  <2>1. UNCHANGED <<product, cache, listed>>
    BY <1>6 DEF DiscoverAuthPolicy, objects, lists
  <2> QED BY <1>3, <1>6, <2>1, DiscoverAuthPolicyFits DEF IndInv
<1>7. CASE DiscoverReadiness
  <2>1. draft'.scheme = draft.scheme /\ draft'.endpoint = draft.endpoint
    BY <1>0, <1>7 DEF DiscoverReadiness, TypeOK, Statuses
  <2> QED BY <1>3, <1>7, <2>1 DEF DiscoverReadiness, objects, lists, EndpointFits
<1>8. CASE WriteStatus
  <2>1. CASE UNCHANGED objects
    BY <1>1, <1>8, <2>1 DEF objects, lists, WriteStatus, GiveUp, NoCall
  <2>2. CASE ~UNCHANGED objects
    <3> DEFINE object == [product[current] EXCEPT !.status = draft]
    <3>1. /\ current \in Products
          /\ product[current] \in ProductObjects
          /\ PutProduct(current, object)
          /\ listed' = listed
          /\ draft' = NoStatus
      BY <1>0, <1>8, <2>2, Written DEF WriteStatus, objects, lists, TypeOK
    <3>2. object.status = draft
      BY <3>1 DEF ProductObjects
    <3> QED BY <1>2, <3>1, <3>2
  <2> QED BY <2>1, <2>2
<1>9. ASSUME NEW p \in Products, FinishDeletion(p) PROVE EndpointsFit'
  BY <1>2, <1>9, NewEndpointFits DEF FinishDeletion, lists
<1>10. ASSUME NEW p \in Products, EditProduct(p) PROVE EndpointsFit'
  <2>1. PICK url \in Maybe(URLs) :
          ChangeProduct(p, [product[p] EXCEPT !.generation = @ + 1, !.url = url])
    BY <1>10 DEF EditProduct
  <2>2. product[p] \in ProductObjects
    BY <1>0 DEF TypeOK
  <2>3. [product[p] EXCEPT !.generation = @ + 1, !.url = url].status = product[p].status
    BY <2>2 DEF ProductObjects
  <2> QED BY <1>2, <2>1, <2>3 DEF ChangeProduct, lists
<1>11. ASSUME NEW p \in Products, CreateProduct(p) PROVE EndpointsFit'
  BY <1>2, <1>11, NewEndpointFits DEF CreateProduct, ChangeProduct, lists
<1>12. ASSUME NEW p \in Products, DeleteProduct(p) PROVE EndpointsFit'
  <2>1. product[p] \in ProductObjects
    BY <1>0 DEF TypeOK
  <2>2. [product[p] EXCEPT !.phase = "deleting"].status = product[p].status
    BY <2>1 DEF ProductObjects
  <2> QED BY <1>2, <1>12, <2>2, NewEndpointFits DEF DeleteProduct, ChangeProduct, lists
<1>13. CASE Start \/ ListAuthPolicies \/ ListProducts \/ Return \/ SyncProducts \/ Error
            \/ Restart \/ (\E at \in DOMAIN route : ChangeRoute(at))
            \/ (\E a \in AuthPolicies : ChangeAuthPolicy(a))
            \/ (\E q \in PlanPolicies : ChangePlanPolicy(q))
  BY <1>1, <1>13
     DEF Start, ListAuthPolicies, ListProducts, Return, SyncProducts, Error, Restart, GiveUp,
         NoCall, ChangeRoute, ChangeAuthPolicy, ChangePlanPolicy, objects, lists, call
<1>14. CASE UNCHANGED vars
  BY <1>1, <1>14 DEF vars, objects, lists, call
<1> QED
  BY <1>4, <1>5, <1>6, <1>7, <1>8, <1>9, <1>10, <1>11, <1>12, <1>13, <1>14
     DEF Next, Reconcile, Environment

\* Where no scheme has two issuers, no token endpoint is published for the
\* wrong one: which policies came and went makes no difference.
THEOREM EndpointsBelongToIssuers ==
  ASSUME SingleIssuer
  PROVE  Spec => []TokenEndpointOfIssuer
<1>1. EndpointsFit => TokenEndpointOfIssuer
  BY DEF EndpointsFit, EndpointFits, TokenEndpointOfIssuer
<1>2. IndInv /\ EndpointsFit /\ [Next]_vars => EndpointsFit'
  BY EndpointsFitNext
<1> QED
  BY <1>1, <1>2, EndpointsFitInit, Invariance, PTL DEF Spec

-----------------------------------------------------------------------------
(* What products show at rest *)

Present(list) == {x \in DOMAIN list : list[x] # Nothing}

\* The search finds what it is for.
LEMMA FindEffective ==
  ASSUME NEW list, DOMAIN list \subseteq AuthPolicies \cup PlanPolicies,
         NEW p, NEW policy \in Find(list, p)
  PROVE  /\ policy \in Maybe(Present(list))
         /\ IsEffective(policy, Present(list), TargetRef[p], route[TargetRef[p]])
<1> DEFINE at == TargetRef[p]
           r  == route[at]
<1>0. Nothing \notin Present(list)
  BY NothingAssumption DEF NothingAssumption, Present
<1>1. CASE r = Nothing
  BY <1>1 DEF Find, FindPolicy, IsEffective, Specificity, Maybe
<1>2. CASE r # Nothing
  <2>1. ASSUME NEW x \in Present(list)
        PROVE  TargetsRoute(x, at) <=> Specificity(x, at, r) = 2
    <3>1. Target[x] = [kind      |-> Target[x].kind,
                       namespace |-> Target[x].namespace,
                       name      |-> Target[x].name]
      BY TargetAssumption DEF TargetAssumption, Present
    <3>2. TargetsRoute(x, at) <=>
            Target[x] = [kind |-> "HTTPRoute", namespace |-> at.namespace, name |-> at.name]
      BY <3>1 DEF TargetsRoute
    <3> QED BY <1>2, <3>2 DEF Specificity
  <2>2. ASSUME NEW x \in Present(list), ~TargetsRoute(x, at)
        PROVE  Specificity(x, at, r) = IF TargetsParent(x, at, r.parents) THEN 1 ELSE 0
    <3>1. Target[x] = [kind      |-> Target[x].kind,
                       namespace |-> Target[x].namespace,
                       name      |-> Target[x].name]
      BY TargetAssumption DEF TargetAssumption, Present
    <3>2. \A ref : (Target[x].kind = "Gateway" /\ Target[x].name = ref.name
                      /\ Target[x].namespace = ParentNamespace(ref, at))
                   <=> Target[x] = [kind |-> "Gateway", name |-> ref.name,
                                    namespace |-> IF ref.namespace = Unset THEN at.namespace
                                                                           ELSE ref.namespace]
      BY <3>1 DEF ParentNamespace
    <3>3. TargetsParent(x, at, r.parents) <=>
            \E ref \in r.parents :
              Target[x] = [kind |-> "Gateway", name |-> ref.name,
                           namespace |-> IF ref.namespace = Unset THEN at.namespace
                                                                  ELSE ref.namespace]
      BY <3>2 DEF TargetsParent
    <3>4. Specificity(x, at, r) # 2
      BY <2>1, <2>2
    <3> QED BY <1>2, <3>3, <3>4 DEF Specificity
  <2> DEFINE direct  == {x \in Present(list) : TargetsRoute(x, at)}
             parents == {x \in Present(list) : TargetsParent(x, at, r.parents)}
  <2>3. policy \in IF direct # {} THEN direct ELSE IF parents # {} THEN parents ELSE {Nothing}
    BY <1>2 DEF Find, FindPolicy, Present
  <2>4. CASE direct # {}
    <3>1. policy \in Present(list) /\ Specificity(policy, at, r) = 2
      BY <2>1, <2>3, <2>4
    <3> QED BY <1>0, <3>1 DEF IsEffective, Maybe
  <2>5. CASE direct = {} /\ parents # {}
    <3>1. policy \in Present(list) /\ Specificity(policy, at, r) = 1
      BY <2>2, <2>3, <2>5
    <3>2. \A x \in Present(list) : Specificity(x, at, r) # 2
      BY <2>1, <2>5
    <3> QED BY <1>0, <3>1, <3>2 DEF IsEffective, Maybe
  <2>6. CASE direct = {} /\ parents = {}
    <3>1. policy = Nothing
      BY <2>3, <2>6
    <3>2. \A x \in Present(list) : Specificity(x, at, r) = 0
      BY <2>2, <2>6
    <3> QED BY <3>1, <3>2 DEF IsEffective, Maybe
  <2> QED BY <2>4, <2>5, <2>6
<1> QED BY <1>1, <1>2

\* What a status shows depends on nothing but the routes and policies,
LEMMA ShownKept ==
  ASSUME UNCHANGED policies
  PROVE  \A s, at : /\ PlansShown(s, at)' <=> PlansShown(s, at)
                    /\ PlanPolicyNamed(s, at)' <=> PlanPolicyNamed(s, at)
                    /\ SchemeShown(s, at)' <=> SchemeShown(s, at)
                    /\ IssuerShown(s)' <=> IssuerShown(s)
                    /\ ReadyCondition(route[at])' = ReadyCondition(route[at])
<1>1. UNCHANGED <<route, authPolicy, planPolicy>>
  BY DEF policies
<1>2. PresentPlanPolicies' = PresentPlanPolicies /\ PresentAuthPolicies' = PresentAuthPolicies
  BY <1>1 DEF PresentPlanPolicies, PresentAuthPolicies
<1>3. \A s, at : PlansShown(s, at)' <=> PlansShown(s, at)
  BY <1>1, <1>2 DEF PlansShown
<1>4. \A s, at : PlanPolicyNamed(s, at)' <=> PlanPolicyNamed(s, at)
  BY <1>1, <1>2 DEF PlanPolicyNamed
<1>5. \A s, at : SchemeShown(s, at)' <=> SchemeShown(s, at)
  BY <1>1, <1>2 DEF SchemeShown
<1>6. \A s : IssuerShown(s)' <=> IssuerShown(s)
  BY DEF IssuerShown
<1>7. \A at : ReadyCondition(route[at])' = ReadyCondition(route[at])
  BY <1>1 DEF ReadyCondition
<1> QED BY <1>3, <1>4, <1>5, <1>6, <1>7

LEMMA SettledKept ==
  ASSUME UNCHANGED policies, UNCHANGED limit, NEW p \in Products, product'[p] = product[p]
  PROVE  Settled(p)' <=> Settled(p)
<1>1. \A object : Answered(object)' <=> Answered(object)
  BY DEF Answered
<1>2. \A s, at : StatusShows(s, at)' <=> StatusShows(s, at)
  BY ShownKept DEF StatusShows
<1> QED BY <1>1, <1>2 DEF Settled

\* and each part on the fields it is computed from.
LEMMA ShownParts ==
  ASSUME NEW s, NEW t, NEW at
  PROVE  /\ s.plans = t.plans => (PlansShown(s, at) <=> PlansShown(t, at))
         /\ s.planCond = t.planCond => (PlanPolicyNamed(s, at) <=> PlanPolicyNamed(t, at))
         /\ s.scheme = t.scheme /\ s.authCond = t.authCond =>
              (SchemeShown(s, at) <=> SchemeShown(t, at))
         /\ s.scheme = t.scheme /\ s.oidcCond = t.oidcCond /\ s.endpoint = t.endpoint =>
              (IssuerShown(s) <=> IssuerShown(t))
<1>1. s.plans = t.plans => (PlansShown(s, at) <=> PlansShown(t, at))
  BY DEF PlansShown
<1>2. s.planCond = t.planCond => (PlanPolicyNamed(s, at) <=> PlanPolicyNamed(t, at))
  BY DEF PlanPolicyNamed
<1>3. s.scheme = t.scheme /\ s.authCond = t.authCond => (SchemeShown(s, at) <=> SchemeShown(t, at))
  BY DEF SchemeShown
<1>4. s.scheme = t.scheme /\ s.oidcCond = t.oidcCond /\ s.endpoint = t.endpoint =>
        (IssuerShown(s) <=> IssuerShown(t))
  BY DEF IssuerShown
<1> QED BY <1>1, <1>2, <1>3, <1>4

\* What the steps of a call compute shows what they were computed from.
LEMMA DiscoverPlansShows ==
  ASSUME TypeInv, NEW p \in Products, DiscoverPlans(p), planList = planPolicy
  PROVE  PlansShown(draft', TargetRef[p])
<1>1. PICK q \in Find(planList, p) :
        draft' = [NoStatus EXCEPT !.observed = listed[p].generation,
                                  !.plans = PlanPolicyIntoPlans(q)]
  BY DEF DiscoverPlans
<1>2. draft'.plans = PlanPolicyIntoPlans(q)
  BY <1>1 DEF NoStatus
<1>3. DOMAIN planList = PlanPolicies /\ Present(planList) = PresentPlanPolicies
  BY DEF TypeInv, TypeOK, Present, PresentPlanPolicies
<1>4. /\ q \in Maybe(PresentPlanPolicies)
      /\ IsEffective(q, PresentPlanPolicies, TargetRef[p], route[TargetRef[p]])
  BY <1>3, FindEffective
<1> QED BY <1>2, <1>4 DEF PlansShown, PlanPolicyIntoPlans

LEMMA PlanConditionShows ==
  ASSUME TypeInv, PlanPolicyDiscoveredCondition, planList = planPolicy
  PROVE  PlanPolicyNamed(draft', TargetRef[current])
<1>1. PICK q \in Find(planList, current) : draft' = [draft EXCEPT !.planCond = q]
  BY DEF PlanPolicyDiscoveredCondition
<1>2. draft'.planCond = q
  BY <1>1 DEF TypeInv, TypeOK, Statuses
<1>3. DOMAIN planList = PlanPolicies /\ Present(planList) = PresentPlanPolicies
  BY DEF TypeInv, TypeOK, Present, PresentPlanPolicies
<1> QED BY <1>2, <1>3, FindEffective DEF PlanPolicyNamed

LEMMA DiscoverAuthPolicyShows ==
  ASSUME TypeInv, DiscoverAuthPolicy, authList = authPolicy
  PROVE  SchemeShown(draft', TargetRef[current]) /\ IssuerShown(draft')
<1> DEFINE old == listed[current].status
           at == TargetRef[current]
<1>0. draft \in Statuses /\ authPolicy \in [AuthPolicies -> Maybe(AuthStates)]
  BY DEF TypeInv, TypeOK
<1>1. PICK a \in Find(authList, current) :
        \E issuer, named \in ExtractIssuerURL(PublishedScheme(a)),
           existing \in ExtractIssuerURL(old.scheme) :
        \E result \in OIDCDiscoveryStatus(old, issuer, existing) :
           draft' = [draft EXCEPT
                      !.scheme = PublishedScheme(a),
                      !.authCond = AuthPolicyDiscoveredCondition(a),
                      !.endpoint = result.endpoint,
                      !.oidcCond = OIDCDiscoveredCondition(named, result.error)]
  BY DEF DiscoverAuthPolicy
<1>2. PICK issuer \in ExtractIssuerURL(PublishedScheme(a)),
           named \in ExtractIssuerURL(PublishedScheme(a)),
           existing \in ExtractIssuerURL(old.scheme) :
        \E result \in OIDCDiscoveryStatus(old, issuer, existing) :
           draft' = [draft EXCEPT
                      !.scheme = PublishedScheme(a),
                      !.authCond = AuthPolicyDiscoveredCondition(a),
                      !.endpoint = result.endpoint,
                      !.oidcCond = OIDCDiscoveredCondition(named, result.error)]
  BY <1>1
<1>3. PICK result \in OIDCDiscoveryStatus(old, issuer, existing) :
           draft' = [draft EXCEPT
                      !.scheme = PublishedScheme(a),
                      !.authCond = AuthPolicyDiscoveredCondition(a),
                      !.endpoint = result.endpoint,
                      !.oidcCond = OIDCDiscoveredCondition(named, result.error)]
  BY <1>2
<1> DEFINE scheme == PublishedScheme(a)
<1>4. /\ draft'.scheme = scheme
      /\ draft'.authCond = AuthPolicyDiscoveredCondition(a)
      /\ draft'.endpoint = result.endpoint
      /\ draft'.oidcCond = OIDCDiscoveredCondition(named, result.error)
  BY <1>0, <1>3 DEF Statuses
<1>5. SchemeShown(draft', at)
  <2>1. DOMAIN authList = AuthPolicies /\ Present(authList) = PresentAuthPolicies
    BY <1>0 DEF Present, PresentAuthPolicies
  <2>2. /\ a \in Maybe(PresentAuthPolicies)
        /\ IsEffective(a, PresentAuthPolicies, at, route[at])
    BY <2>1, FindEffective
  <2> DEFINE reason == IF a = Nothing THEN "NotFound"
                       ELSE IF IsAcceptedAndEnforced(authPolicy[a]) THEN "Found"
                       ELSE "AuthPolicyNotReady"
  <2>3. /\ AuthPolicyDiscoveredCondition(a).reason = reason
        /\ AuthPolicyDiscoveredCondition(a).policy = IF reason = "Found" THEN a ELSE Nothing
        /\ scheme = IF reason = "Found" THEN authPolicy[a].scheme ELSE Nothing
    BY DEF AuthPolicyDiscoveredCondition, PublishedScheme
  <2> QED BY <1>4, <2>2, <2>3 DEF SchemeShown
<1>6. IssuerShown(draft')
  <2>1. scheme \in Maybe(Schemes)
    <3>1. a # Nothing => authList[a] \in AuthStates
      BY <1>0, FoundPolicy DEF Maybe
    <3> QED BY <3>1, SchemeOfPolicy DEF PublishedScheme, Maybe
  <2>2. CASE scheme = Nothing \/ scheme.issuers = {}
    <3>1. named = Nothing
      BY <2>2 DEF ExtractIssuerURL
    <3>2. draft'.oidcCond.reason = "NoOIDCAuth"
      BY <1>4, <3>1 DEF OIDCDiscoveredCondition
    <3> QED BY <1>4, <2>2, <3>2 DEF IssuerShown
  <2>3. CASE ~(scheme = Nothing \/ scheme.issuers = {})
    <3>1. /\ named # Nothing /\ named \in scheme.issuers
          /\ issuer # Nothing
      BY <2>1, <2>3, ExtractedIssuer
    <3>2. \/ result.endpoint = Nothing /\ result.error # Nothing
          \/ result.endpoint # Nothing /\ result.error = Nothing
      <4>1. CASE old.endpoint # Nothing /\ existing = issuer
        BY <3>1, <4>1 DEF OIDCDiscoveryStatus, FetchDiscovery
      <4>2. CASE ~(old.endpoint # Nothing /\ existing = issuer)
        BY <3>1, <4>2, NothingAssumption
           DEF OIDCDiscoveryStatus, FetchDiscovery, NothingAssumption
      <4> QED BY <4>1, <4>2
    <3>3. /\ draft'.oidcCond.issuer = named
          /\ draft'.oidcCond.reason = IF result.endpoint = Nothing THEN "DiscoveryFailed"
                                      ELSE "Discovered"
      BY <1>4, <3>1, <3>2 DEF OIDCDiscoveredCondition
    <3> QED BY <1>4, <2>3, <3>1, <3>3 DEF IssuerShown
  <2> QED BY <2>2, <2>3
<1> QED BY <1>5, <1>6

\* A status that was computed is what its product shows, if it is the one that
\* is published already and no change of the product is on its way.
LEMMA UpToDateSettles ==
  ASSUME IndInv, QuietInv, ~queued, pc = "write", UpToDate, current \notin stale
  PROVE  Settled(current)
<1>1. current \in Products /\ listed[current] = product[current]
  BY DEF IndInv, TypeInv, CurrentListed, Handling, InLoop, CopiesFresh, QuietInv, ListsCurrent
<1>2. draft = product[current].status /\ product[current] \in ProductObjects
  BY <1>1 DEF UpToDate, IndInv, TypeInv, TypeOK
<1>3. Answered([product[current] EXCEPT !.status = draft])
  BY <1>1 DEF IndInv, DraftAnswers
<1>4. [product[current] EXCEPT !.status = draft] = product[current]
  BY <1>2 DEF ProductObjects
<1>5. StatusShows(draft, TargetRef[current])
  BY DEF QuietInv, DraftShows, StatusShows, Handling
<1> QED BY <1>2, <1>3, <1>4, <1>5 DEF Settled

\* A step that does not queue the controller leaves the lists of the call current,
LEMMA ListsCurrentNext == IndInv /\ QuietInv /\ [Next]_vars /\ ~queued' => ListsCurrent'
<1> SUFFICES ASSUME IndInv, QuietInv, [Next]_vars, ~queued' PROVE ListsCurrent'
  OBVIOUS
<1> USE DEF QuietInv, ListsCurrent
<1>1. CASE Start
  BY <1>1 DEF Start, policies, InLoop, Handling
<1>2. CASE ListAuthPolicies
  BY <1>2 DEF ListAuthPolicies, policies, InLoop, Handling
<1>3. CASE ListProducts
  BY <1>3 DEF ListProducts, policies, objects, InLoop, Handling
<1>4. CASE PlanPolicyDiscoveredCondition \/ DiscoverAuthPolicy \/ DiscoverReadiness
           \/ \E p \in Products : DiscoverPlans(p)
  BY <1>4 DEF PlanPolicyDiscoveredCondition, DiscoverAuthPolicy, DiscoverReadiness, DiscoverPlans,
              policies, objects, lists, InLoop, Handling
<1>5. CASE WriteStatus
  BY <1>5 DEF WriteStatus, PutProduct, GiveUp, policies, objects, lists, InLoop, Handling
<1>6. CASE Return
  BY <1>6 DEF Return, NoCall, InLoop, Handling
<1>7. CASE (\E p \in Products : FinishDeletion(p))
           \/ (\E p \in Products : EditProduct(p) \/ CreateProduct(p) \/ DeleteProduct(p))
  BY <1>7 DEF FinishDeletion, EditProduct, CreateProduct, DeleteProduct, ChangeProduct, PutProduct,
              policies, lists
<1>8. CASE SyncProducts \/ Error \/ Restart
           \/ (\E at \in DOMAIN route : ChangeRoute(at))
           \/ (\E a \in AuthPolicies : ChangeAuthPolicy(a))
           \/ (\E q \in PlanPolicies : ChangePlanPolicy(q))
  BY <1>8 DEF SyncProducts, Error, Restart, GiveUp, ChangeRoute, ChangeAuthPolicy, ChangePlanPolicy
<1>9. CASE UNCHANGED vars
  BY <1>9 DEF vars, policies, objects, lists, call
<1> QED
  BY <1>1, <1>2, <1>3, <1>4, <1>5, <1>6, <1>7, <1>8, <1>9 DEF Next, Reconcile, Environment

\* what it has computed true,
LEMMA DraftShowsNext == IndInv /\ QuietInv /\ [Next]_vars /\ ~queued' => DraftShows'
<1> SUFFICES ASSUME IndInv, QuietInv, [Next]_vars, ~queued' PROVE DraftShows'
  OBVIOUS
<1>0. TypeInv /\ TypeOK
  BY DEF IndInv, TypeInv
<1>1. CASE pc' \notin Handling
  BY <1>1 DEF DraftShows, Handling
<1>2. CASE UNCHANGED <<pc, current, draft, queued>> /\ UNCHANGED policies
  BY <1>2, ShownKept DEF QuietInv, DraftShows
<1>3. ASSUME NEW p \in Products, DiscoverPlans(p) PROVE DraftShows'
  <2>1. /\ pc' = "planCondition" /\ current' = p /\ UNCHANGED policies
        /\ planList = planPolicy
    BY <1>3 DEF DiscoverPlans, QuietInv, ListsCurrent
  <2>2. PlansShown(draft', TargetRef[p])
    BY <1>0, <1>3, <2>1, DiscoverPlansShows
  <2>3. PlansShown(draft, TargetRef[current])'
    BY <2>1, <2>2, ShownKept
  <2> QED BY <2>1, <2>3 DEF DraftShows, Handling
<1>4. CASE PlanPolicyDiscoveredCondition
  <2> DEFINE at == TargetRef[current]
  <2>1. /\ pc = "planCondition" /\ pc' = "authPolicy" /\ current' = current
        /\ UNCHANGED policies /\ planList = planPolicy /\ PlansShown(draft, at)
    BY <1>4 DEF PlanPolicyDiscoveredCondition, QuietInv, ListsCurrent, DraftShows, Handling
  <2>2. draft'.plans = draft.plans
    BY <1>0, <1>4 DEF PlanPolicyDiscoveredCondition, TypeOK, Statuses
  <2>3. PlansShown(draft', at) /\ PlanPolicyNamed(draft', at)
    BY <1>0, <1>4, <2>1, <2>2, ShownParts, PlanConditionShows
  <2>4. PlansShown(draft, at)' /\ PlanPolicyNamed(draft, at)'
    BY <2>1, <2>3, ShownKept
  <2> QED BY <2>1, <2>4 DEF DraftShows, Handling
<1>5. CASE DiscoverAuthPolicy
  <2> DEFINE at == TargetRef[current]
  <2>1. /\ pc = "authPolicy" /\ pc' = "ready" /\ current' = current
        /\ UNCHANGED policies /\ authList = authPolicy
        /\ PlansShown(draft, at) /\ PlanPolicyNamed(draft, at)
    BY <1>5 DEF DiscoverAuthPolicy, QuietInv, ListsCurrent, DraftShows, Handling
  <2>2. draft'.plans = draft.plans /\ draft'.planCond = draft.planCond
    BY <1>0, <1>5 DEF DiscoverAuthPolicy, TypeOK, Statuses
  <2>3. PlansShown(draft', at) /\ PlanPolicyNamed(draft', at)
    BY <2>1, <2>2, ShownParts
  <2>4. SchemeShown(draft', at) /\ IssuerShown(draft')
    BY <1>0, <1>5, <2>1, DiscoverAuthPolicyShows
  <2>5. /\ PlansShown(draft, at)' /\ PlanPolicyNamed(draft, at)'
        /\ SchemeShown(draft, at)' /\ IssuerShown(draft)'
    BY <2>1, <2>3, <2>4, ShownKept
  <2> QED BY <2>1, <2>5 DEF DraftShows, Handling
<1>6. CASE DiscoverReadiness
  <2> DEFINE at == TargetRef[current]
  <2>1. /\ pc = "ready" /\ pc' = "write" /\ current' = current /\ UNCHANGED policies
        /\ PlansShown(draft, at) /\ PlanPolicyNamed(draft, at)
        /\ SchemeShown(draft, at) /\ IssuerShown(draft)
    BY <1>6 DEF DiscoverReadiness, QuietInv, DraftShows, Handling
  <2>2. /\ draft'.plans = draft.plans /\ draft'.planCond = draft.planCond
        /\ draft'.scheme = draft.scheme /\ draft'.authCond = draft.authCond
        /\ draft'.endpoint = draft.endpoint /\ draft'.oidcCond = draft.oidcCond
        /\ draft'.readyCond = ReadyCondition(route[at])
    BY <1>0, <1>6 DEF DiscoverReadiness, TypeOK, Statuses
  <2>3. /\ PlansShown(draft', at) /\ PlanPolicyNamed(draft', at)
        /\ SchemeShown(draft', at) /\ IssuerShown(draft')
    BY <2>1, <2>2, ShownParts
  <2>4. /\ PlansShown(draft, at)' /\ PlanPolicyNamed(draft, at)'
        /\ SchemeShown(draft, at)' /\ IssuerShown(draft)'
        /\ draft'.readyCond = ReadyCondition(route[at])'
    BY <2>1, <2>2, <2>3, ShownKept
  <2> QED BY <2>1, <2>4 DEF DraftShows, Handling
<1>7. CASE Start \/ ListAuthPolicies \/ ListProducts \/ WriteStatus \/ Return
  BY <1>1, <1>7 DEF Start, ListAuthPolicies, ListProducts, WriteStatus, Return, GiveUp, NoCall,
                    Handling
<1>8. CASE (\E p \in Products : FinishDeletion(p))
           \/ (\E p \in Products : EditProduct(p) \/ CreateProduct(p) \/ DeleteProduct(p))
  BY <1>2, <1>8 DEF FinishDeletion, EditProduct, CreateProduct, DeleteProduct, ChangeProduct
<1>9. CASE SyncProducts \/ Error \/ Restart
           \/ (\E at \in DOMAIN route : ChangeRoute(at))
           \/ (\E a \in AuthPolicies : ChangeAuthPolicy(a))
           \/ (\E q \in PlanPolicies : ChangePlanPolicy(q))
  BY <1>9 DEF SyncProducts, Error, Restart, GiveUp, ChangeRoute, ChangeAuthPolicy, ChangePlanPolicy
<1>10. CASE UNCHANGED vars
  BY <1>2, <1>10 DEF vars, call
<1> QED
  BY <1>3, <1>4, <1>5, <1>6, <1>7, <1>8, <1>9, <1>10 DEF Next, Reconcile, Environment

\* and no product forgotten.
LEMMA WorkNext ==
  ASSUME IndInv, QuietInv, [Next]_vars, ~queued', NEW p \in Products
  PROVE  WorkLeft(p)' \/ Settled(p)'
<1>0. TypeOK
  BY DEF IndInv, TypeInv
<1>1. ASSUME WorkLeft(p) => WorkLeft(p)', UNCHANGED <<queued, product, limit>>, UNCHANGED policies
      PROVE  WorkLeft(p)' \/ Settled(p)'
  BY <1>1, SettledKept DEF QuietInv
<1>2. ASSUME NEW q \in Products, NEW object, PutProduct(q, object),
             UNCHANGED <<queued, limit>>, UNCHANGED policies,
             p # q /\ WorkLeft(p) => WorkLeft(p)'
      PROVE  WorkLeft(p)' \/ Settled(p)'
  <2>1. CASE p = q
    BY <1>0, <1>2, <2>1 DEF PutProduct, WorkLeft, TypeOK
  <2>2. CASE p # q
    <3>1. product'[p] = product[p]
      BY <1>0, <1>2, <2>2 DEF PutProduct, TypeOK
    <3> QED BY <1>2, <2>2, <3>1, SettledKept DEF QuietInv
  <2> QED BY <2>1, <2>2
<1>3. CASE Start
  BY <1>3 DEF Start, WorkLeft
<1>4. CASE ListAuthPolicies
  BY <1>4 DEF ListAuthPolicies, WorkLeft
<1>5. CASE ListProducts
  <2>1. CASE cache[p].phase = "live"
    BY <1>5, <2>1 DEF ListProducts, WorkLeft, InLoop
  <2>2. CASE cache[p].phase # "live"
    BY <1>5, <2>2 DEF ListProducts, WorkLeft, Settled, IndInv, CopiesFresh, objects
  <2> QED BY <2>1, <2>2
<1>6. ASSUME NEW q \in Products, DiscoverPlans(q) PROVE WorkLeft(p)' \/ Settled(p)'
  <2>1. WorkLeft(p) => WorkLeft(p)'
    BY <1>6 DEF DiscoverPlans, WorkLeft, InLoop, Handling, objects
  <2> QED BY <1>1, <1>6, <2>1 DEF DiscoverPlans, objects
<1>7. CASE PlanPolicyDiscoveredCondition \/ DiscoverAuthPolicy \/ DiscoverReadiness
  <2>1. WorkLeft(p) => WorkLeft(p)'
    BY <1>7 DEF PlanPolicyDiscoveredCondition, DiscoverAuthPolicy, DiscoverReadiness, WorkLeft,
                InLoop, Handling, objects
  <2> QED
    BY <1>1, <1>7, <2>1
       DEF PlanPolicyDiscoveredCondition, DiscoverAuthPolicy, DiscoverReadiness, objects
<1>8. CASE WriteStatus
  <2>1. p # current /\ WorkLeft(p) => WorkLeft(p)'
    BY <1>8 DEF WriteStatus, GiveUp, PutProduct, WorkLeft, InLoop, Handling, objects
  <2>2. CASE UNCHANGED objects /\ UNCHANGED queued /\ UpToDate
    <3>1. CASE p = current /\ p \notin stale
      <4>1. Settled(p)
        BY <1>8, <2>2, <3>1, UpToDateSettles DEF WriteStatus
      <4> QED BY <1>8, <2>2, <4>1, SettledKept DEF WriteStatus, objects
    <3>2. CASE p = current /\ p \in stale
      BY <2>2, <3>2 DEF WorkLeft, objects
    <3>3. CASE p # current
      BY <1>1, <1>8, <2>1, <2>2, <3>3 DEF WriteStatus, objects
    <3> QED BY <3>1, <3>2, <3>3
  <2>3. CASE PutProduct(current, [product[current] EXCEPT !.status = draft]) /\ UNCHANGED queued
    <3>1. PICK q \in Products : q = current
      BY <1>8 DEF WriteStatus, IndInv, TypeInv, CurrentListed, Handling
    <3>2. /\ PutProduct(q, [product[q] EXCEPT !.status = draft])
          /\ UNCHANGED <<queued, limit>> /\ UNCHANGED policies
      BY <1>8, <2>3, <3>1 DEF WriteStatus
    <3> QED BY <1>2, <2>1, <3>1, <3>2
  <2> QED BY <1>8, <2>2, <2>3 DEF WriteStatus, GiveUp
<1>9. CASE Return
  <2>1. WorkLeft(p) => WorkLeft(p)'
    BY <1>9 DEF Return, WorkLeft, Handling, objects
  <2> QED BY <1>1, <1>9, <2>1 DEF Return, objects
<1>10. ASSUME NEW q \in Products, NEW object, ChangeProduct(q, object)
       PROVE  WorkLeft(p)' \/ Settled(p)'
  <2>1. WorkLeft(p) => WorkLeft(p)'
    BY <1>10 DEF ChangeProduct, PutProduct, WorkLeft
  <2> QED BY <1>2, <1>10, <2>1 DEF ChangeProduct
<1>11. ASSUME NEW q \in Products, FinishDeletion(q) PROVE WorkLeft(p)' \/ Settled(p)'
  <2>1. WorkLeft(p) => WorkLeft(p)'
    BY <1>11 DEF FinishDeletion, PutProduct, WorkLeft
  <2> QED BY <1>2, <1>11, <2>1 DEF FinishDeletion
<1>12. ASSUME NEW q \in Products, EditProduct(q) \/ CreateProduct(q) \/ DeleteProduct(q)
       PROVE  WorkLeft(p)' \/ Settled(p)'
  BY <1>10, <1>12 DEF EditProduct, CreateProduct, DeleteProduct
<1>13. CASE SyncProducts \/ Error \/ Restart
            \/ (\E at \in DOMAIN route : ChangeRoute(at))
            \/ (\E a \in AuthPolicies : ChangeAuthPolicy(a))
            \/ (\E q \in PlanPolicies : ChangePlanPolicy(q))
  BY <1>13 DEF SyncProducts, Error, Restart, GiveUp, ChangeRoute, ChangeAuthPolicy, ChangePlanPolicy
<1>14. CASE UNCHANGED vars
  <2>1. WorkLeft(p) => WorkLeft(p)'
    BY <1>14 DEF vars, objects, call, WorkLeft
  <2> QED BY <1>1, <1>14, <2>1 DEF vars, objects
<1> QED
  BY <1>3, <1>4, <1>5, <1>6, <1>7, <1>8, <1>9, <1>11, <1>12, <1>13, <1>14
     DEF Next, Reconcile, Environment

LEMMA QuietInvariance == Spec => []QuietInv
<1>1. Init => QuietInv
  BY DEF Init, QuietInv
<1>2. IndInv /\ QuietInv /\ [Next]_vars => QuietInv'
  BY ListsCurrentNext, DraftShowsNext, WorkNext DEF QuietInv
<1> QED BY <1>1, <1>2, Invariance, PTL DEF Spec

LEMMA SettledAtRest ==
  ASSUME QuietInv, AtRest, NEW p \in Products
  PROVE  Settled(p)
BY DEF QuietInv, AtRest, WorkLeft, InLoop, Handling

\* At rest every live product shows the policies that apply to its route and
\* the route itself as they are, however they changed during earlier calls.
THEOREM StatusShowsPoliciesAtRest == Spec => []StatusShowsPolicies
<1>1. QuietInv => StatusShowsPolicies
  BY SettledAtRest DEF StatusShowsPolicies, Settled, StatusShows
<1> QED BY <1>1, QuietInvariance, PTL

\* At rest every live product is answered for its present spec, and for the
\* limit the running manager was started with.
THEOREM DocumentsAnsweredAtRest == Spec => []DocumentIsCurrent
<1>1. QuietInv => DocumentIsCurrent
  BY SettledAtRest DEF DocumentIsCurrent, Settled
<1> QED BY <1>1, QuietInvariance, PTL
=============================================================================
