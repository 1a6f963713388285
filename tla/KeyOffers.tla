----------------------------- MODULE KeyOffers -----------------------------
(***************************************************************************)
(* What an APIKey shows of its product: the API key method of the          *)
(* authentication scheme, the limits of its plan and the host name of the  *)
(* route (status.authScheme, limits and apiHostname, written by            *)
(* internal/controller/apikey_status_controller.go).                       *)
(*                                                                         *)
(* The apikey-status controller beside the apiproduct controller, whose    *)
(* status it reads.  The two share the manager's informers and nothing     *)
(* else: what one publishes reaches the other as an event.  For each key   *)
(* the product is read three times and its route once, and both            *)
(* controllers, informers and owners act in between.  (The conditions of   *)
(* keys, which the same calls compute, are in ApprovalWorkflow.)           *)
(***************************************************************************)
EXTENDS APIProductStatus

CONSTANTS
  Keys,       \* names of APIKeys,
  KeyProduct, \*   the product each of them is for
  KeyTier     \*   and the plan it asks for

ASSUME KeysAssumption == KeyProduct \in [Keys -> Products]

VARIABLES
  offer,       \* these fields of the keys in the API server,
  offerCache,  \*   and as the informer holds them
  keyQueued,   \* the work queue of apikey-status holds its one request
  keyPc,       \* where its call is
  keyListed,   \* what it listed
  keyTodo,     \* the keys it has not handled yet
  keyCurrent,  \* the key it handles
  keyDraft     \* and what it has computed for it

keyCall == <<keyPc, keyListed, keyTodo, keyCurrent, keyDraft>>
keyVars == <<offer, offerCache, keyQueued, keyCall>>

NoOffer == [auth |-> Nothing, limits |-> Nothing, host |-> Nothing]

NoKeyCall ==
  /\ keyPc' = "idle"
  /\ keyListed' = [k \in Keys |-> NoOffer]
  /\ keyTodo' = {}
  /\ keyCurrent' = Nothing
  /\ keyDraft' = NoOffer

InitOffers ==
  /\ offer = [k \in Keys |-> NoOffer]
  /\ offerCache = offer
  /\ keyQueued = TRUE
  /\ keyPc = "idle"
  /\ keyListed = offer
  /\ keyTodo = {}
  /\ keyCurrent = Nothing
  /\ keyDraft = NoOffer

-----------------------------------------------------------------------------
StartOffers ==
  /\ keyPc = "idle"
  /\ keyQueued
  /\ keyQueued' = FALSE
  /\ keyPc' = "loop"
  /\ keyListed' = offerCache
  /\ keyTodo' = Keys
  /\ UNCHANGED <<offer, offerCache, keyCurrent, keyDraft>>

\* A mutant: whichever method of the map comes first is taken for an API key.
MutAPIKeyMethods(scheme) ==
  IF scheme = Nothing THEN {Nothing}
  ELSE scheme.apiKeys \cup {Nothing : issuer \in scheme.issuers}

\* The first API key method of a map: in no particular order.
APIKeyMethods(scheme) ==
  IF scheme = Nothing THEN {Nothing}
  ELSE IF scheme.apiKeys = {} THEN {Nothing}
  ELSE scheme.apiKeys

\* The status of a product that is gone is that of one without any.
GetAPIProduct(k) == cache[KeyProduct[k]]

CalculateAuthScheme(k) ==
  /\ keyPc = "loop"
  /\ k \in keyTodo
  /\ keyPc' = "limits"
  /\ keyCurrent' = k
  /\ keyTodo' = keyTodo \ {k}
  /\ \E auth \in APIKeyMethods(GetAPIProduct(k).status.scheme) :
       keyDraft' = [NoOffer EXCEPT !.auth = auth]
  /\ UNCHANGED <<offer, offerCache, keyQueued, keyListed>>

PlanLimits(plans, tier) ==
  IF plans = Nothing THEN Nothing
  ELSE IF tier \in DOMAIN plans THEN plans[tier] ELSE Nothing

CalculatePlanLimits ==
  /\ keyPc = "limits"
  /\ keyPc' = "host"
  /\ keyDraft' = [keyDraft EXCEPT
       !.limits = PlanLimits(GetAPIProduct(keyCurrent).status.plans, KeyTier[keyCurrent])]
  /\ UNCHANGED <<offer, offerCache, keyQueued, keyListed, keyTodo, keyCurrent>>

HostName(k) ==
  LET r == route[TargetRef[KeyProduct[k]]]
  IN  IF GetAPIProduct(k).phase = "absent" \/ r = Nothing THEN Nothing ELSE r.host

APIHostName ==
  /\ keyPc = "host"
  /\ keyPc' = "write"
  /\ keyDraft' = [keyDraft EXCEPT !.host = HostName(keyCurrent)]
  /\ UNCHANGED <<offer, offerCache, keyQueued, keyListed, keyTodo, keyCurrent>>

\* Nobody else writes these fields, so that the API server refuses an update
\* exactly if the controller has not seen its own last one.
WriteOffer ==
  /\ keyPc = "write"
  /\ LET listedOffer == keyListed[keyCurrent]
         DoneWithKey == /\ keyPc' = "loop"
                        /\ keyCurrent' = Nothing
                        /\ keyDraft' = NoOffer
                        /\ UNCHANGED <<keyQueued, keyListed, keyTodo>>
     IN  \/ /\ keyDraft = listedOffer
            /\ DoneWithKey
            /\ UNCHANGED offer
         \/ /\ keyDraft # listedOffer
            /\ listedOffer = offer[keyCurrent]
            /\ offer' = [offer EXCEPT ![keyCurrent] = keyDraft]
            /\ DoneWithKey
         \/ /\ keyDraft # listedOffer
            /\ listedOffer # offer[keyCurrent]
            /\ NoKeyCall
            /\ keyQueued' = TRUE
            /\ UNCHANGED offer
  /\ UNCHANGED offerCache

ReturnOffers ==
  /\ keyPc = "loop"
  /\ keyTodo = {}
  /\ NoKeyCall
  /\ UNCHANGED <<offer, offerCache, keyQueued>>

ReconcileOffers ==
  /\ \/ StartOffers
     \/ \E k \in Keys : CalculateAuthScheme(k)
     \/ CalculatePlanLimits
     \/ APIHostName
     \/ WriteOffer
     \/ ReturnOffers
  /\ UNCHANGED vars

\* The informer of keys catches up.
SyncOffers ==
  /\ offerCache # offer
  /\ offerCache' = offer
  /\ keyQueued' = TRUE
  /\ UNCHANGED <<offer, keyCall, vars>>

-----------------------------------------------------------------------------
\* A mutant: routes are not watched.
MutWatched == cache' # cache

\* Events of the products and routes it watches start apikey-status.
Watched == cache' # cache \/ route' # route

OthersStep ==
  /\ Reconcile \/ SyncProducts \/ Environment
  /\ keyQueued' = (keyQueued \/ Watched)
  /\ UNCHANGED <<offer, offerCache, keyCall>>

\* One process runs both controllers.
RestartManager ==
  /\ Restart
  /\ NoKeyCall
  /\ offerCache' = offer
  /\ keyQueued' = TRUE
  /\ UNCHANGED offer

ComposedNext == OthersStep \/ RestartManager \/ ReconcileOffers \/ SyncOffers

ComposedFairness ==
  /\ WF_vars(Reconcile)
  /\ WF_vars(SyncProducts)
  /\ WF_keyVars(ReconcileOffers)
  /\ WF_keyVars(SyncOffers)

ComposedSpec ==
  Init /\ InitOffers /\ [][ComposedNext]_<<vars, keyVars>> /\ ComposedFairness

-----------------------------------------------------------------------------
AllAtRest == AtRest /\ keyPc = "idle" /\ ~keyQueued /\ offerCache = offer

\* Through two controllers and two statuses: when both have come to rest, the
\* key of a live product shows the API key method of the most specific
\* AuthPolicy that is ready, the limits that its tier has in the most specific
\* PlanPolicy, and the host name of the route; the key of a deleted one, nothing.
OffersReachKeys ==
  AllAtRest => \A k \in Keys :
    LET p  == KeyProduct[k]
        at == TargetRef[p]
    IN  /\ product[p].phase = "absent" => offer[k] = NoOffer
        /\ product[p].phase = "live" =>
             /\ \E a \in Maybe(PresentAuthPolicies) :
                  /\ IsEffective(a, PresentAuthPolicies, at, route[at])
                  /\ offer[k].auth \in
                       APIKeyMethods(
                         IF a = Nothing THEN Nothing
                         ELSE IF IsAcceptedAndEnforced(authPolicy[a]) THEN authPolicy[a].scheme
                         ELSE Nothing)
             /\ \E q \in Maybe(PresentPlanPolicies) :
                  /\ IsEffective(q, PresentPlanPolicies, at, route[at])
                  /\ offer[k].limits =
                       PlanLimits(IF q = Nothing THEN Nothing ELSE planPolicy[q], KeyTier[k])
             /\ offer[k].host = IF route[at] = Nothing THEN Nothing ELSE route[at].host

\* Left alone both controllers come to rest, but for errors of an issuer that say
\* something new again and again: apikey-status is started by each of them.
ControllersComeToRest == []<><<ErrorReworded>>_<<vars, keyVars>> \/ <>[]AllAtRest
=============================================================================
