-------------------------- MODULE KeyOffersProofs --------------------------
(***************************************************************************)
(* Theorems about KeyOffers, for every set of keys and products.           *)
(*                                                                         *)
(* A behaviour of the two controllers is one of the apiproduct controller  *)
(* alone, whatever apikey-status does beside it, so that what is proved of *)
(* that one (APIProductStatusProofs) holds here.  The rest is an           *)
(* invariant of apikey-status relative to what the informers hold: as long *)
(* as nothing has queued it again, a key it has no work left for shows     *)
(* what they hold.  At rest they hold what there is.                       *)
(***************************************************************************)
EXTENDS KeyOffers, APIProductStatusProofs

\* Where a call handles a key.
HandlingKey == {"limits", "host", "write"}

IsOffer(o) == o = [auth |-> o.auth, limits |-> o.limits, host |-> o.host]

OffersOfKeys(offers) ==
  /\ offers = [k \in Keys |-> offers[k]]
  /\ \A k \in Keys : IsOffer(offers[k])

KeyTypeInv ==
  /\ OffersOfKeys(offer)
  /\ OffersOfKeys(offerCache)
  /\ OffersOfKeys(keyListed)
  /\ keyQueued \in BOOLEAN
  /\ keyPc \in {"idle", "loop"} \cup HandlingKey
  /\ keyTodo \in SUBSET Keys
  /\ keyPc \in HandlingKey => keyCurrent \in Keys
  /\ IsOffer(keyDraft)

\* An offer has the parts that are computed for key k from what the informers hold.
AuthOffered(o, k)   == o.auth \in APIKeyMethods(GetAPIProduct(k).status.scheme)
LimitsOffered(o, k) == o.limits = PlanLimits(GetAPIProduct(k).status.plans, KeyTier[k])
HostOffered(o, k)   == o.host = HostName(k)

Offered(o, k) == AuthOffered(o, k) /\ LimitsOffered(o, k) /\ HostOffered(o, k)

DraftOffers ==
  /\ keyPc \in HandlingKey => AuthOffered(keyDraft, keyCurrent)
  /\ keyPc \in {"host", "write"} => LimitsOffered(keyDraft, keyCurrent)
  /\ keyPc = "write" => HostOffered(keyDraft, keyCurrent)

\* The call will handle the key, or its change is an event to come.
KeyWorkLeft(k) ==
  \/ offerCache[k] # offer[k]
  \/ keyPc # "idle" /\ k \in keyTodo
  \/ keyPc \in HandlingKey /\ k = keyCurrent

QuietOffers ==
  ~keyQueued => /\ keyPc # "idle" => keyListed = offerCache
                /\ DraftOffers
                /\ \A k \in Keys : KeyWorkLeft(k) \/ Offered(offer[k], k)

OfferInv == KeyTypeInv /\ QuietOffers

-----------------------------------------------------------------------------
(* The composition and its parts *)

LEMMA ComposedStep == [ComposedNext]_<<vars, keyVars>> => [Next]_vars
BY DEF ComposedNext, OthersStep, RestartManager, ReconcileOffers, SyncOffers, Next

\* A behaviour of the two controllers is one of the apiproduct controller: the
\* apikey-status controller only reads its products.
THEOREM CompositionImplementsController == ComposedSpec => Spec
BY ComposedStep, PTL DEF ComposedSpec, Spec

-----------------------------------------------------------------------------
(* The apikey-status controller *)

LEMMA NoOfferIsOffer == IsOffer(NoOffer) /\ OffersOfKeys([k \in Keys |-> NoOffer])
BY DEF IsOffer, NoOffer, OffersOfKeys

LEMMA NoKeyCallType ==
  NoKeyCall => /\ keyPc' = "idle" /\ keyTodo' = {}
               /\ OffersOfKeys(keyListed') /\ IsOffer(keyDraft')
BY NoOfferIsOffer DEF NoKeyCall

LEMMA OfferInit == InitOffers => OfferInv
<1> SUFFICES ASSUME InitOffers PROVE KeyTypeInv
  BY DEF OfferInv, QuietOffers, InitOffers
<1> QED BY NoOfferIsOffer DEF InitOffers, KeyTypeInv, HandlingKey


LEMMA KeyTypeNext == OfferInv /\ [ComposedNext]_<<vars, keyVars>> => KeyTypeInv'
<1> SUFFICES ASSUME KeyTypeInv, [ComposedNext]_<<vars, keyVars>> PROVE KeyTypeInv'
  BY DEF OfferInv
<1>1. CASE UNCHANGED <<offer, offerCache, keyCall>> /\ keyQueued' \in BOOLEAN
  BY <1>1 DEF KeyTypeInv, keyCall
<1>2. CASE RestartManager
  BY <1>2, NoKeyCallType DEF RestartManager, KeyTypeInv, HandlingKey
<1>3. CASE StartOffers
  BY <1>3 DEF StartOffers, KeyTypeInv, HandlingKey
<1>4. ASSUME NEW k \in Keys, CalculateAuthScheme(k) PROVE KeyTypeInv'
  BY <1>4 DEF CalculateAuthScheme, KeyTypeInv, HandlingKey, IsOffer, NoOffer
<1>5. CASE CalculatePlanLimits
  BY <1>5 DEF CalculatePlanLimits, KeyTypeInv, HandlingKey, IsOffer
<1>6. CASE APIHostName
  BY <1>6 DEF APIHostName, KeyTypeInv, HandlingKey, IsOffer
<1>7. CASE WriteOffer
  <2>1. keyCurrent \in Keys
    BY <1>7 DEF WriteOffer, KeyTypeInv, HandlingKey
  <2>2. OffersOfKeys([offer EXCEPT ![keyCurrent] = keyDraft])
    BY DEF KeyTypeInv, OffersOfKeys
  <2>3. OffersOfKeys(offer') /\ offerCache' = offerCache
    BY <1>7, <2>2 DEF WriteOffer, KeyTypeInv
  <2>4. /\ OffersOfKeys(keyListed') /\ keyQueued' \in BOOLEAN
        /\ keyPc' \in {"idle", "loop"} /\ keyTodo' \in SUBSET Keys /\ IsOffer(keyDraft')
    BY <1>7, NoKeyCallType, NoOfferIsOffer DEF WriteOffer, KeyTypeInv
  <2> QED BY <2>3, <2>4 DEF KeyTypeInv, HandlingKey
<1>8. CASE ReturnOffers
  BY <1>8, NoKeyCallType DEF ReturnOffers, KeyTypeInv, HandlingKey
<1>9. CASE SyncOffers
  BY <1>9 DEF SyncOffers, KeyTypeInv, keyCall
<1>10. CASE OthersStep
  BY <1>1, <1>10 DEF OthersStep, Watched, KeyTypeInv
<1> QED
  BY <1>1, <1>2, <1>3, <1>4, <1>5, <1>6, <1>7, <1>8, <1>9, <1>10
     DEF ComposedNext, ReconcileOffers, keyVars, KeyTypeInv

\* What is computed for a key depends on what the informers hold alone.
LEMMA OfferedKept ==
  ASSUME UNCHANGED <<cache, route>>, NEW k
  PROVE  /\ \A o : AuthOffered(o, k)' <=> AuthOffered(o, k)
         /\ \A o : LimitsOffered(o, k)' <=> LimitsOffered(o, k)
         /\ \A o : HostOffered(o, k)' <=> HostOffered(o, k)
         /\ \A o : Offered(o, k)' <=> Offered(o, k)
BY DEF AuthOffered, LimitsOffered, HostOffered, Offered, GetAPIProduct, HostName

\* Nothing is queued by a step that neither an informer nor a conflict is part of.
LEMMA QuietStep ==
  ASSUME [ComposedNext]_<<vars, keyVars>>, ~keyQueued'
  PROVE  UNCHANGED <<cache, route, offerCache>>
BY DEF ComposedNext, OthersStep, Watched, RestartManager, ReconcileOffers, SyncOffers,
       StartOffers, CalculateAuthScheme, CalculatePlanLimits, APIHostName, WriteOffer,
       ReturnOffers, vars, objects, policies, keyVars

LEMMA QuietOffersNext == OfferInv /\ [ComposedNext]_<<vars, keyVars>> => QuietOffers'
<1> SUFFICES ASSUME KeyTypeInv, QuietOffers, [ComposedNext]_<<vars, keyVars>>, ~keyQueued'
             PROVE  /\ (keyPc # "idle" => keyListed = offerCache)'
                    /\ DraftOffers'
                    /\ \A k \in Keys : (KeyWorkLeft(k) \/ Offered(offer[k], k))'
  BY DEF OfferInv, QuietOffers
<1>0. UNCHANGED <<cache, route, offerCache>>
  BY QuietStep
<1>1. CASE UNCHANGED <<offer, keyQueued, keyCall>>
  <2>1. keyPc # "idle" => keyListed = offerCache
    BY <1>1 DEF QuietOffers
  <2>2. DraftOffers'
    BY <1>0, <1>1, OfferedKept DEF QuietOffers, DraftOffers, keyCall
  <2>3. ASSUME NEW k \in Keys PROVE (KeyWorkLeft(k) \/ Offered(offer[k], k))'
    BY <1>0, <1>1, OfferedKept DEF QuietOffers, KeyWorkLeft, keyCall
  <2> QED BY <1>0, <1>1, <2>1, <2>2, <2>3 DEF keyCall
<1>2. CASE StartOffers
  BY <1>2 DEF StartOffers, DraftOffers, KeyWorkLeft, HandlingKey
<1>3. ASSUME NEW c \in Keys, CalculateAuthScheme(c)
      PROVE  /\ (keyPc # "idle" => keyListed = offerCache)'
             /\ DraftOffers'
             /\ \A k \in Keys : (KeyWorkLeft(k) \/ Offered(offer[k], k))'
  <2>1. AuthOffered(keyDraft', c)
    BY <1>3 DEF CalculateAuthScheme, AuthOffered, NoOffer
  <2>2. DraftOffers'
    BY <1>0, <1>3, <2>1, OfferedKept DEF CalculateAuthScheme, DraftOffers
  <2>3. ASSUME NEW k \in Keys PROVE (KeyWorkLeft(k) \/ Offered(offer[k], k))'
    BY <1>0, <1>3, OfferedKept
       DEF CalculateAuthScheme, QuietOffers, KeyWorkLeft, HandlingKey
  <2> QED BY <1>3, <2>2, <2>3 DEF CalculateAuthScheme, QuietOffers
<1>4. CASE CalculatePlanLimits
  <2>1. AuthOffered(keyDraft', keyCurrent) /\ LimitsOffered(keyDraft', keyCurrent)
    BY <1>4 DEF CalculatePlanLimits, QuietOffers, DraftOffers, KeyTypeInv, IsOffer,
                AuthOffered, LimitsOffered, HandlingKey
  <2>2. DraftOffers'
    BY <1>0, <1>4, <2>1, OfferedKept DEF CalculatePlanLimits, DraftOffers
  <2>3. ASSUME NEW k \in Keys PROVE (KeyWorkLeft(k) \/ Offered(offer[k], k))'
    BY <1>0, <1>4, OfferedKept
       DEF CalculatePlanLimits, QuietOffers, KeyWorkLeft, HandlingKey
  <2> QED BY <1>4, <2>2, <2>3 DEF CalculatePlanLimits, QuietOffers
<1>5. CASE APIHostName
  <2>1. Offered(keyDraft', keyCurrent)
    BY <1>5 DEF APIHostName, QuietOffers, DraftOffers, KeyTypeInv, IsOffer, Offered,
                AuthOffered, LimitsOffered, HostOffered, HandlingKey
  <2>2. DraftOffers'
    BY <1>0, <1>5, <2>1, OfferedKept DEF APIHostName, DraftOffers, Offered
  <2>3. ASSUME NEW k \in Keys PROVE (KeyWorkLeft(k) \/ Offered(offer[k], k))'
    BY <1>0, <1>5, OfferedKept DEF APIHostName, QuietOffers, KeyWorkLeft, HandlingKey
  <2> QED BY <1>5, <2>2, <2>3 DEF APIHostName, QuietOffers
<1>6. CASE WriteOffer
  <2>1. /\ keyPc = "write" /\ keyPc' = "loop"
        /\ UNCHANGED <<keyQueued, keyListed, keyTodo>>
        /\ keyListed = offerCache
        /\ keyCurrent \in Keys
        /\ Offered(keyDraft, keyCurrent)
    BY <1>6 DEF WriteOffer, QuietOffers, DraftOffers, Offered, KeyTypeInv, HandlingKey
  <2>2. ASSUME NEW k \in Keys, k # keyCurrent
        PROVE  (KeyWorkLeft(k) \/ Offered(offer[k], k))'
    <3>1. offer'[k] = offer[k]
      BY <1>6, <2>1, <2>2 DEF WriteOffer, KeyTypeInv, OffersOfKeys
    <3> QED BY <1>0, <2>1, <2>2, <3>1, OfferedKept DEF QuietOffers, KeyWorkLeft
  <2>3. ASSUME NEW k \in Keys, k = keyCurrent
        PROVE  (KeyWorkLeft(k) \/ Offered(offer[k], k))'
    <3>1. CASE keyDraft = keyListed[k] /\ offer' = offer
      BY <1>0, <2>1, <2>3, <3>1, OfferedKept DEF KeyWorkLeft
    <3>2. CASE keyDraft # keyListed[k] /\ offer' = [offer EXCEPT ![k] = keyDraft]
      <4>1. offer'[k] = keyDraft
        BY <3>2 DEF KeyTypeInv, OffersOfKeys
      <4> QED BY <1>0, <2>1, <3>2, <4>1 DEF KeyWorkLeft
    <3> QED BY <1>6, <2>1, <2>3, <3>1, <3>2 DEF WriteOffer, NoKeyCall
  <2>4. DraftOffers'
    BY <2>1 DEF DraftOffers, HandlingKey
  <2> QED BY <1>0, <2>1, <2>2, <2>3, <2>4
<1>7. CASE ReturnOffers
  BY <1>0, <1>7, OfferedKept
     DEF ReturnOffers, NoKeyCall, QuietOffers, DraftOffers, KeyWorkLeft, HandlingKey
<1>8. CASE OthersStep
  BY <1>1, <1>8 DEF OthersStep, KeyTypeInv
<1> QED
  BY <1>1, <1>2, <1>3, <1>4, <1>5, <1>6, <1>7, <1>8
     DEF ComposedNext, ReconcileOffers, RestartManager, SyncOffers, keyVars

LEMMA OfferInvariance == ComposedSpec => []OfferInv
<1>1. Init /\ InitOffers => OfferInv
  BY OfferInit
<1>2. OfferInv /\ [ComposedNext]_<<vars, keyVars>> => OfferInv'
  BY KeyTypeNext, QuietOffersNext DEF OfferInv
<1> QED BY <1>1, <1>2, PTL DEF ComposedSpec

\* A product that is gone has nothing to offer.
LEMMA GoneOffersNothing ==
  ASSUME NEW k \in Keys, NEW o, IsOffer(o), Offered(o, k), GetAPIProduct(k) = NoProduct
  PROVE  o = NoOffer
<1>1. o.auth = Nothing
  BY DEF Offered, AuthOffered, APIKeyMethods, NoProduct, NoStatus
<1>2. o.limits = Nothing
  BY DEF Offered, LimitsOffered, PlanLimits, NoProduct, NoStatus
<1>3. o.host = Nothing
  BY DEF Offered, HostOffered, HostName, NoProduct
<1> QED BY <1>1, <1>2, <1>3 DEF IsOffer, NoOffer

\* At rest every key shows what the policies of its product and the route offer
\* it, although neither controller ever read all of them at one time.
THEOREM OffersReachKeysAtRest == ComposedSpec => []OffersReachKeys
<1>1. IndInv /\ QuietInv /\ OfferInv => OffersReachKeys
  <2> SUFFICES ASSUME IndInv, QuietInv, OfferInv, AllAtRest, NEW k \in Keys
               PROVE
        LET p  == KeyProduct[k]
            at == TargetRef[p]
        IN  /\ product[p].phase = "absent" => offer[k] = NoOffer
            /\ product[p].phase = "live" =>
                 /\ \E a \in Maybe(PresentAuthPolicies) :
                      /\ IsEffective(a, PresentAuthPolicies, at, route[at])
                      /\ offer[k].auth \in
                           APIKeyMethods(
                             IF a = Nothing THEN Nothing
                             ELSE IF IsAcceptedAndEnforced(authPolicy[a]) THEN authPolicy[a].scheme
                             ELSE Nothing)
                 /\ \E q \in Maybe(PresentPlanPolicies) :
                      /\ IsEffective(q, PresentPlanPolicies, at, route[at])
                      /\ offer[k].limits =
                           PlanLimits(IF q = Nothing THEN Nothing ELSE planPolicy[q], KeyTier[k])
                 /\ offer[k].host = IF route[at] = Nothing THEN Nothing ELSE route[at].host
    BY DEF OffersReachKeys
  <2> DEFINE p  == KeyProduct[k]
             at == TargetRef[p]
             s  == product[p].status
  <2>1. AtRest /\ keyPc = "idle" /\ ~keyQueued /\ offerCache = offer /\ p \in Products
    BY KeysAssumption DEF AllAtRest
  <2>2. Offered(offer[k], k) /\ IsOffer(offer[k])
    BY <2>1 DEF OfferInv, QuietOffers, KeyWorkLeft, HandlingKey, KeyTypeInv, OffersOfKeys
  <2>3. GetAPIProduct(k) = product[p]
    BY <2>1 DEF IndInv, CopiesFresh, AtRest, GetAPIProduct
  <2>4. product[p].phase = "absent" => offer[k] = NoOffer
    BY <2>1, <2>2, <2>3, GoneOffersNothing DEF IndInv, ObjectsWhole
  <2>5. ASSUME product[p].phase = "live"
        PROVE  /\ PlansShown(s, at)
               /\ SchemeShown(s, at)
    BY <2>1, <2>5, SettledAtRest DEF Settled, StatusShows
  <2>6. ASSUME product[p].phase = "live"
        PROVE  \E a \in Maybe(PresentAuthPolicies) :
                 /\ IsEffective(a, PresentAuthPolicies, at, route[at])
                 /\ offer[k].auth \in
                      APIKeyMethods(
                        IF a = Nothing THEN Nothing
                        ELSE IF IsAcceptedAndEnforced(authPolicy[a]) THEN authPolicy[a].scheme
                        ELSE Nothing)
    <3>1. PICK a \in Maybe(PresentAuthPolicies) :
            /\ IsEffective(a, PresentAuthPolicies, at, route[at])
            /\ s.scheme = IF a = Nothing THEN Nothing
                          ELSE IF IsAcceptedAndEnforced(authPolicy[a]) THEN authPolicy[a].scheme
                          ELSE Nothing
      BY <2>5, <2>6 DEF SchemeShown
    <3> QED BY <2>2, <2>3, <3>1 DEF Offered, AuthOffered
  <2>7. ASSUME product[p].phase = "live"
        PROVE  \E q \in Maybe(PresentPlanPolicies) :
                 /\ IsEffective(q, PresentPlanPolicies, at, route[at])
                 /\ offer[k].limits =
                      PlanLimits(IF q = Nothing THEN Nothing ELSE planPolicy[q], KeyTier[k])
    BY <2>2, <2>3, <2>5, <2>7 DEF PlansShown, Offered, LimitsOffered
  <2>8. product[p].phase = "live" =>
          offer[k].host = IF route[at] = Nothing THEN Nothing ELSE route[at].host
    BY <2>2, <2>3 DEF Offered, HostOffered, HostName
  <2> QED BY <2>4, <2>6, <2>7, <2>8
<1> QED
  BY <1>1, OfferInvariance, CompositionImplementsController, Invariance, QuietInvariance, PTL
=============================================================================
