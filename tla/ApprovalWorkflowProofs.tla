----------------------- MODULE ApprovalWorkflowProofs -----------------------
(***************************************************************************)
(* Theorems about ApprovalWorkflow, for every set of keys, every           *)
(* environment and every number of user actions.                           *)
(*                                                                         *)
(* Conditions travel: apikey-status computes them from the cached copy of  *)
(* the key, the informer copies them back, and apikeyrequeststatus copies  *)
(* them on to the request.  So the inductive invariant says of the cached  *)
(* keys what the property says of the keys and of the requests.            *)
(***************************************************************************)
EXTENDS ApprovalWorkflow, TLAPS

-----------------------------------------------------------------------------
(* The conditions of one key *)

LEMMA NoConditionsType == NoConditions \in Conditions /\ Exclusive(NoConditions)
BY DEF NoConditions, Conditions, Reasons, Exclusive, Listed

LEMMA FailedReasonType ==
  ASSUME NEW kuadrantFound, NEW p, NEW secretRefEmpty, NEW s
  PROVE  FailedReason(kuadrantFound, p, secretRefEmpty, s) \in FailedReasons \cup {None}
BY DEF FailedReason, FailedReasons

\* One condition and no other.
OnlyCondition(type, reason) == [t \in ConditionTypes |-> IF t = type THEN reason ELSE None]

\* Whatever conditions a key had, all but one are removed: the result does not
\* depend on what the key showed before.
LEMMA OneConditionLeft ==
  ASSUME NEW c, NEW failed, NEW decision \in Decisions, NEW isExpired \in BOOLEAN
  PROVE  CalculateStatusConditions(c, failed, decision, isExpired) =
           IF failed # None           THEN OnlyCondition("Failed", failed)
           ELSE IF decision = "denied"    THEN OnlyCondition("Denied", "Denied")
           ELSE IF decision = "undecided" THEN OnlyCondition("Pending", "AwaitingApproval")
           ELSE IF isExpired              THEN OnlyCondition("Expired", "KeyExpired")
           ELSE OnlyCondition("Approved", "Approved")
<1>1. ASSUME NEW type \in ConditionTypes, NEW reason,
             NEW types, types = ConditionTypes \ {type}
      PROVE  SetStatusCondition(RemoveStatusConditions(c, types), type, reason)
               = OnlyCondition(type, reason)
  BY <1>1 DEF SetStatusCondition, RemoveStatusConditions, OnlyCondition
<1>2. /\ {"Approved", "Denied", "Expired", "Pending"} = ConditionTypes \ {"Failed"}
      /\ {"Approved", "Expired", "Failed", "Pending"} = ConditionTypes \ {"Denied"}
      /\ {"Approved", "Denied", "Failed", "Pending"} = ConditionTypes \ {"Expired"}
      /\ {"Denied", "Expired", "Failed", "Pending"} = ConditionTypes \ {"Approved"}
      /\ {"Approved", "Denied", "Expired", "Failed"} = ConditionTypes \ {"Pending"}
      /\ {"Failed", "Denied", "Expired", "Approved", "Pending"} = ConditionTypes
  BY DEF ConditionTypes
<1>3. /\ SetStatusCondition(RemoveStatusConditions(c, {"Approved", "Denied", "Expired", "Pending"}),
                            "Failed", failed) = OnlyCondition("Failed", failed)
      /\ SetStatusCondition(RemoveStatusConditions(c, {"Approved", "Expired", "Failed", "Pending"}),
                            "Denied", "Denied") = OnlyCondition("Denied", "Denied")
      /\ SetStatusCondition(RemoveStatusConditions(c, {"Approved", "Denied", "Failed", "Pending"}),
                            "Expired", "KeyExpired") = OnlyCondition("Expired", "KeyExpired")
      /\ SetStatusCondition(RemoveStatusConditions(c, {"Denied", "Expired", "Failed", "Pending"}),
                            "Approved", "Approved") = OnlyCondition("Approved", "Approved")
      /\ SetStatusCondition(RemoveStatusConditions(c, {"Approved", "Denied", "Expired", "Failed"}),
                            "Pending", "AwaitingApproval")
           = OnlyCondition("Pending", "AwaitingApproval")
  BY <1>1, <1>2
<1> QED BY <1>3 DEF CalculateStatusConditions, Decisions

LEMMA OnlyConditionListed ==
  ASSUME NEW type \in ConditionTypes, NEW reason \in Reasons
  PROVE  /\ OnlyCondition(type, reason) \in Conditions
         /\ Exclusive(OnlyCondition(type, reason))
         /\ reason # None => Listed(OnlyCondition(type, reason)) = {type}
BY DEF OnlyCondition, Conditions, Reasons, Exclusive, Listed

LEMMA CalculatedConditions ==
  ASSUME NEW c, NEW failed \in FailedReasons \cup {None},
         NEW decision \in Decisions, NEW isExpired \in BOOLEAN
  PROVE  LET d == CalculateStatusConditions(c, failed, decision, isExpired)
         IN  d \in Conditions /\ Exclusive(d)
<1>1. /\ failed \in Reasons
      /\ {"Denied", "KeyExpired", "Approved", "AwaitingApproval"} \subseteq Reasons
  BY DEF Reasons
<1>2. {"Failed", "Denied", "Expired", "Approved", "Pending"} \subseteq ConditionTypes
  BY DEF ConditionTypes
<1> QED BY <1>1, <1>2, OneConditionLeft, OnlyConditionListed

LEMMA KeyStatusesType ==
  ASSUME TypeOK, NEW new \in KeyStatuses, NEW k \in Keys
  PROVE  new[k] \in Conditions /\ Exclusive(new[k])
<1>1. PICK decision \in [Keys -> Decisions] :
        new[k] = CalculateStatusConditions(
                   cache.apiKey[k].cond,
                   FailedReason(kuadrant, product, k \in NoSecretRefKeys, secret[k]),
                   decision[k], k \in expired)
  BY DEF KeyStatuses
<1>2. (k \in expired) \in BOOLEAN
  OBVIOUS
<1> QED BY <1>1, <1>2, FailedReasonType, CalculatedConditions

-----------------------------------------------------------------------------
(* Type correctness *)

\* The part of TypeOK that writes to the API server disturb.
StoreOK ==
  /\ apiKey \in [Keys -> KeyObjects]
  /\ request \in [Keys -> RequestObjects]
  /\ approval \in [ApprovalIds -> ApprovalObjects]
  /\ stale \in [apiKey : SUBSET Keys, request : SUBSET Keys, approval : SUBSET ApprovalIds]
  /\ owning \in [ApprovalIds -> Nat]
  /\ outdated \subseteq Owning
  /\ created \in [Keys -> Nat]

LEMMA NoObjectsType ==
  NoKey \in KeyObjects /\ NoRequest \in RequestObjects /\ NoApproval \in ApprovalObjects
BY NoConditionsType
   DEF NoKey, NoRequest, NoApproval, KeyObjects, RequestObjects, ApprovalObjects

LEMMA PutKeysType ==
  ASSUME TypeOK, NEW objects \in [Keys -> KeyObjects], NEW changed \in SUBSET Keys,
         PutKeys(objects, changed)
  PROVE  StoreOK'
BY DEF TypeOK, PutKeys, StoreOK, call, Owning

LEMMA PutRequestsType ==
  ASSUME TypeOK, NEW objects \in [Keys -> RequestObjects], NEW changed \in SUBSET Keys,
         PutRequests(objects, changed), created' \in [Keys -> Nat]
  PROVE  StoreOK'
BY DEF TypeOK, PutRequests, StoreOK, call, Owning

LEMMA StoreApprovalsType ==
  ASSUME TypeOK, NEW objects \in [ApprovalIds -> ApprovalObjects],
         NEW changed \in SUBSET ApprovalIds, StoreApprovals(objects, changed),
         owning' \in [ApprovalIds -> Nat]
  PROVE  StoreOK'
BY DEF TypeOK, StoreApprovals, StoreOK

LEMMA PutApprovalsType ==
  ASSUME TypeOK, NEW objects \in [ApprovalIds -> ApprovalObjects],
         NEW changed \in SUBSET ApprovalIds, PutApprovals(objects, changed)
  PROVE  StoreOK'
BY StoreApprovalsType DEF TypeOK, PutApprovals

LEMMA WriteKeyStatusType ==
  ASSUME TypeOK, NEW new \in KeyStatuses, NEW written \in SUBSET Keys,
         WriteKeyStatus(new, written)
  PROVE  StoreOK'
<1> DEFINE objects == [k \in Keys |-> IF k \in written
                                      THEN [apiKey[k] EXCEPT !.cond = new[k]]
                                      ELSE apiKey[k]]
<1>1. \A k \in Keys : objects[k] \in KeyObjects
  BY KeyStatusesType DEF TypeOK, KeyObjects
<1> QED BY <1>1, PutKeysType DEF WriteKeyStatus

LEMMA WriteRequestsType ==
  ASSUME TypeOK, NEW written \in SUBSET Keys, WriteRequests(written)
  PROVE  StoreOK'
<1> DEFINE new  == written \cap ToCreate
           gone == written \ ToCreate
           next == [k \in Keys |-> created[k] + (IF k \in new THEN 1 ELSE 0)]
           objects == [k \in Keys |-> IF k \in new THEN [NoRequest EXCEPT !.uid = next[k]]
                                      ELSE IF k \in gone THEN NoRequest ELSE request[k]]
           changed == new \cup {k \in gone : request[k].uid # 0}
<1>1. PutRequests(objects, changed) /\ created' = next
  BY DEF WriteRequests
<1>2. next \in [Keys -> Nat]
  BY DEF TypeOK
<1>3. \A k \in Keys : objects[k] \in RequestObjects
  BY <1>2, NoObjectsType DEF TypeOK, RequestObjects
<1>4. objects \in [Keys -> RequestObjects] /\ changed \in SUBSET Keys
  BY <1>3
<1> HIDE DEF objects, changed, next
<1> QED BY <1>1, <1>2, <1>4, PutRequestsType

LEMMA WriteRequestStatusType ==
  ASSUME TypeOK, NEW written \in SUBSET Keys, WriteRequestStatus(written)
  PROVE  StoreOK'
<1> DEFINE objects == [k \in Keys |-> IF k \in written
                                      THEN [request[k] EXCEPT !.cond = cache.apiKey[k].cond]
                                      ELSE request[k]]
<1>1. \A k \in Keys : objects[k] \in RequestObjects
  BY DEF TypeOK, KeyObjects, RequestObjects
<1>2. created' \in [Keys -> Nat]
  BY DEF WriteRequestStatus, TypeOK
<1> QED BY <1>1, <1>2, PutRequestsType DEF WriteRequestStatus

LEMMA WriteValidityType ==
  ASSUME TypeOK, NEW written \in SUBSET ApprovalIds, WriteValidity(written)
  PROVE  StoreOK'
<1> DEFINE objects == [a \in ApprovalIds |-> IF a \in written
                                             THEN [approval[a] EXCEPT !.valid = Validity(a)]
                                             ELSE approval[a]]
<1>1. \A a \in ApprovalIds : objects[a] \in ApprovalObjects
  BY DEF TypeOK, ApprovalObjects, Validity
<1> QED BY <1>1, PutApprovalsType DEF WriteValidity

LEMMA StartOwningType == ASSUME TypeOK, StartOwning PROVE StoreOK'
<1>1. \A a \in ApprovalIds : a[1] \in Keys
  BY DEF ApprovalIds
<1>2. \A a \in ApprovalIds : cache.request[a[1]].uid \in Nat
  BY <1>1 DEF TypeOK, RequestObjects
<1>3. owning' \in [ApprovalIds -> Nat]
  BY <1>2 DEF StartOwning
<1>4. outdated' \subseteq Owning'
  BY DEF StartOwning, ToOwn, Owning
<1> QED BY <1>3, <1>4 DEF StartOwning, TypeOK, StoreOK, store

LEMMA OwnApprovalType == ASSUME TypeOK, NEW a \in ApprovalIds, OwnApproval(a) PROVE StoreOK'
<1> DEFINE objects == [approval EXCEPT ![a].owner = owning[a]]
<1>1. objects \in [ApprovalIds -> ApprovalObjects]
  BY DEF TypeOK, ApprovalObjects
<1>2. owning' \in [ApprovalIds -> Nat]
  BY DEF OwnApproval, TypeOK
<1>3. StoreApprovals(objects, {a})
  BY DEF OwnApproval
<1> HIDE DEF objects
<1> QED BY <1>1, <1>2, <1>3, StoreApprovalsType

LEMMA NoCallType == NoCall => owning' \in [ApprovalIds -> Nat] /\ outdated' \subseteq Owning'
BY DEF NoCall

LEMMA AbandonOwningType == ASSUME TypeOK, AbandonOwning PROVE TypeOK'
BY NoCallType DEF AbandonOwning, TypeOK, env, store, Controllers

LEMMA TypeInit == Init => TypeOK
<1> SUFFICES ASSUME Init PROVE TypeOK
  OBVIOUS
<1>1. 0 \in 0 .. MaxUserActions
  BY EnvironmentAssumption DEF EnvironmentAssumption
<1>2. owning \in [ApprovalIds -> Nat] /\ outdated \subseteq Owning
  BY DEF Init
<1> QED BY <1>1, <1>2, NoObjectsType DEF Init, TypeOK

\* What the caches, the queues, the timers and the environment contribute.
RestOK ==
  /\ kuadrant \in BOOLEAN
  /\ product \in ProductStates
  /\ secret \in [Keys -> ConsumerSecrets]
  /\ expired \subseteq ExpiringKeys
  /\ cache \in [apiKey : [Keys -> KeyObjects], request : [Keys -> RequestObjects],
                approval : [ApprovalIds -> ApprovalObjects]]
  /\ queue \subseteq Controllers
  /\ autoQueue \subseteq Keys
  /\ timer \subseteq ExpiringKeys
  /\ userActions \in 0 .. MaxUserActions

LEMMA TypeParts == StoreOK' /\ RestOK' => TypeOK'
BY DEF TypeOK, StoreOK, RestOK

LEMMA RequestSets ==
  ToCreate \subseteq Keys /\ ToDelete \subseteq Keys /\ Orphans \subseteq Keys
BY DEF ToCreate, ToDelete, Orphans, ActiveKeys

LEMMA SyncType == ASSUME TypeOK, Sync PROVE TypeOK'
<1>1. CASE SyncKeys
  BY <1>1 DEF TypeOK, SyncKeys, env, store, call, Owning, Controllers
<1>2. CASE SyncRequests
  BY <1>2 DEF TypeOK, SyncRequests, env, store, call, Owning, Controllers
<1>3. CASE SyncApprovals
  BY <1>3 DEF TypeOK, SyncApprovals, env, store, call, Owning, Controllers
<1> QED BY <1>1, <1>2, <1>3 DEF Sync

LEMMA ReconcileType == ASSUME TypeOK, Reconcile PROVE TypeOK'
<1>1. CASE ReconcileKeyStatus
  <2>1. StoreOK'
    BY <1>1, WriteKeyStatusType DEF ReconcileKeyStatus, ActiveKeys
  <2>2. RestOK'
    BY <1>1 DEF TypeOK, RestOK, ReconcileKeyStatus, env
  <2> QED BY <2>1, <2>2, TypeParts
<1>2. CASE ReconcileRequest
  <2>1. StoreOK'
    BY <1>2, WriteRequestsType, RequestSets DEF ReconcileRequest
  <2>2. RestOK'
    BY <1>2 DEF TypeOK, RestOK, ReconcileRequest, env
  <2> QED BY <2>1, <2>2, TypeParts
<1>3. CASE ReconcileRequestStatus
  <2>1. StoreOK'
    BY <1>3, WriteRequestStatusType DEF ReconcileRequestStatus, ToMirror, ActiveKeys
  <2>2. RestOK'
    BY <1>3 DEF TypeOK, RestOK, ReconcileRequestStatus, env
  <2> QED BY <2>1, <2>2, TypeParts
<1>4. CASE ReconcileApprovalStatus
  <2>1. StoreOK'
    BY <1>4, WriteValidityType DEF ReconcileApprovalStatus, ToValidate
  <2>2. RestOK'
    BY <1>4 DEF TypeOK, RestOK, ReconcileApprovalStatus, env
  <2> QED BY <2>1, <2>2, TypeParts
<1>5. CASE ReconcileApproval
  <2>1. CASE StartOwning
    <3>1. RestOK'
      BY <2>1 DEF TypeOK, RestOK, StartOwning, env
    <3> QED BY <2>1, <3>1, StartOwningType, TypeParts
  <2>2. ASSUME NEW a \in ApprovalIds, OwnApproval(a) PROVE TypeOK'
    <3>1. RestOK'
      BY <2>2 DEF TypeOK, RestOK, OwnApproval, env
    <3> QED BY <2>2, <3>1, OwnApprovalType, TypeParts
  <2>3. ASSUME NEW a \in ApprovalIds, OwnerConflict(a) PROVE TypeOK'
    BY <2>3, AbandonOwningType DEF OwnerConflict
  <2> QED BY <1>5, <2>1, <2>2, <2>3 DEF ReconcileApproval
<1>6. ASSUME NEW k \in Keys, ReconcileAutoApproval(k) PROVE TypeOK'
  <2> DEFINE new == [NoApproval EXCEPT !.present = TRUE, !.approved = TRUE]
             objects == [approval EXCEPT ![<<k, "auto">>] = new]
  <2>1. RestOK'
    BY <1>6 DEF TypeOK, RestOK, ReconcileAutoApproval, env
  <2>2. new \in ApprovalObjects
    BY DEF NoApproval, ApprovalObjects
  <2>3. objects \in [ApprovalIds -> ApprovalObjects]
    <3> HIDE DEF new
    <3> QED BY <2>2 DEF TypeOK
  <2>4. {<<k, "auto">>} \in SUBSET ApprovalIds
    BY DEF ApprovalIds
  <2>5. CASE NeedsAutoApproval(k) /\ ~approval[<<k, "auto">>].present
    <3>1. PutApprovals(objects, {<<k, "auto">>})
      BY <1>6, <2>5 DEF ReconcileAutoApproval
    <3>2. StoreOK'
      <4> HIDE DEF objects
      <4> QED BY <2>3, <2>4, <3>1 DEF PutApprovals, StoreApprovals, TypeOK, StoreOK, Owning
    <3> QED BY <2>1, <3>2, TypeParts
  <2>6. CASE ~(NeedsAutoApproval(k) /\ ~approval[<<k, "auto">>].present)
    <3>1. UNCHANGED <<store, stale, call, created>>
      BY <1>6, <2>6 DEF ReconcileAutoApproval
    <3> QED BY <2>1, <3>1, TypeParts DEF TypeOK, StoreOK, store, call, Owning
  <2> QED BY <2>5, <2>6
<1> QED BY <1>1, <1>2, <1>3, <1>4, <1>5, <1>6 DEF Reconcile

\* A failing call writes some of what a succeeding one does.
LEMMA FailType == ASSUME TypeOK, Fail PROVE TypeOK'
<1>1. CASE FailKeyStatus
  <2>1. StoreOK'
    BY <1>1, WriteKeyStatusType DEF FailKeyStatus, ActiveKeys
  <2>2. RestOK'
    BY <1>1 DEF TypeOK, RestOK, FailKeyStatus, env
  <2> QED BY <2>1, <2>2, TypeParts
<1>2. CASE FailRequest
  <2>1. StoreOK'
    BY <1>2, WriteRequestsType, RequestSets DEF FailRequest
  <2>2. RestOK'
    BY <1>2 DEF TypeOK, RestOK, FailRequest, env
  <2> QED BY <2>1, <2>2, TypeParts
<1>3. CASE FailRequestStatus
  <2>1. StoreOK'
    BY <1>3, WriteRequestStatusType DEF FailRequestStatus, ToMirror, ActiveKeys
  <2>2. RestOK'
    BY <1>3 DEF TypeOK, RestOK, FailRequestStatus, env
  <2> QED BY <2>1, <2>2, TypeParts
<1>4. CASE FailApprovalStatus
  <2>1. StoreOK'
    BY <1>4, WriteValidityType DEF FailApprovalStatus, ToValidate
  <2>2. RestOK'
    BY <1>4 DEF TypeOK, RestOK, FailApprovalStatus, env
  <2> QED BY <2>1, <2>2, TypeParts
<1>5. CASE FailApproval
  BY <1>5, AbandonOwningType DEF FailApproval
<1> QED BY <1>1, <1>2, <1>3, <1>4, <1>5 DEF Fail

LEMMA ClusterType == ASSUME TypeOK, Cluster PROVE TypeOK'
<1>1. ASSUME NEW a \in ApprovalIds, CollectGarbage(a) PROVE TypeOK'
  <2>1. [approval EXCEPT ![a] = NoApproval] \in [ApprovalIds -> ApprovalObjects]
    BY NoObjectsType DEF TypeOK
  <2>2. StoreOK'
    BY <1>1, <2>1 DEF CollectGarbage, PutApprovals, StoreApprovals, TypeOK, StoreOK, Owning
  <2>3. RestOK'
    BY <1>1 DEF TypeOK, RestOK, CollectGarbage, env
  <2> QED BY <2>2, <2>3, TypeParts
<1>2. ASSUME NEW k \in Keys, Expire(k) PROVE TypeOK'
  <2>1. StoreOK'
    BY <1>2 DEF TypeOK, StoreOK, Expire, store, call, Owning
  <2>2. RestOK'
    BY <1>2 DEF TypeOK, RestOK, Expire, Controllers
  <2> QED BY <2>1, <2>2, TypeParts
<1>3. ASSUME NEW k \in Keys, FinishDeletion(k) PROVE TypeOK'
  <2>1. [apiKey EXCEPT ![k] = NoKey] \in [Keys -> KeyObjects]
    BY NoObjectsType DEF TypeOK
  <2>2. StoreOK'
    BY <1>3, <2>1 DEF FinishDeletion, PutKeys, TypeOK, StoreOK, call, Owning
  <2>3. RestOK'
    BY <1>3 DEF TypeOK, RestOK, FinishDeletion, env
  <2> QED BY <2>2, <2>3, TypeParts
<1> QED BY <1>1, <1>2, <1>3 DEF Cluster

LEMMA UserType == ASSUME TypeOK, User PROVE TypeOK'
<1>0. ASSUME NEW name, UserAction(name) PROVE userActions' \in 0 .. MaxUserActions
  BY <1>0, EnvironmentAssumption DEF UserAction, TypeOK, EnvironmentAssumption
<1>1. ASSUME NEW k \in Keys, CreateKey(k) PROVE TypeOK'
  <2>1. [apiKey EXCEPT ![k].phase = "live"] \in [Keys -> KeyObjects]
    BY DEF TypeOK, KeyObjects
  <2>2. StoreOK'
    BY <1>1, <2>1 DEF CreateKey, PutKeys, TypeOK, StoreOK, call, Owning
  <2>3. RestOK'
    BY <1>0, <1>1 DEF TypeOK, RestOK, CreateKey, env
  <2> QED BY <2>2, <2>3, TypeParts
<1>2. ASSUME NEW k \in Keys, DeleteKey(k) PROVE TypeOK'
  <2>1. [apiKey EXCEPT ![k] = NoKey] \in [Keys -> KeyObjects]
    BY NoObjectsType DEF TypeOK
  <2>2. [apiKey EXCEPT ![k].phase = "deleting"] \in [Keys -> KeyObjects]
    BY DEF TypeOK, KeyObjects
  <2>3. StoreOK'
    BY <1>2, <2>1, <2>2 DEF DeleteKey, PutKeys, TypeOK, StoreOK, call, Owning
  <2>4. RestOK'
    BY <1>0, <1>2 DEF TypeOK, RestOK, DeleteKey, env
  <2> QED BY <2>3, <2>4, TypeParts
<1>3. ASSUME NEW k \in Keys, ChangeSecret(k) PROVE TypeOK'
  <2>1. StoreOK'
    BY <1>3 DEF TypeOK, StoreOK, ChangeSecret, store, call, Owning
  <2>2. RestOK'
    BY <1>0, <1>3 DEF TypeOK, RestOK, ChangeSecret, Controllers
  <2> QED BY <2>1, <2>2, TypeParts
<1>4. ASSUME NEW a \in ApprovalIds, WithdrawApproval(a) PROVE TypeOK'
  <2>1. [approval EXCEPT ![a] = NoApproval] \in [ApprovalIds -> ApprovalObjects]
    BY NoObjectsType DEF TypeOK
  <2>2. StoreOK'
    BY <1>4, <2>1 DEF WithdrawApproval, PutApprovals, StoreApprovals, TypeOK, StoreOK, Owning
  <2>3. RestOK'
    BY <1>0, <1>4 DEF TypeOK, RestOK, WithdrawApproval, env
  <2> QED BY <2>2, <2>3, TypeParts
<1>5. ASSUME NEW a \in ApprovalIds, NEW d \in BOOLEAN, Decide(a, d) PROVE TypeOK'
  <2> DEFINE new == [NoApproval EXCEPT !.present = TRUE, !.approved = d]
  <2>1. new \in ApprovalObjects
    BY DEF NoApproval, ApprovalObjects
  <2>2. [approval EXCEPT ![a] = new] \in [ApprovalIds -> ApprovalObjects]
    <3> HIDE DEF new
    <3> QED BY <2>1 DEF TypeOK
  <2>3. [approval EXCEPT ![a].approved = d] \in [ApprovalIds -> ApprovalObjects]
    BY DEF TypeOK, ApprovalObjects
  <2>4. StoreOK'
    BY <1>5, <2>2, <2>3 DEF Decide, PutApprovals, StoreApprovals, TypeOK, StoreOK, Owning
  <2>5. RestOK'
    BY <1>0, <1>5 DEF TypeOK, RestOK, Decide, env
  <2> QED BY <2>4, <2>5, TypeParts
<1>6. CASE ChangeProduct
  <2>1. StoreOK'
    BY <1>6 DEF TypeOK, StoreOK, ChangeProduct, store, call, Owning
  <2>2. RestOK'
    BY <1>0, <1>6 DEF TypeOK, RestOK, ChangeProduct, Controllers
  <2> QED BY <2>1, <2>2, TypeParts
<1>7. CASE ToggleKuadrant
  <2>1. StoreOK'
    BY <1>7 DEF TypeOK, StoreOK, ToggleKuadrant, store, call, Owning
  <2>2. RestOK'
    BY <1>0, <1>7 DEF TypeOK, RestOK, ToggleKuadrant
  <2> QED BY <2>1, <2>2, TypeParts
<1>8. CASE Restart
  <2>1. StoreOK'
    BY <1>8 DEF TypeOK, StoreOK, Restart, NoCall, store, Owning
  <2>2. RestOK'
    BY <1>0, <1>8 DEF TypeOK, RestOK, Restart, env
  <2> QED BY <2>1, <2>2, TypeParts
<1> QED BY <1>1, <1>2, <1>3, <1>4, <1>5, <1>6, <1>7, <1>8 DEF User

LEMMA TypeNext == TypeOK /\ [Next]_vars => TypeOK'
<1> SUFFICES ASSUME TypeOK, [Next]_vars PROVE TypeOK'
  OBVIOUS
<1>1. CASE UNCHANGED vars
  BY <1>1 DEF TypeOK, vars, env, store, call, Owning
<1> QED BY <1>1, SyncType, ReconcileType, FailType, ClusterType, UserType DEF Next

\* Every state the system reaches is well typed: in particular the objects that
\* the controllers write have the shapes their CRDs give them.
THEOREM TypeCorrect == Spec => []TypeOK
BY TypeInit, TypeNext, PTL DEF Spec

-----------------------------------------------------------------------------
(* One state at a time.  That requests show one state follows only because *)
(* the cached keys they are copied from do: this is the strengthening.     *)

CachedExclusive == \A k \in Keys : Exclusive(cache.apiKey[k].cond)

IndInv == TypeOK /\ ExclusiveConditions /\ CachedExclusive

LEMMA ExclusiveInit == Init => IndInv
BY TypeInit, NoConditionsType
   DEF Init, IndInv, ExclusiveConditions, CachedExclusive, NoKey, NoRequest

\* Most steps leave every list of conditions alone.
LEMMA SameConditions ==
  ASSUME IndInv, UNCHANGED <<apiKey, request, cache>>
  PROVE  ExclusiveConditions' /\ CachedExclusive'
BY DEF IndInv, ExclusiveConditions, CachedExclusive

LEMMA WriteKeyStatusExclusive ==
  ASSUME IndInv, NEW new \in KeyStatuses, NEW written \in SUBSET Keys,
         WriteKeyStatus(new, written), UNCHANGED cache
  PROVE  ExclusiveConditions' /\ CachedExclusive'
<1>1. \A k \in Keys : apiKey'[k].cond = IF k \in written THEN new[k] ELSE apiKey[k].cond
  BY DEF IndInv, TypeOK, KeyObjects, WriteKeyStatus, PutKeys
<1>2. request' = request
  BY DEF WriteKeyStatus, PutKeys
<1>3. \A k \in Keys : Exclusive(new[k])
  BY KeyStatusesType DEF IndInv
<1> QED BY <1>1, <1>2, <1>3 DEF IndInv, ExclusiveConditions, CachedExclusive

LEMMA WriteRequestsExclusive ==
  ASSUME IndInv, NEW written, WriteRequests(written), UNCHANGED cache
  PROVE  ExclusiveConditions' /\ CachedExclusive'
<1>1. \A k \in Keys : request'[k].cond \in {NoConditions, request[k].cond}
  <2> TAKE k \in Keys
  <2>1. \A n : [NoRequest EXCEPT !.uid = n].cond = NoConditions
    BY DEF NoRequest
  <2>2. NoRequest.cond = NoConditions
    BY DEF NoRequest
  <2> QED BY <2>1, <2>2 DEF WriteRequests, PutRequests
<1>2. apiKey' = apiKey
  BY DEF WriteRequests, PutRequests
<1> QED BY <1>1, <1>2, NoConditionsType DEF IndInv, ExclusiveConditions, CachedExclusive

LEMMA WriteRequestStatusExclusive ==
  ASSUME IndInv, NEW written \in SUBSET Keys, WriteRequestStatus(written), UNCHANGED cache
  PROVE  ExclusiveConditions' /\ CachedExclusive'
<1>1. \A k \in Keys : request'[k].cond =
        IF k \in written THEN cache.apiKey[k].cond ELSE request[k].cond
  BY DEF IndInv, TypeOK, RequestObjects, WriteRequestStatus, PutRequests
<1>2. apiKey' = apiKey
  BY DEF WriteRequestStatus, PutRequests
<1> QED BY <1>1, <1>2 DEF IndInv, ExclusiveConditions, CachedExclusive

LEMMA ExclusiveNext == IndInv /\ [Next]_vars => IndInv'
<1> SUFFICES ASSUME IndInv, [Next]_vars PROVE ExclusiveConditions' /\ CachedExclusive'
  BY TypeNext DEF IndInv
<1>1. CASE UNCHANGED vars
  BY <1>1, SameConditions DEF vars, store
<1>2. CASE SyncKeys
  <2>1. UNCHANGED <<apiKey, request>> /\ cache'.apiKey = apiKey
    BY <1>2 DEF SyncKeys, store, IndInv, TypeOK
  <2> QED BY <2>1 DEF IndInv, ExclusiveConditions, CachedExclusive
<1>3. CASE SyncRequests \/ SyncApprovals
  <2>1. UNCHANGED <<apiKey, request>> /\ cache'.apiKey = cache.apiKey
    BY <1>3 DEF SyncRequests, SyncApprovals, store, IndInv, TypeOK
  <2> QED BY <2>1 DEF IndInv, ExclusiveConditions, CachedExclusive
<1>4. CASE ReconcileKeyStatus \/ FailKeyStatus
  BY <1>4, WriteKeyStatusExclusive DEF ReconcileKeyStatus, FailKeyStatus, ActiveKeys
<1>5. CASE ReconcileRequest \/ FailRequest
  BY <1>5, WriteRequestsExclusive DEF ReconcileRequest, FailRequest
<1>6. CASE ReconcileRequestStatus \/ FailRequestStatus
  BY <1>6, WriteRequestStatusExclusive
     DEF ReconcileRequestStatus, FailRequestStatus, ToMirror, ActiveKeys
<1>7. CASE \/ ReconcileApprovalStatus \/ FailApprovalStatus
           \/ ReconcileApproval \/ FailApproval
  <2>1. UNCHANGED <<apiKey, request, cache>>
    BY <1>7 DEF ReconcileApprovalStatus, FailApprovalStatus, WriteValidity, PutApprovals,
         ReconcileApproval, FailApproval, StartOwning, OwnApproval, OwnerConflict,
         AbandonOwning, StoreApprovals, store
  <2> QED BY <2>1, SameConditions
<1>8. ASSUME NEW k \in Keys, ReconcileAutoApproval(k)
      PROVE  ExclusiveConditions' /\ CachedExclusive'
  BY <1>8, SameConditions DEF ReconcileAutoApproval, PutApprovals, StoreApprovals, store
<1>9. CASE Cluster
  <2>1. ASSUME NEW a \in ApprovalIds, CollectGarbage(a)
        PROVE  ExclusiveConditions' /\ CachedExclusive'
    BY <2>1, SameConditions DEF CollectGarbage, PutApprovals, StoreApprovals
  <2>2. ASSUME NEW k \in Keys, Expire(k)
        PROVE  ExclusiveConditions' /\ CachedExclusive'
    BY <2>2, SameConditions DEF Expire, store
  <2>3. ASSUME NEW k \in Keys, FinishDeletion(k)
        PROVE  ExclusiveConditions' /\ CachedExclusive'
    <3>1. \A j \in Keys : apiKey'[j].cond \in {NoConditions, apiKey[j].cond}
      BY <2>3 DEF FinishDeletion, PutKeys, NoKey, IndInv, TypeOK
    <3>2. UNCHANGED <<request, cache>>
      BY <2>3 DEF FinishDeletion, PutKeys
    <3> QED BY <3>1, <3>2, NoConditionsType
               DEF IndInv, ExclusiveConditions, CachedExclusive
  <2> QED BY <1>9, <2>1, <2>2, <2>3 DEF Cluster
<1>10. CASE User
  <2>1. ASSUME NEW k \in Keys, CreateKey(k) \/ DeleteKey(k)
        PROVE  ExclusiveConditions' /\ CachedExclusive'
    <3>1. \/ apiKey' = [apiKey EXCEPT ![k].phase = "live"]
          \/ apiKey' = [apiKey EXCEPT ![k] = NoKey]
          \/ apiKey' = [apiKey EXCEPT ![k].phase = "deleting"]
      BY <2>1 DEF CreateKey, DeleteKey, PutKeys
    <3>2. \A j \in Keys : apiKey'[j].cond \in {NoConditions, apiKey[j].cond}
      <4>1. apiKey \in [Keys -> KeyObjects] /\ NoKey.cond = NoConditions
        BY DEF IndInv, TypeOK, NoKey
      <4> QED BY <3>1, <4>1 DEF KeyObjects
    <3>3. UNCHANGED <<request, cache>>
      BY <2>1 DEF CreateKey, DeleteKey, PutKeys
    <3> QED BY <3>2, <3>3, NoConditionsType
               DEF IndInv, ExclusiveConditions, CachedExclusive
  <2>2. ASSUME NEW k \in Keys, ChangeSecret(k)
        PROVE  ExclusiveConditions' /\ CachedExclusive'
    BY <2>2, SameConditions DEF ChangeSecret, store
  <2>3. ASSUME NEW a \in ApprovalIds, NEW d \in BOOLEAN, Decide(a, d)
        PROVE  ExclusiveConditions' /\ CachedExclusive'
    BY <2>3, SameConditions DEF Decide, PutApprovals, StoreApprovals
  <2>4. ASSUME NEW a \in ApprovalIds, WithdrawApproval(a)
        PROVE  ExclusiveConditions' /\ CachedExclusive'
    BY <2>4, SameConditions DEF WithdrawApproval, PutApprovals, StoreApprovals
  <2>5. CASE ChangeProduct \/ ToggleKuadrant
    BY <2>5, SameConditions DEF ChangeProduct, ToggleKuadrant, store
  <2>6. CASE Restart
    <3>1. UNCHANGED <<apiKey, request>> /\ cache'.apiKey = apiKey
      BY <2>6 DEF Restart, store
    <3> QED BY <3>1 DEF IndInv, ExclusiveConditions, CachedExclusive
  <2> QED BY <1>10, <2>1, <2>2, <2>3, <2>4, <2>5, <2>6 DEF User
<1> QED BY <1>1, <1>2, <1>3, <1>4, <1>5, <1>6, <1>7, <1>8, <1>9, <1>10
           DEF Next, Sync, Reconcile, Fail

\* A key, and a request, shows one of Pending, Approved, Denied, Expired and
\* Failed at a time, whatever the order in which the controllers run, fail and
\* restart: calculateStatusConditions leaves nothing of an earlier state.
THEOREM OneStateAtATime == Spec => []ExclusiveConditions
<1>1. IndInv => ExclusiveConditions
  BY DEF IndInv
<1> QED BY <1>1, ExclusiveInit, ExclusiveNext, PTL DEF Spec
=============================================================================
