------------------------- MODULE KeyLifecycleProofs -------------------------
(***************************************************************************)
(* The approval workflow implements KeyLifecycle, for every set of keys,   *)
(* every environment and every number of user actions.                     *)
(*                                                                         *)
(* Only apikey-status writes the status of a key.  What it computes lists  *)
(* one condition; what it writes goes to the key it was computed from,     *)
(* because the API server refuses an update of anything else, and that key *)
(* was live in the cache and, being unchanged, is.                         *)
(***************************************************************************)
EXTENDS ApprovalsAtRestProofs

phases == [k \in Keys |-> apiKey[k].phase]
states == [k \in Keys |-> Listed(apiKey[k].cond)]

LEMMA LifecycleInit == Init => Lifecycle!Init
<1> SUFFICES ASSUME Init PROVE Lifecycle!Init
  OBVIOUS
<1>1. NoKey.phase = "absent" /\ Listed(NoKey.cond) = {}
  BY DEF NoKey, NoConditions, Listed
<1> QED BY <1>1 DEF Init, Lifecycle!Init

\* A computed status lists one condition, and Approved before the key expires only.
LEMMA ComputedState ==
  ASSUME NEW new \in KeyStatuses, NEW k \in Keys
  PROVE  \E state \in ConditionTypes : /\ state = "Approved" => k \notin expired
                                       /\ Listed(new[k]) = {state}
<1> DEFINE isExpired == k \in expired
           failed == FailedReason(kuadrant, product, k \in NoSecretRefKeys, secret[k])
<1>1. PICK decision \in [Keys -> Decisions] :
        new[k] = CalculateStatusConditions(cache.apiKey[k].cond, failed, decision[k], isExpired)
  BY DEF KeyStatuses
<1>2. isExpired \in BOOLEAN /\ decision[k] \in Decisions
  BY <1>1
<1>3. failed \in FailedReasons \cup {None}
  BY FailedReasonType
<1> HIDE DEF isExpired, failed
<1>4. new[k] = IF failed # None               THEN OnlyCondition("Failed", failed)
               ELSE IF decision[k] = "denied"    THEN OnlyCondition("Denied", "Denied")
               ELSE IF decision[k] = "undecided" THEN OnlyCondition("Pending", "AwaitingApproval")
               ELSE IF isExpired                 THEN OnlyCondition("Expired", "KeyExpired")
               ELSE OnlyCondition("Approved", "Approved")
  BY <1>1, <1>2, OneConditionLeft
<1>5. /\ failed # None => Listed(OnlyCondition("Failed", failed)) = {"Failed"}
      /\ Listed(OnlyCondition("Denied", "Denied")) = {"Denied"}
      /\ Listed(OnlyCondition("Pending", "AwaitingApproval")) = {"Pending"}
      /\ Listed(OnlyCondition("Expired", "KeyExpired")) = {"Expired"}
      /\ Listed(OnlyCondition("Approved", "Approved")) = {"Approved"}
  <2>1. failed \in Reasons
    BY <1>3 DEF Reasons
  <2> QED BY <2>1, OnlyConditionListed DEF ConditionTypes, Reasons, None
<1>6. {"Failed", "Denied", "Expired", "Approved", "Pending"} \subseteq ConditionTypes
  BY DEF ConditionTypes
<1> QED BY <1>4, <1>5, <1>6 DEF isExpired

LEMMA WriteKeyStatusShows ==
  ASSUME TypeOK, StoreInv, NEW new \in KeyStatuses,
         NEW written \in SUBSET ActiveKeys, written \cap stale.apiKey = {},
         WriteKeyStatus(new, written), UNCHANGED expired
  PROVE  Lifecycle!Change
<1>1. written \subseteq Keys
  BY DEF ActiveKeys
<1>2. \A k \in Keys : /\ apiKey'[k].phase = apiKey[k].phase
                      /\ apiKey'[k].cond = IF k \in written THEN new[k] ELSE apiKey[k].cond
  BY DEF WriteKeyStatus, PutKeys, TypeOK, KeyObjects
<1>3. \A k \in Keys \ written : Lifecycle!Keep(k)
  BY <1>2 DEF Lifecycle!Keep
<1>4. ASSUME NEW k \in written PROVE Lifecycle!Show(k)
  <2>1. apiKey[k].phase = "live"
    BY <1>1 DEF StoreInv, Fresh, ActiveKeys
  <2>2. \E state \in ConditionTypes : /\ state = "Approved" => k \notin expired
                                      /\ Listed(new[k]) = {state}
    BY <1>1, ComputedState
  <2> QED BY <1>1, <1>2, <2>1, <2>2 DEF Lifecycle!Show
<1> QED BY <1>3, <1>4 DEF Lifecycle!Change

\* What users and the cluster do to one key.
LEMMA OneKeyChanges ==
  ASSUME TypeOK, UNCHANGED expired, NEW k \in Keys,
         \A j \in Keys \ {k} : apiKey'[j] = apiKey[j],
         Lifecycle!Create(k) \/ Lifecycle!MarkDeleted(k) \/ Lifecycle!Remove(k)
  PROVE  Lifecycle!Change
<1>1. \A j \in Keys \ {k} : Lifecycle!Keep(j)
  BY DEF Lifecycle!Keep
<1> QED BY <1>1 DEF Lifecycle!Change

LEMMA LifecycleNext ==
  TypeOK /\ HandledInv /\ [Next]_vars => [Lifecycle!Next]_<<phases, states, expired>>
<1> SUFFICES ASSUME TypeOK, HandledInv, [Next]_vars
             PROVE  \/ UNCHANGED <<apiKey, expired>>
                    \/ Lifecycle!Change
                    \/ Lifecycle!Expire
  BY DEF Lifecycle!Next, phases, states
<1> USE DEF HandledInv
<1>1. NoKey.phase = "absent" /\ Listed(NoKey.cond) = {}
  BY DEF NoKey, NoConditions, Listed
<1>2. CASE ReconcileKeyStatus \/ FailKeyStatus
  BY <1>2, WriteKeyStatusShows DEF ReconcileKeyStatus, FailKeyStatus, env
<1>3. ASSUME NEW k \in Keys, Expire(k) PROVE Lifecycle!Expire
  <2>1. UNCHANGED apiKey /\ k \in Keys \ expired /\ expired' = expired \cup {k}
    BY <1>3 DEF Expire, store
  <2> QED BY <2>1 DEF Lifecycle!Expire
<1>4. ASSUME NEW k \in Keys, FinishDeletion(k) PROVE Lifecycle!Change
  <2>1. /\ apiKey[k].phase = "deleting" /\ apiKey'[k] = NoKey
        /\ \A j \in Keys \ {k} : apiKey'[j] = apiKey[j]
        /\ UNCHANGED expired
    BY <1>4 DEF FinishDeletion, PutKeys, TypeOK, env
  <2>2. Lifecycle!Remove(k)
    BY <1>1, <2>1 DEF Lifecycle!Remove
  <2> QED BY <2>1, <2>2, OneKeyChanges
<1>5. ASSUME NEW k \in Keys, CreateKey(k) PROVE Lifecycle!Change
  <2>1. /\ apiKey[k].phase = "absent" /\ apiKey[k] = NoKey
        /\ apiKey'[k].phase = "live" /\ apiKey'[k].cond = NoKey.cond
        /\ \A j \in Keys \ {k} : apiKey'[j] = apiKey[j]
        /\ UNCHANGED expired
    BY <1>5 DEF CreateKey, PutKeys, TypeOK, KeyObjects, StoreInv, GoneObjects, env
  <2>2. Lifecycle!Create(k)
    BY <1>1, <2>1 DEF Lifecycle!Create
  <2> QED BY <2>1, <2>2, OneKeyChanges
<1>6. ASSUME NEW k \in Keys, DeleteKey(k) PROVE Lifecycle!Change
  <2>1. /\ apiKey[k].phase = "live"
        /\ \/ apiKey'[k] = NoKey
           \/ apiKey'[k].phase = "deleting" /\ apiKey'[k].cond = apiKey[k].cond
        /\ \A j \in Keys \ {k} : apiKey'[j] = apiKey[j]
        /\ UNCHANGED expired
    BY <1>6 DEF DeleteKey, PutKeys, TypeOK, KeyObjects, env
  <2>2. Lifecycle!Remove(k) \/ Lifecycle!MarkDeleted(k)
    BY <1>1, <2>1 DEF Lifecycle!Remove, Lifecycle!MarkDeleted
  <2> QED BY <2>1, <2>2, OneKeyChanges
<1>7. ASSUME \/ Sync \/ UNCHANGED vars
             \/ ReconcileRequest \/ ReconcileRequestStatus
             \/ ReconcileApprovalStatus \/ ReconcileApproval
             \/ FailRequest \/ FailRequestStatus \/ FailApprovalStatus \/ FailApproval
      PROVE  UNCHANGED <<apiKey, expired>>
  BY <1>7 DEF Sync, SyncKeys, SyncRequests, SyncApprovals, vars, store, env,
       ReconcileRequest, ReconcileRequestStatus, ReconcileApprovalStatus, ReconcileApproval,
       FailRequest, FailRequestStatus, FailApprovalStatus, FailApproval,
       StartOwning, OwnApproval, OwnerConflict, AbandonOwning,
       WriteRequests, WriteRequestStatus, WriteValidity, PutRequests, PutApprovals, StoreApprovals
<1>8. ASSUME NEW k \in Keys, ReconcileAutoApproval(k) \/ ChangeSecret(k)
      PROVE  UNCHANGED <<apiKey, expired>>
  BY <1>8 DEF ReconcileAutoApproval, ChangeSecret, PutApprovals, StoreApprovals, store, env
<1>9. ASSUME NEW a \in ApprovalIds,
             \/ CollectGarbage(a) \/ WithdrawApproval(a)
             \/ \E d \in BOOLEAN : Decide(a, d)
      PROVE  UNCHANGED <<apiKey, expired>>
  BY <1>9 DEF CollectGarbage, WithdrawApproval, Decide, PutApprovals, StoreApprovals, env
<1>10. ASSUME ChangeProduct \/ ToggleKuadrant \/ Restart PROVE UNCHANGED <<apiKey, expired>>
  BY <1>10 DEF ChangeProduct, ToggleKuadrant, Restart, store, env
<1> QED
  BY <1>2, <1>3, <1>4, <1>5, <1>6, <1>7, <1>8, <1>9, <1>10
     DEF Next, Reconcile, Fail, Cluster, User

\* The six controllers implement the lifecycle of a key: one state at a time, none
\* that was computed for a predecessor of the same name or for a key that is being
\* deleted by now, and no approval after the key has expired.
THEOREM WorkflowImplementsLifecycle == Spec => ImplementsLifecycle
<1>1. Spec => [][Lifecycle!Next]_<<phases, states, expired>>
  BY HandledInvariance, LifecycleNext, PTL DEF Spec
<1>2. Lifecycle!Spec <=> Lifecycle!Init /\ [][Lifecycle!Next]_<<phases, states, expired>>
  BY DEF Lifecycle!Spec, phases, states
<1>3. Spec => Lifecycle!Init
  BY LifecycleInit DEF Spec
<1> QED BY <1>1, <1>2, <1>3 DEF ImplementsLifecycle
=============================================================================
