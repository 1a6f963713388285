-------------------------- MODULE ApprovalWorkflow --------------------------
(***************************************************************************)
(* The approval workflow: an APIKey is shadowed by an APIKeyRequest, the   *)
(* request is decided by APIKeyApprovals, and the decision comes back as   *)
(* the status conditions of the key and of the request.                    *)
(*                                                                         *)
(* Six controllers cooperate only through the API server.  Each one reads  *)
(* the informer caches of the manager, which lag behind the API server,    *)
(* and is started by the events of the kinds it watches.  All of them but  *)
(* the auto-approval controller put every event under one key of their     *)
(* work queue, so a work queue is either empty or holds one request, and   *)
(* handle every object of the cluster in one call of Reconcile.            *)
(*                                                                         *)
(* A call of Reconcile is one step: it reads the caches and performs its   *)
(* writes.  A call that fails half-way is a step of its own (Fail...): it  *)
(* performs some of the writes and its request goes back to the queue.     *)
(* Only what apikeyapproval writes is not guarded by the version of all it *)
(* was taken from: the owner is a request listed earlier.  Its calls list  *)
(* in one step and write in others.                                        *)
(*                                                                         *)
(* One product and its namespace are modelled; the Secret, APIProduct and  *)
(* Kuadrant informers are taken to be prompt.                              *)
(***************************************************************************)
EXTENDS Naturals, KeyConditions

CONSTANTS
  Keys,            \* names of APIKeys (the request of a key has its name)
  ExpiringKeys,    \* those with an expiresAt
  NoSecretRefKeys, \* those whose secretRef.name is empty
  ProductStates,   \* the states the APIProduct takes
  ConsumerSecrets, \* the states a consumer's Secret takes
  UserActions,     \* what users, owners and the cluster do in this instance
  MaxUserActions   \* and how many of those steps there are at most

ASSUME KeysAssumption ==
  /\ ExpiringKeys \subseteq Keys
  /\ NoSecretRefKeys \subseteq Keys
ASSUME EnvironmentAssumption ==
  /\ ProductStates \subseteq Products
  /\ ConsumerSecrets \subseteq SecretStates
  /\ MaxUserActions \in Nat

VARIABLES
  kuadrant,   \* whether a Kuadrant resource exists
  product,    \* the APIProduct
  secret,     \* the consumer's Secret of each key
  expired,    \* the keys whose expiresAt has passed
  apiKey,     \* the APIKeys, APIKeyRequests and APIKeyApprovals
  request,    \*   in the API server
  approval,
  cache,      \* what the informers hold of these three kinds
  stale,      \* the objects changed since their informer last caught up
  queue,      \* the controllers whose work queue is not empty
  autoQueue,  \* the work queue of the auto-approval controller
  owning,     \* the owner the running call of apikeyapproval will give an approval
  outdated,   \* the approvals among those that changed since they were listed
  timer,      \* the keys an expiry timer of apikey-status is running for
  created,    \* how many requests were created for a key (the last UID)
  userActions \* how many user actions were taken

env    == <<kuadrant, product, secret, expired>>
store  == <<apiKey, request, approval>>
call   == <<owning, outdated>>
vars   == <<env, store, cache, stale, queue, autoQueue, call, timer, created, userActions>>

Controllers == {"apikey-status", "apikeyrequest", "apikeyrequeststatus",
                "apikeyapproval", "apikeyapproval-status"}

\* Of a key, the controller creates one approval and the owner another.
ApprovalIds == Keys \X {"auto", "owner"}

NoKey      == [phase |-> "absent", cond |-> NoConditions]
NoRequest  == [uid |-> 0, cond |-> NoConditions]
NoApproval == [present |-> FALSE, approved |-> FALSE, valid |-> "Unknown", owner |-> 0]

KeyObjects      == [phase : {"absent", "live", "deleting"}, cond : Conditions]
RequestObjects  == [uid : Nat, cond : Conditions]
ApprovalObjects == [present : BOOLEAN, approved : BOOLEAN,
                    valid : {"Unknown", "True", "False"}, owner : Nat]

Init ==
  /\ kuadrant = TRUE
  /\ product \in ProductStates
  /\ secret \in [Keys -> ConsumerSecrets]
  /\ expired = {}
  /\ apiKey = [k \in Keys |-> NoKey]
  /\ request = [k \in Keys |-> NoRequest]
  /\ approval = [a \in ApprovalIds |-> NoApproval]
  /\ cache = [apiKey |-> apiKey, request |-> request, approval |-> approval]
  /\ stale = [apiKey |-> {}, request |-> {}, approval |-> {}]
  /\ queue = {}
  /\ autoQueue = {}
  /\ owning = [a \in ApprovalIds |-> 0]
  /\ outdated = {}
  /\ timer = {}
  /\ created = [k \in Keys |-> 0]
  /\ userActions = 0

-----------------------------------------------------------------------------
(* Writes to the API server.  A status update, or an update, carries the   *)
(* resource version of the cached copy: on a stale object it is refused.   *)

PutKeys(objects, changed) ==
  /\ apiKey' = objects
  /\ stale' = [stale EXCEPT !.apiKey = @ \cup changed]
  /\ UNCHANGED <<request, approval, created, call>>

PutRequests(objects, changed) ==
  /\ request' = objects
  /\ stale' = [stale EXCEPT !.request = @ \cup changed]
  /\ UNCHANGED <<apiKey, approval, call>>

\* What the running call of apikeyapproval has still to write.
Owning == {a \in ApprovalIds : owning[a] # 0}

StoreApprovals(objects, changed) ==
  /\ approval' = objects
  /\ stale' = [stale EXCEPT !.approval = @ \cup changed]
  /\ outdated' = (outdated \cup changed) \cap Owning'
  /\ UNCHANGED <<apiKey, request, created>>

PutApprovals(objects, changed) ==
  /\ UNCHANGED owning
  /\ StoreApprovals(objects, changed)

-----------------------------------------------------------------------------
(* Informers: one catches up with its kind and starts who watches it.      *)

SyncKeys ==
  /\ stale.apiKey # {}
  /\ cache' = [cache EXCEPT !.apiKey = apiKey]
  /\ stale' = [stale EXCEPT !.apiKey = {}]
  /\ queue' = queue \cup {"apikey-status", "apikeyrequest", "apikeyrequeststatus"}
  /\ UNCHANGED <<env, store, autoQueue, call, timer, created, userActions>>

\* A mutant: apikeyapproval-status does not watch requests either.
MutSyncRequests ==
  /\ stale.request # {}
  /\ cache' = [cache EXCEPT !.request = request]
  /\ stale' = [stale EXCEPT !.request = {}]
  /\ queue' = queue \cup {"apikey-status", "apikeyrequest", "apikeyapproval"}
  /\ autoQueue' = autoQueue \cup stale.request
  /\ UNCHANGED <<env, store, call, timer, created, userActions>>

\* The controller apikeyrequeststatus does not watch requests.
SyncRequests ==
  /\ stale.request # {}
  /\ cache' = [cache EXCEPT !.request = request]
  /\ stale' = [stale EXCEPT !.request = {}]
  /\ queue' = queue \cup {"apikey-status", "apikeyrequest",
                          "apikeyapproval", "apikeyapproval-status"}
  /\ autoQueue' = autoQueue \cup stale.request
  /\ UNCHANGED <<env, store, call, timer, created, userActions>>

\* A mutant: apikey-status does not watch approvals.
MutSyncApprovals ==
  /\ stale.approval # {}
  /\ cache' = [cache EXCEPT !.approval = approval]
  /\ stale' = [stale EXCEPT !.approval = {}]
  /\ queue' = queue \cup {"apikeyapproval", "apikeyapproval-status"}
  /\ UNCHANGED <<env, store, autoQueue, call, timer, created, userActions>>

SyncApprovals ==
  /\ stale.approval # {}
  /\ cache' = [cache EXCEPT !.approval = approval]
  /\ stale' = [stale EXCEPT !.approval = {}]
  /\ queue' = queue \cup {"apikey-status", "apikeyapproval", "apikeyapproval-status"}
  /\ UNCHANGED <<env, store, autoQueue, call, timer, created, userActions>>

-----------------------------------------------------------------------------
(* apikey-status *)

\* findAPIKeyApproval returns the first valid approval of the key's request in
\* the order of the cached list, which is arbitrary: what it may answer.
FindAPIKeyApproval(k) ==
  LET found == {a \in ApprovalIds : /\ a[1] = k
                                    /\ cache.approval[a].present
                                    /\ cache.approval[a].valid = "True"}
  IN  IF found = {} THEN {"undecided"}
      ELSE {IF cache.approval[a].approved THEN "approved" ELSE "denied" : a \in found}

\* A mutant: a key that is Pending is not looked at for its expiry.
MutKeyStatuses ==
  {[k \in Keys |->
      CalculateStatusConditions(
        cache.apiKey[k].cond,
        FailedReason(kuadrant, product, k \in NoSecretRefKeys, secret[k]),
        decision[k],
        k \in expired /\ cache.apiKey[k].cond["Pending"] = None)]
     : decision \in {d \in [Keys -> Decisions] : \A k \in Keys : d[k] \in FindAPIKeyApproval(k)}}

\* The conditions one call of Reconcile computes for each key.
KeyStatuses ==
  {[k \in Keys |->
      CalculateStatusConditions(
        cache.apiKey[k].cond,
        FailedReason(kuadrant, product, k \in NoSecretRefKeys, secret[k]),
        decision[k],
        k \in expired)]
     : decision \in {d \in [Keys -> Decisions] : \A k \in Keys : d[k] \in FindAPIKeyApproval(k)}}

ActiveKeys == {k \in Keys : cache.apiKey[k].phase = "live"}

WriteKeyStatus(new, written) ==
  PutKeys([k \in Keys |-> IF k \in written
                          THEN [apiKey[k] EXCEPT !.cond = new[k]]
                          ELSE apiKey[k]], written)

\* A mutant: the call does not ask to be requeued when a key expires.
MutReconcileKeyStatus ==
  /\ "apikey-status" \in queue
  /\ \E new \in KeyStatuses :
       LET todo == {k \in ActiveKeys : new[k] # cache.apiKey[k].cond}
       IN  /\ todo \cap stale.apiKey = {}
           /\ WriteKeyStatus(new, todo)
  /\ queue' = queue \ {"apikey-status"}
  /\ UNCHANGED <<env, cache, autoQueue, timer, userActions>>

\* A mutant: the status is written without the resource version.
MutOverwriteKeyStatus ==
  /\ "apikey-status" \in queue
  /\ \E new \in KeyStatuses :
       WriteKeyStatus(new, {k \in ActiveKeys : new[k] # cache.apiKey[k].cond})
  /\ queue' = queue \ {"apikey-status"}
  /\ timer' = timer \cup ((ActiveKeys \cap ExpiringKeys) \ expired)
  /\ UNCHANGED <<env, cache, autoQueue, userActions>>

ReconcileKeyStatus ==
  /\ "apikey-status" \in queue
  /\ \E new \in KeyStatuses :
       LET todo == {k \in ActiveKeys : new[k] # cache.apiKey[k].cond}
       IN  /\ todo \cap stale.apiKey = {}
           /\ WriteKeyStatus(new, todo)
  /\ queue' = queue \ {"apikey-status"}
  /\ timer' = timer \cup ((ActiveKeys \cap ExpiringKeys) \ expired)
  /\ UNCHANGED <<env, cache, autoQueue, userActions>>

\* A mutant: a conflict ends the call as if it had succeeded.
MutFailKeyStatus ==
  /\ "apikey-status" \in queue
  /\ \E new \in KeyStatuses :
       LET todo == {k \in ActiveKeys : new[k] # cache.apiKey[k].cond}
       IN  \E written \in SUBSET (todo \ stale.apiKey) : WriteKeyStatus(new, written)
  /\ queue' = queue \ {"apikey-status"}
  /\ UNCHANGED <<env, cache, autoQueue, timer, userActions>>

\* The call stops at a conflict or at another error; no timer is set.
FailKeyStatus ==
  /\ "apikey-status" \in queue
  /\ \E new \in KeyStatuses :
       LET todo == {k \in ActiveKeys : new[k] # cache.apiKey[k].cond}
       IN  \E written \in SUBSET (todo \ stale.apiKey) \ {{}} :
             WriteKeyStatus(new, written)
  /\ UNCHANGED <<env, cache, queue, autoQueue, timer, userActions>>

-----------------------------------------------------------------------------
(* apikeyrequest *)

Failed(k) == cache.apiKey[k].cond["Failed"] # None

ToCreate == {k \in ActiveKeys : ~Failed(k) /\ cache.request[k].uid = 0}

\* The request is tagged for deletion, and the cache has it.
ToDelete == {k \in Keys : /\ \/ cache.apiKey[k].phase = "deleting"
                             \/ cache.apiKey[k].phase = "live" /\ Failed(k)
                          /\ cache.request[k].uid # 0}

\* A mutant: only keys that are being deleted count as gone.
MutOrphans == {k \in Keys : /\ cache.apiKey[k].phase = "deleting"
                            /\ cache.request[k].uid # 0}

Orphans == {k \in Keys : /\ cache.apiKey[k].phase = "absent"
                         /\ cache.request[k].uid # 0}

\* Create fails when the request is already there and Delete when it is gone.
RequestConflicts == {k \in ToCreate : request[k].uid # 0}
                      \cup {k \in ToDelete : request[k].uid = 0}

WriteRequests(written) ==
  LET new  == written \cap ToCreate
      gone == written \ ToCreate
      next == [k \in Keys |-> created[k] + (IF k \in new THEN 1 ELSE 0)]
  IN  /\ PutRequests([k \in Keys |->
                        IF k \in new THEN [NoRequest EXCEPT !.uid = next[k]]
                        ELSE IF k \in gone THEN NoRequest ELSE request[k]],
                     new \cup {k \in gone : request[k].uid # 0})
      /\ created' = next

ReconcileRequest ==
  /\ "apikeyrequest" \in queue
  /\ RequestConflicts = {}
  /\ WriteRequests(ToCreate \cup ToDelete \cup Orphans)
  /\ queue' = queue \ {"apikeyrequest"}
  /\ UNCHANGED <<env, cache, autoQueue, timer, userActions>>

\* The orphans come after all of the keys.
FailRequest ==
  /\ "apikeyrequest" \in queue
  /\ \E written \in SUBSET ((ToCreate \cup ToDelete \cup Orphans) \ RequestConflicts) \ {{}} :
       /\ written \cap Orphans # {} => ToCreate \cup ToDelete \subseteq written
       /\ WriteRequests(written)
  /\ UNCHANGED <<env, cache, queue, autoQueue, timer, userActions>>

-----------------------------------------------------------------------------
(* apikeyrequeststatus *)

ToMirror == {k \in ActiveKeys : /\ cache.request[k].uid # 0
                                /\ cache.request[k].cond # cache.apiKey[k].cond}

WriteRequestStatus(written) ==
  /\ PutRequests([k \in Keys |-> IF k \in written
                                 THEN [request[k] EXCEPT !.cond = cache.apiKey[k].cond]
                                 ELSE request[k]], written)
  /\ UNCHANGED created

ReconcileRequestStatus ==
  /\ "apikeyrequeststatus" \in queue
  /\ ToMirror \cap stale.request = {}
  /\ WriteRequestStatus(ToMirror)
  /\ queue' = queue \ {"apikeyrequeststatus"}
  /\ UNCHANGED <<env, cache, autoQueue, timer, userActions>>

FailRequestStatus ==
  /\ "apikeyrequeststatus" \in queue
  /\ \E written \in SUBSET (ToMirror \ stale.request) \ {{}} : WriteRequestStatus(written)
  /\ UNCHANGED <<env, cache, queue, autoQueue, timer, userActions>>

-----------------------------------------------------------------------------
(* apikeyapproval-status *)

\* An approval is valid while the request it names is in the cache.
Validity(a) == IF cache.request[a[1]].uid # 0 THEN "True" ELSE "False"

\* A mutant: the status is written whether or not it changes.
MutToValidate == {a \in ApprovalIds : cache.approval[a].present}

ToValidate == {a \in ApprovalIds : /\ cache.approval[a].present
                                   /\ cache.approval[a].valid # Validity(a)}

WriteValidity(written) ==
  PutApprovals([a \in ApprovalIds |-> IF a \in written
                                      THEN [approval[a] EXCEPT !.valid = Validity(a)]
                                      ELSE approval[a]], written)

ReconcileApprovalStatus ==
  /\ "apikeyapproval-status" \in queue
  /\ ToValidate \cap stale.approval = {}
  /\ WriteValidity(ToValidate)
  /\ queue' = queue \ {"apikeyapproval-status"}
  /\ UNCHANGED <<env, cache, autoQueue, timer, userActions>>

FailApprovalStatus ==
  /\ "apikeyapproval-status" \in queue
  /\ \E written \in SUBSET (ToValidate \ stale.approval) \ {{}} : WriteValidity(written)
  /\ UNCHANGED <<env, cache, queue, autoQueue, timer, userActions>>

-----------------------------------------------------------------------------
(* apikeyapproval *)

\* A mutant: an approval that has an owner keeps it.
MutToOwn == {a \in ApprovalIds : /\ cache.approval[a].present
                                 /\ cache.request[a[1]].uid # 0
                                 /\ cache.approval[a].owner = 0}

\* SetControllerReference replaces a reference to an earlier request of the
\* same name, because it compares references by kind and name.
ToOwn == {a \in ApprovalIds : /\ cache.approval[a].present
                              /\ cache.request[a[1]].uid # 0
                              /\ cache.approval[a].owner # cache.request[a[1]].uid}

\* No call runs any more.
NoCall ==
  /\ owning' = [a \in ApprovalIds |-> 0]
  /\ outdated' = {}

\* The call lists the approvals and the requests: which approvals it has to
\* write, and with the UIDs of which requests, is settled here.
StartOwning ==
  /\ "apikeyapproval" \in queue
  /\ Owning = {}
  /\ owning' = [a \in ApprovalIds |-> IF a \in ToOwn THEN cache.request[a[1]].uid ELSE 0]
  /\ outdated' = ToOwn \cap stale.approval
  /\ queue' = queue \ {"apikeyapproval"}
  /\ UNCHANGED <<env, store, cache, stale, autoQueue, timer, created, userActions>>

\* One Update.  It carries the version of the approval and not that of the
\* request, which may be gone by now and have a successor.
OwnApproval(a) ==
  /\ a \in Owning \ outdated
  /\ owning' = [owning EXCEPT ![a] = 0]
  /\ StoreApprovals([approval EXCEPT ![a].owner = owning[a]], {a})
  /\ UNCHANGED <<env, cache, queue, autoQueue, timer, userActions>>

AbandonOwning ==
  /\ NoCall
  /\ queue' = queue \cup {"apikeyapproval"}
  /\ UNCHANGED <<env, store, cache, stale, autoQueue, timer, created, userActions>>

\* The approval was changed, or is gone: the call ends and is queued again.
OwnerConflict(a) ==
  /\ a \in Owning \cap outdated
  /\ AbandonOwning

ReconcileApproval ==
  \/ StartOwning
  \/ \E a \in ApprovalIds : OwnApproval(a) \/ OwnerConflict(a)

\* Another error ends the call.
FailApproval ==
  /\ Owning # {}
  /\ AbandonOwning

-----------------------------------------------------------------------------
(* apikeyrequest-autoapproval: one call per request, the only controller   *)
(* that is. *)

NeedsAutoApproval(k) ==
  /\ cache.request[k].uid # 0
  /\ cache.request[k].cond["Pending"] # None
  /\ product.phase = "live"
  /\ product.mode = "automatic"
  /\ \A a \in ApprovalIds : a[1] = k => ~cache.approval[a].present

\* That the approval already exists is not an error.
ReconcileAutoApproval(k) ==
  /\ k \in autoQueue
  /\ IF NeedsAutoApproval(k) /\ ~approval[<<k, "auto">>].present
     THEN PutApprovals([approval EXCEPT ![<<k, "auto">>] =
                          [NoApproval EXCEPT !.present = TRUE, !.approved = TRUE]],
                       {<<k, "auto">>})
     ELSE UNCHANGED <<store, stale, call, created>>
  /\ autoQueue' = autoQueue \ {k}
  /\ UNCHANGED <<env, cache, queue, timer, userActions>>

-----------------------------------------------------------------------------
(* The cluster *)

\* The owner of an approval is gone.
Dangling(a) == /\ approval[a].present
               /\ approval[a].owner # 0
               /\ approval[a].owner # request[a[1]].uid

\* The garbage collector of Kubernetes deletes an approval whose owner is gone.
CollectGarbage(a) ==
  /\ Dangling(a)
  /\ PutApprovals([approval EXCEPT ![a] = NoApproval], {a})
  /\ UNCHANGED <<env, cache, queue, autoQueue, timer, userActions>>

\* A key's expiresAt passes; if apikey-status has a timer for it, it fires.
Expire(k) ==
  /\ k \in ExpiringKeys \ expired
  /\ expired' = expired \cup {k}
  /\ IF k \in timer
     THEN queue' = queue \cup {"apikey-status"} /\ timer' = {}
     ELSE UNCHANGED <<queue, timer>>
  /\ UNCHANGED <<kuadrant, product, secret, store, cache, stale, autoQueue, call,
                 created, userActions>>

\* The foreground deletion of a key is over.
FinishDeletion(k) ==
  /\ apiKey[k].phase = "deleting"
  /\ PutKeys([apiKey EXCEPT ![k] = NoKey], {k})
  /\ UNCHANGED <<env, cache, queue, autoQueue, timer, userActions>>

-----------------------------------------------------------------------------
(* Users, owners and operators, within their budget *)

UserAction(name) ==
  /\ name \in UserActions
  /\ userActions < MaxUserActions
  /\ userActions' = userActions + 1

CreateKey(k) ==
  /\ UserAction("CreateKey")
  /\ apiKey[k].phase = "absent"
  /\ PutKeys([apiKey EXCEPT ![k].phase = "live"], {k})
  /\ UNCHANGED <<env, cache, queue, autoQueue, timer>>

\* In the background the key is gone at once; in the foreground it keeps a
\* deletion timestamp for a while.
DeleteKey(k) ==
  /\ UserAction("DeleteKey")
  /\ apiKey[k].phase = "live"
  /\ \/ PutKeys([apiKey EXCEPT ![k] = NoKey], {k})
     \/ PutKeys([apiKey EXCEPT ![k].phase = "deleting"], {k})
  /\ UNCHANGED <<env, cache, queue, autoQueue, timer>>

\* The owner reviews a request: creates an approval or changes the decision of
\* one, the controller's included.
Decide(a, decision) ==
  /\ UserAction("Decide")
  /\ \/ /\ ~approval[a].present
        /\ a[2] = "owner"
        /\ PutApprovals([approval EXCEPT ![a] =
                            [NoApproval EXCEPT !.present = TRUE, !.approved = decision]], {a})
     \/ /\ approval[a].present
        /\ approval[a].approved # decision
        /\ PutApprovals([approval EXCEPT ![a].approved = decision], {a})
  /\ UNCHANGED <<env, cache, queue, autoQueue, timer>>

WithdrawApproval(a) ==
  /\ UserAction("WithdrawApproval")
  /\ approval[a].present
  /\ PutApprovals([approval EXCEPT ![a] = NoApproval], {a})
  /\ UNCHANGED <<env, cache, queue, autoQueue, timer>>

ChangeProduct ==
  /\ UserAction("ChangeProduct")
  /\ product' \in ProductStates \ {product}
  /\ queue' = queue \cup {"apikey-status", "apikeyrequest", "apikeyrequeststatus"}
  /\ UNCHANGED <<kuadrant, secret, expired, store, cache, stale, autoQueue, call, timer, created>>

ChangeSecret(k) ==
  /\ UserAction("ChangeSecret")
  /\ \E s \in ConsumerSecrets \ {secret[k]} : secret' = [secret EXCEPT ![k] = s]
  /\ queue' = queue \cup {"apikey-status"}
  /\ UNCHANGED <<kuadrant, product, expired, store, cache, stale, autoQueue, call, timer, created>>

\* No controller of the workflow watches Kuadrant.
ToggleKuadrant ==
  /\ UserAction("ToggleKuadrant")
  /\ kuadrant' = ~kuadrant
  /\ UNCHANGED <<product, secret, expired, store, cache, stale, queue, autoQueue, call, timer,
                 created>>

\* A mutant: the new process waits for events instead of listing.
MutRestart ==
  /\ UserAction("Restart")
  /\ cache' = [apiKey |-> apiKey, request |-> request, approval |-> approval]
  /\ stale' = [apiKey |-> {}, request |-> {}, approval |-> {}]
  /\ queue' = {}
  /\ autoQueue' = {}
  /\ NoCall
  /\ timer' = {}
  /\ UNCHANGED <<env, store, created>>

\* A new manager process lists every kind: its caches are filled, its queues
\* hold a request for every controller, and its timers are gone.
Restart ==
  /\ UserAction("Restart")
  /\ cache' = [apiKey |-> apiKey, request |-> request, approval |-> approval]
  /\ stale' = [apiKey |-> {}, request |-> {}, approval |-> {}]
  /\ queue' = Controllers
  /\ autoQueue' = {k \in Keys : request[k].uid # 0}
  /\ NoCall
  /\ timer' = {}
  /\ UNCHANGED <<env, store, created>>

-----------------------------------------------------------------------------
Sync == SyncKeys \/ SyncRequests \/ SyncApprovals

Reconcile ==
  \/ ReconcileKeyStatus
  \/ ReconcileRequest
  \/ ReconcileRequestStatus
  \/ ReconcileApprovalStatus
  \/ ReconcileApproval
  \/ \E k \in Keys : ReconcileAutoApproval(k)

Fail ==
  \/ FailKeyStatus
  \/ FailRequest
  \/ FailRequestStatus
  \/ FailApprovalStatus
  \/ FailApproval

Cluster ==
  \/ \E a \in ApprovalIds : CollectGarbage(a)
  \/ \E k \in Keys : Expire(k) \/ FinishDeletion(k)

User ==
  \/ \E k \in Keys : CreateKey(k) \/ DeleteKey(k) \/ ChangeSecret(k)
  \/ \E a \in ApprovalIds : WithdrawApproval(a) \/ \E d \in BOOLEAN : Decide(a, d)
  \/ ChangeProduct
  \/ ToggleKuadrant
  \/ Restart

Next == Sync \/ Reconcile \/ Fail \/ Cluster \/ User

\* Informers deliver, work queues are served until they are empty, and the
\* garbage collector runs; nothing is promised of users.  A call that fails has
\* written something, but for apikeyapproval, of whose Updates it is asked that
\* they do not all fail for ever.
Fairness ==
  /\ WF_vars(SyncKeys) /\ WF_vars(SyncRequests) /\ WF_vars(SyncApprovals)
  /\ WF_vars(ReconcileKeyStatus)
  /\ WF_vars(ReconcileRequest)
  /\ WF_vars(ReconcileRequestStatus)
  /\ WF_vars(ReconcileApprovalStatus)
  /\ WF_vars(ReconcileApproval)
  /\ SF_vars(\E a \in ApprovalIds : OwnApproval(a))
  /\ \A k \in Keys : WF_vars(ReconcileAutoApproval(k))
  /\ \A a \in ApprovalIds : WF_vars(CollectGarbage(a))

Spec == Init /\ [][Next]_vars

FairSpec == Spec /\ Fairness

-----------------------------------------------------------------------------
(* Properties *)

\* Every variable keeps its type: the objects of the API server and their
\* copies in the caches have the shapes above, and queues hold controllers.
TypeOK ==
  /\ kuadrant \in BOOLEAN
  /\ product \in ProductStates
  /\ secret \in [Keys -> ConsumerSecrets]
  /\ expired \subseteq ExpiringKeys
  /\ apiKey \in [Keys -> KeyObjects]
  /\ request \in [Keys -> RequestObjects]
  /\ approval \in [ApprovalIds -> ApprovalObjects]
  /\ cache \in [apiKey : [Keys -> KeyObjects], request : [Keys -> RequestObjects],
                approval : [ApprovalIds -> ApprovalObjects]]
  /\ stale \in [apiKey : SUBSET Keys, request : SUBSET Keys, approval : SUBSET ApprovalIds]
  /\ queue \subseteq Controllers
  /\ autoQueue \subseteq Keys
  /\ owning \in [ApprovalIds -> Nat]
  /\ outdated \subseteq Owning
  /\ timer \subseteq ExpiringKeys
  /\ created \in [Keys -> Nat]
  /\ userActions \in 0 .. MaxUserActions

\* No key, and no request, is ever in two states at once: calculateStatus-
\* Conditions starts from the conditions of the last call and must remove
\* whichever of them the new state excludes.
ExclusiveConditions ==
  \A k \in Keys : Exclusive(apiKey[k].cond) /\ Exclusive(request[k].cond)

\* Nothing is left for the controllers to do.
Quiet == /\ queue = {} /\ autoQueue = {} /\ Owning = {}
         /\ stale = [apiKey |-> {}, request |-> {}, approval |-> {}]
         /\ \A a \in ApprovalIds : ~Dangling(a)

Live(k) == apiKey[k].phase = "live"

ApprovalsOf(k) == {a \in ApprovalIds : a[1] = k /\ approval[a].present}

Verdicts(k) == {approval[a].approved : a \in ApprovalsOf(k)}

Why(k) == FailedReason(kuadrant, product, k \in NoSecretRefKeys, secret[k])

\* The watches suffice for the status of a key: when the controllers come to
\* rest, a key that cannot be served says why, and any other key shows the one
\* decision its owner or the controller took, or that none was taken.
DecisionReachesKey ==
  Quiet => \A k \in Keys : Live(k) =>
    /\ apiKey[k].cond["Failed"] = Why(k)
    /\ Why(k) = None =>
         /\ Verdicts(k) = {}      => Listed(apiKey[k].cond) = {"Pending"}
         /\ Verdicts(k) = {FALSE} => Listed(apiKey[k].cond) = {"Denied"}
         /\ Verdicts(k) = {TRUE}  => Listed(apiKey[k].cond) =
                                       {IF k \in expired THEN "Expired" ELSE "Approved"}

\* When the controllers come to rest the requests are the shadows of the keys:
\* one for each key that lives and has not failed, and no other.
RequestsShadowKeys ==
  Quiet => \A k \in Keys :
    request[k].uid # 0 <=> Live(k) /\ apiKey[k].cond["Failed"] = None

\* At rest an approval belongs to the request it decides, so that the two are
\* deleted together, and it is valid exactly if that request exists.
ApprovalsFollowRequests ==
  Quiet => \A a \in ApprovalIds : approval[a].present =>
    /\ approval[a].owner = request[a[1]].uid
    /\ approval[a].valid = IF request[a[1]].uid # 0 THEN "True" ELSE "False"

\* An approval may be handed to a request that is gone and has a successor: the
\* call listed it before.  The garbage collector would then take the approval of a
\* request that is there.  It never has for ever to do so: as long as it may, the
\* controller has still to see the request or the approval, or to handle them.
LostOwnersAreReplaced ==
  \A a \in ApprovalIds : Dangling(a) /\ request[a[1]].uid # 0 =>
    \/ "apikeyapproval" \in queue
    \/ a \in Owning \cup stale.approval
    \/ a[1] \in stale.request

Lifecycle == INSTANCE KeyLifecycle
               WITH phase <- [k \in Keys |-> apiKey[k].phase],
                    shown <- [k \in Keys |-> Listed(apiKey[k].cond)]

\* The controllers keep to the lifecycle of a key, though the copy of the key
\* from which a status is computed may be of a key that is gone or has a
\* successor, and the clock goes on between any two steps.
ImplementsLifecycle == Lifecycle!Spec

\* What the README says of approvalMode automatic: the controller creates an
\* approval when the request is created.  At rest every request of such a
\* product has one.
AutomaticRequestsApproved ==
  Quiet => \A k \in Keys :
    /\ request[k].uid # 0
    /\ product.phase = "live"
    /\ product.mode = "automatic"
    => ApprovalsOf(k) # {}

\* Left alone, the controllers come to rest: no two of them undo each other's
\* work, and none keeps rewriting a status.
ControllersComeToRest == <>[]Quiet

Revoked(k) == Verdicts(k) = {FALSE}

\* The owner can revoke access at any time: a key all of whose approvals deny
\* it does not stay Approved.
RevocationTakesEffect ==
  \A k \in Keys : Revoked(k) ~> (apiKey[k].cond["Approved"] = None \/ ~Revoked(k))

\* An approved key whose expiresAt passes does not stay Approved, whether or not
\* anything happens in the cluster: the timer of apikey-status sees to it.
ExpiryTakesEffect ==
  \A k \in Keys : k \in expired ~> apiKey[k].cond["Approved"] = None
=============================================================================
