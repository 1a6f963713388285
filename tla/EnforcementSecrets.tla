------------------------- MODULE EnforcementSecrets -------------------------
(***************************************************************************)
(* The apikey-secret controller                                            *)
(* (internal/controller/apikey_secret_controller.go): it copies the API    *)
(* key of every approved APIKey into an enforcement Secret of the Kuadrant *)
(* namespace, where the gateway looks keys up, and deletes the enforcement *)
(* Secrets of all other keys.                                              *)
(*                                                                         *)
(* One call of Reconcile is a sequence of steps: it lists the enforcement  *)
(* Secrets, lists the keys, handles the approved keys one by one and then  *)
(* deletes what it listed and found no approved key for.  Users, the other *)
(* controllers and the informers act between any two of them.  The lists   *)
(* and reads are served by informer caches, one for APIKeys and one for    *)
(* Secrets; events of APIKeys start a call, events of Secrets do not.      *)
(*                                                                         *)
(* The name of the enforcement Secret of a key is unique to the key, so    *)
(* Secrets are indexed by keys.  A key is "gone" when it does not exist or *)
(* has a deletion timestamp: the controller does not tell these apart.     *)
(***************************************************************************)
EXTENDS Naturals

CONSTANTS
  Keys,            \* the APIKeys, by namespace and name
  NoSecretRefKeys, \* those whose secretRef.name is empty
  Values,          \* contents of an api_key entry
  NoValue,         \* there is no Secret, no api_key entry, or an empty one
  SecretsPrompt,   \* TRUE: a call starts only once the Secret cache caught up
  UserActions,     \* what users and the cluster do in this instance
  MaxUserActions   \* and how many of those steps there are at most

ASSUME KeysAssumption == NoSecretRefKeys \subseteq Keys
ASSUME ValuesAssumption == NoValue \notin Values
ASSUME EnvironmentAssumption == SecretsPrompt \in BOOLEAN /\ MaxUserActions \in Nat

VARIABLES
  kuadrant,     \* whether a Kuadrant resource exists
  apiKey,       \* the APIKeys in the API server
  consumer,     \* the api_key entry of the consumer's Secret of each key
  enforcement,  \* the enforcement Secret of each key, by its value
  keyCache,     \* what the informers hold of the keys,
  secretCache,  \*   and of both kinds of Secrets
  unseen,       \* APIKey events are on their way to the informer
  queued,       \* the work queue holds the controller's one request
  pc,           \* where the call of Reconcile is
  listed,       \* the enforcement Secrets it listed and has not handled yet
  keyList,      \* the keys it listed
  todo,         \* the approved ones among them that it has not handled yet
  userActions,  \* how many user actions were taken
  \* History, read by properties only:
  approvedAt,   \* the versions of each key at which it was approved
  held,         \* the values its consumer's Secret has held
  basis         \* the version of the key its enforcement Secret rests on

world   == <<kuadrant, apiKey, consumer>>
caches  == <<keyCache, secretCache, unseen>>
call    == <<pc, listed, keyList, todo>>
history == <<approvedAt, held, basis>>
vars    == <<world, enforcement, caches, queued, call, userActions, history>>

Contents == Values \cup {NoValue}

\* A key, as far as this controller reads it, and its resource version.
KeyObjects == [phase : {"gone", "unapproved", "approved"}, version : Nat]

NoKey == [phase |-> "gone", version |-> 0]

ValueOf(c) == {c} \ {NoValue}

Init ==
  /\ kuadrant = TRUE
  /\ apiKey = [k \in Keys |-> NoKey]
  /\ consumer \in [Keys -> Contents]
  /\ enforcement = [k \in Keys |-> NoValue]
  /\ keyCache = apiKey
  /\ secretCache = [consumer |-> consumer, enforcement |-> enforcement]
  /\ unseen = FALSE
  /\ queued = FALSE
  /\ pc = "idle"
  /\ listed = {}
  /\ keyList = [k \in Keys |-> NoKey]
  /\ todo = {}
  /\ userActions = 0
  /\ approvedAt = [k \in Keys |-> {}]
  /\ held = [k \in Keys |-> ValueOf(consumer[k])]
  /\ basis = [k \in Keys |-> 0]

-----------------------------------------------------------------------------
(* Reconcile *)

SecretsSynced == secretCache = [consumer |-> consumer, enforcement |-> enforcement]

\* What a call holds in local variables goes when it returns.
NoCall ==
  /\ pc' = "idle"
  /\ listed' = {}
  /\ keyList' = [k \in Keys |-> NoKey]
  /\ todo' = {}

\* A call begins; without a Kuadrant resource it returns at once.
Start ==
  /\ pc = "idle"
  /\ queued
  /\ SecretsPrompt => SecretsSynced
  /\ queued' = FALSE
  /\ IF kuadrant
     THEN /\ pc' = "listed"
          /\ listed' = {k \in Keys : secretCache.enforcement[k] # NoValue}
     ELSE UNCHANGED <<pc, listed>>
  /\ UNCHANGED <<world, enforcement, caches, keyList, todo, userActions, history>>

\* A mutant: every key that exists gets a Secret.
MutListKeys ==
  /\ pc = "listed"
  /\ pc' = "handling"
  /\ keyList' = keyCache
  /\ todo' = {k \in Keys : keyCache[k].phase # "gone"}
  /\ UNCHANGED <<world, enforcement, caches, queued, listed, userActions, history>>

ListKeys ==
  /\ pc = "listed"
  /\ pc' = "handling"
  /\ keyList' = keyCache
  /\ todo' = {k \in Keys : keyCache[k].phase = "approved"}
  /\ UNCHANGED <<world, enforcement, caches, queued, listed, userActions, history>>

\* A mutant: it takes the whole of the Secrets for the entry.
MutDesired(k) == secretCache.consumer

\* desiredEnforcementSecret reads the consumer's Secret; with an empty name it
\* finds none.
Desired(k) == IF k \in NoSecretRefKeys THEN NoValue ELSE secretCache.consumer[k]

\* A mutant: a mutator that brings an existing Secret up to date.
MutEnsureSecret(k) ==
  /\ pc = "handling"
  /\ k \in todo
  /\ Desired(k) # NoValue
  /\ enforcement' = [enforcement EXCEPT ![k] = Desired(k)]
  /\ basis' = [basis EXCEPT ![k] = keyList[k].version]
  /\ todo' = todo \ {k}
  /\ UNCHANGED <<world, caches, queued, pc, listed, keyList, userActions, approvedAt, held>>

\* ReconcileResource with CreateOnlyMutator: create it unless the cache has it.
EnsureSecret(k) ==
  /\ pc = "handling"
  /\ k \in todo
  /\ Desired(k) # NoValue
  /\ \/ /\ secretCache.enforcement[k] # NoValue
        /\ UNCHANGED <<enforcement, basis>>
     \/ /\ secretCache.enforcement[k] = NoValue
        /\ enforcement[k] = NoValue
        /\ enforcement' = [enforcement EXCEPT ![k] = Desired(k)]
        /\ basis' = [basis EXCEPT ![k] = keyList[k].version]
  /\ todo' = todo \ {k}
  /\ UNCHANGED <<world, caches, queued, pc, listed, keyList, userActions, approvedAt, held>>

\* A mutant: the error is swallowed.
MutGiveUp ==
  /\ NoCall
  /\ UNCHANGED <<queued, world, enforcement, caches, history>>

\* The call returns an error: its request goes back to the queue.
GiveUp ==
  /\ NoCall
  /\ queued' = TRUE
  /\ UNCHANGED <<world, enforcement, caches, history>>

\* There is nothing to copy, or Create finds a Secret the cache does not have.
FailOn(k) ==
  /\ pc = "handling"
  /\ k \in todo
  /\ \/ Desired(k) = NoValue
     \/ secretCache.enforcement[k] = NoValue /\ enforcement[k] # NoValue
  /\ GiveUp
  /\ UNCHANGED userActions

\* Mutants: only deleted keys are orphans; a key without a value is one, too.
MutOnlyGoneKeys(k) == keyList[k].phase # "gone"
MutUsableSecretsOnly(k) == keyList[k].phase = "approved" /\ secretCache.consumer[k] # NoValue

HasApprovedKey(k) == keyList[k].phase = "approved"

\* Only after every approved key was handled.  That the Secret is already gone
\* is not an error.
DeleteOrphan(k) ==
  /\ pc = "handling"
  /\ todo = {}
  /\ k \in listed
  /\ ~HasApprovedKey(k)
  /\ enforcement' = [enforcement EXCEPT ![k] = NoValue]
  /\ listed' = listed \ {k}
  /\ UNCHANGED <<world, caches, queued, pc, keyList, todo, userActions, history>>

Return ==
  /\ pc = "handling"
  /\ todo = {}
  /\ \A k \in listed : HasApprovedKey(k)
  /\ NoCall
  /\ UNCHANGED <<world, enforcement, caches, queued, userActions, history>>

-----------------------------------------------------------------------------
(* Informers *)

\* A mutant: the controller does not watch keys.
MutSyncKeys ==
  /\ unseen
  /\ keyCache' = apiKey
  /\ unseen' = FALSE
  /\ UNCHANGED <<world, enforcement, secretCache, queued, call, userActions, history>>

SyncKeys ==
  /\ unseen
  /\ keyCache' = apiKey
  /\ unseen' = FALSE
  /\ queued' = TRUE
  /\ UNCHANGED <<world, enforcement, secretCache, call, userActions, history>>

\* The controller does not watch Secrets: nothing is queued.
SyncSecrets ==
  /\ ~SecretsSynced
  /\ secretCache' = [consumer |-> consumer, enforcement |-> enforcement]
  /\ UNCHANGED <<world, enforcement, keyCache, unseen, queued, call, userActions, history>>

-----------------------------------------------------------------------------
(* Everybody else *)

UserAction(name) ==
  /\ name \in UserActions
  /\ userActions < MaxUserActions
  /\ userActions' = userActions + 1

PutKey(k, phase) ==
  LET n == apiKey[k].version + 1
  IN  /\ apiKey' = [apiKey EXCEPT ![k] = [phase |-> phase, version |-> n]]
      /\ approvedAt' = IF phase = "approved"
                       THEN [approvedAt EXCEPT ![k] = @ \cup {n}]
                       ELSE approvedAt
      /\ unseen' = TRUE

\* A consumer creates or deletes a key, or apikey-status approves it or ends
\* its approval; an approved key may also be written and stay approved.
ChangeKey(k) ==
  /\ UserAction("ChangeKey")
  /\ \E phase \in {"gone", "unapproved", "approved"} :
       /\ apiKey[k].phase = "gone" => phase = "unapproved"
       /\ PutKey(k, phase)
  /\ UNCHANGED <<kuadrant, consumer, enforcement, keyCache, secretCache, queued, call, held, basis>>

\* apikey-status sets Failed on an approved key without a usable Secret, unless
\* the key names no Secret.
FailKey(k) ==
  /\ apiKey[k].phase = "approved"
  /\ k \notin NoSecretRefKeys
  /\ consumer[k] = NoValue
  /\ PutKey(k, "unapproved")
  /\ UNCHANGED <<kuadrant, consumer, enforcement, keyCache, secretCache, queued, call,
                 userActions, held, basis>>

\* The consumer creates, changes or deletes the Secret.
ChangeConsumer(k) ==
  /\ UserAction("ChangeConsumer")
  /\ \E c \in Contents \ {consumer[k]} :
       /\ consumer' = [consumer EXCEPT ![k] = c]
       /\ held' = [held EXCEPT ![k] = @ \cup ValueOf(c)]
  /\ UNCHANGED <<kuadrant, apiKey, enforcement, caches, queued, call, approvedAt, basis>>

ToggleKuadrant ==
  /\ UserAction("ToggleKuadrant")
  /\ kuadrant' = ~kuadrant
  /\ UNCHANGED <<apiKey, consumer, enforcement, caches, queued, call, history>>

\* A request to the API server fails, and so does the call.
Error ==
  /\ UserAction("Error")
  /\ pc # "idle"
  /\ GiveUp

\* A new manager process fills its caches and has an event for every key.
Restart ==
  /\ UserAction("Restart")
  /\ NoCall
  /\ keyCache' = apiKey
  /\ secretCache' = [consumer |-> consumer, enforcement |-> enforcement]
  /\ unseen' = FALSE
  /\ queued' = TRUE
  /\ UNCHANGED <<world, enforcement, history>>

-----------------------------------------------------------------------------
Reconcile ==
  \/ Start
  \/ ListKeys
  \/ \E k \in Keys : EnsureSecret(k) \/ FailOn(k) \/ DeleteOrphan(k)
  \/ Return

Environment ==
  \/ \E k \in Keys : ChangeKey(k) \/ FailKey(k) \/ ChangeConsumer(k)
  \/ ToggleKuadrant
  \/ Error
  \/ Restart

Next == Reconcile \/ SyncKeys \/ SyncSecrets \/ Environment

\* The work queue is served, informers deliver, and apikey-status does its work.
Fairness ==
  /\ WF_vars(Reconcile)
  /\ WF_vars(SyncKeys)
  /\ WF_vars(SyncSecrets)
  /\ \A k \in Keys : WF_vars(FailKey(k))

Spec == Init /\ [][Next]_vars

FairSpec == Spec /\ Fairness

-----------------------------------------------------------------------------
(* Properties *)

\* Every variable keeps its type.
TypeOK ==
  /\ kuadrant \in BOOLEAN
  /\ apiKey \in [Keys -> KeyObjects]
  /\ consumer \in [Keys -> Contents]
  /\ enforcement \in [Keys -> Contents]
  /\ keyCache \in [Keys -> KeyObjects]
  /\ secretCache \in [consumer : [Keys -> Contents], enforcement : [Keys -> Contents]]
  /\ unseen \in BOOLEAN
  /\ queued \in BOOLEAN
  /\ pc \in {"idle", "listed", "handling"}
  /\ listed \in SUBSET Keys
  /\ keyList \in [Keys -> KeyObjects]
  /\ todo \in SUBSET Keys
  /\ userActions \in 0 .. MaxUserActions
  /\ approvedAt \in [Keys -> SUBSET Nat]
  /\ held \in [Keys -> SUBSET Values]
  /\ basis \in [Keys -> Nat]

\* Nobody gets access without an approval: however stale the lists a call works
\* from, an enforcement Secret rests on a version of its key that was approved,
\* and carries a value that the consumer's Secret of that same key has held.
SecretsRestOnApproval ==
  \A k \in Keys : enforcement[k] # NoValue =>
    /\ basis[k] \in approvedAt[k]
    /\ enforcement[k] \in held[k]

\* A key that stays approved is never cut off: the clean-up takes an enforcement
\* Secret away only if its key has changed since the version the Secret rests on.
WithdrawnOnlyAfterChange ==
  [][\A k \in Keys : enforcement[k] # NoValue /\ enforcement'[k] = NoValue
                       => basis[k] < apiKey[k].version]_vars

Grants == INSTANCE AccessGrants
            WITH version <- [k \in Keys |-> apiKey[k].version], grant <- enforcement

\* The controller is an implementation of AccessGrants.
ImplementsGrants == Grants!Spec

AtRest == pc = "idle" /\ ~queued /\ ~unseen /\ SecretsSynced

Approved(k) == apiKey[k].phase = "approved"

\* What the guide shows after a revocation: when the controller has come to
\* rest, a key that is not approved has no enforcement Secret.
RevokedKeysHaveNoSecret ==
  AtRest => \A k \in Keys : ~Approved(k) => enforcement[k] = NoValue

\* What the guide shows after an approval: when the controller has come to rest,
\* an approved key has its enforcement Secret.
ApprovedKeysHaveSecret ==
  AtRest => \A k \in Keys : Approved(k) => enforcement[k] # NoValue

\* The API owner can revoke access at any time, whatever the other keys are
\* like: a key that is not approved loses its enforcement Secret.
RevokedKeysLoseSecret ==
  \A k \in Keys : ~Approved(k) ~> (enforcement[k] = NoValue \/ Approved(k))
=============================================================================
