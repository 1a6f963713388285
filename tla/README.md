# Developer portal controller: specifications and proofs

TLA+ models of the controllers in `internal/controller`, model-checked with TLC
on small instances, and theorems about them checked by TLAPS for all values of
the constants.  `PROJECT.json` holds the machine-readable side: components,
runs, the source lines each definition models, mutants, findings, hazards and
theorems.

## 1. The system

The program is a Kubernetes controller manager.  Its state lives in the API
server; controllers never call each other.  They communicate only by writing
resources, and are started by watch events.

| Component | Resources: reads → writes | Started by events of |
|---|---|---|
| `apikey-status` | APIKey, APIKeyApproval, APIProduct, Secret, Kuadrant, HTTPRoute → APIKey status | APIKey, APIProduct, APIKeyRequest, APIKeyApproval, HTTPRoute, Secret |
| `apikeyrequest` | APIKey, APIKeyRequest → APIKeyRequest | APIProduct, APIKey, APIKeyRequest |
| `apikeyrequeststatus` | APIKey, APIKeyRequest → APIKeyRequest status | APIProduct, APIKey |
| `apikeyapproval-status` | APIKeyApproval, APIKeyRequest → APIKeyApproval status | APIKeyApproval, APIKeyRequest |
| `apikeyapproval` | APIKeyApproval, APIKeyRequest → owner of APIKeyApproval | APIKeyApproval, APIKeyRequest |
| `apikeyrequest-autoapproval` | APIKeyRequest, APIProduct, APIKeyApproval → APIKeyApproval | APIKeyRequest (one call per request) |
| `apikey-secret` | Kuadrant, Secret, APIKey → enforcement Secret | APIKey |
| `apiproduct` (+ OIDC client) | APIProduct, HTTPRoute, AuthPolicy, PlanPolicy, HTTP → APIProduct status | APIProduct, PlanPolicy, AuthPolicy, HTTPRoute |
| `internal/reconcilers` | create, update or delete one resource | – |

The way of a key: a consumer creates an **APIKey**; `apikeyrequest` creates its
shadow, the **APIKeyRequest**, beside the product; the owner (or
`apikeyrequest-autoapproval`, for automatic products) creates an
**APIKeyApproval** that names the request; `apikeyapproval-status` marks it
Valid and `apikeyapproval` makes the request its owner, so that Kubernetes
deletes both together; `apikey-status` turns all that into exactly one of the
conditions Pending, Approved, Denied, Expired and Failed of the key;
`apikeyrequeststatus` copies the conditions to the request; and `apikey-secret`
creates the **enforcement Secret** of every approved key, by which the gateway
accepts it, and deletes all the others.

What makes this hard:

* every read comes from an informer cache that lags behind the API server, and
  each kind lags on its own;
* all events of the watched kinds collapse into one request of a controller's
  work queue: an event that is missed, or a kind that is not watched, is a
  wake-up that never comes;
* a call handles a whole list and stops at the first error, after it has
  already written some of it;
* expiry is not an event at all: it needs a timer, and the timer is lost when
  the process restarts or a call fails;
* requests are deleted and created again under the same name, while approvals
  of the earlier one still exist and the garbage collector is on its way;
* owners and the auto-approval controller decide at the same time;
* the status of a product is put together from seven reads of the cache, one
  or two HTTP requests that may take a minute, and what the status was before;
  the status of a key is put together from that.

What makes each component correct:

* **conditions** – one state at a time; the state at rest is the one that the
  key's product, Secret, approval and expiry call for;
* **requests** – at rest exactly the live keys that have not failed have one;
* **approvals** – at rest they belong to the request that exists and are valid
  exactly if there is one;
* **auto-approval** – every request of an automatic product gets an approval;
* **enforcement** – no Secret without an approval; no key that stays approved
  loses it; a revoked key does lose it;
* **products** – at rest the status shows the most specific policies and the
  route as they are, and an answer for the present OpenAPI URL and size limit; no
  answer is published for an earlier spec; no token endpoint beside the scheme of
  another issuer; no answer is fetched for ever, unless it is an error worded
  differently each time;
* **offers** – at rest a key shows the authentication, the limits and the host
  name that its product's policies and route give it;
* **all together** – left alone the controllers come to rest, a denial and an
  expiry take effect.

## 2. Modules

| Module | Models |
|---|---|
| `KeyConditions` | `calculateStatusConditions` and `calculateFailedCondition` as pure operators |
| `ApprovalWorkflow` | the six controllers of the workflow, their caches, work queues and timers, the garbage collector, users, restarts |
| `MCApprovalWorkflow` | its small instances |
| `KeyLifecycle` | abstract: what readers of a key may rely on, whatever happens behind it |
| `ApprovalWorkflowProofs` | theorems about `ApprovalWorkflow`: types, one state at a time |
| `ApprovalsAtRestProofs` | what it leaves behind when it has come to rest, and that no approval loses its request for good |
| `KeyLifecycleProofs` | the refinement of `KeyLifecycle` |
| `AccessGrants` | abstract: what enforcement promises, without caches, queues or calls |
| `EnforcementSecrets` | the `apikey-secret` controller, each call as a sequence of steps |
| `MCEnforcementSecrets` | its small instances |
| `EnforcementSecretsProofs` | theorems about it, the refinement of `AccessGrants` among them |
| `PolicyDiscovery` | the search for the policy of a route, and what it is for |
| `DocumentPublication` | abstract: what the controller promises of OpenAPI documents |
| `APIProductStatus` | the `apiproduct` controller, each call as a sequence of steps |
| `MCAPIProductStatus` | its small instance |
| `APIProductStatusProofs` | theorems about it, the refinement of `DocumentPublication` among them |
| `KeyOffers` | `apiproduct` and `apikey-status` together: the part of a key's status that is read from its product |
| `MCKeyOffers` | its small instance |
| `KeyOffersProofs` | theorems about it, the behaviours of `APIProductStatus` kept among them |

### ApprovalWorkflow

| State | In the program |
|---|---|
| `apiKey`, `request`, `approval` | the objects in the API server |
| `cache`, `stale` | what the informers hold, and the objects changed since; an update of a stale object is the conflict the API server answers |
| `queue`, `autoQueue` | which work queues hold a request |
| `timer`, `expired` | `RequeueAfter` of `apikey-status`, and the passage of `expiresAt` |
| `kuadrant`, `product`, `secret` | what `calculateFailedCondition` reads |
| `created` | source of UIDs, so that a recreated request is another one |
| `owning`, `outdated` | the call of `apikeyapproval`: for each approval it has still to write, the UID of the request that was listed; and those that were written by others since |

`Reconcile…` is a call of Reconcile that succeeds: it reads the caches, performs
all its writes and leaves the queue.  `Fail…` is a call that stops at a
conflict or another error: it performs some of the writes and stays queued.
(A failing call that writes nothing changes nothing.)  `Sync…` is an informer
that catches up with its kind and starts exactly the controllers that watch it.

The calls of five of the controllers are one step each.  The code lists what it works on at
the start, reads single objects inside its loop (the product, the consumer Secret, the
Kuadrant resource, the request that is about to be created or deleted) and writes one object
after the other.  What others do between two writes can also happen after a `Fail…` that
performed the writes before.  What informers deliver between a list and a write is an event
that queues the controller again, and a status is refused unless its object is the one that
was listed; so neither the properties at rest nor those of keys and requests can tell.

An Update by `apikeyapproval` is different: it is guarded by the version of the approval and
carries the UID of a request, which may have been deleted and created again since it was
listed.  Its calls are therefore a sequence of steps: `StartOwning` lists approvals and
requests and settles what is to be written, `OwnApproval(a)` is one Update, `OwnerConflict(a)`
an Update that is refused, and `FailApproval` any other error.  (The two lists are one step: an
approval that changes between them is refused as well.)  Users, informers, the collector,
restarts and the other controllers act between any two steps.

Abstractions: one product and namespace; messages, generations and time stamps
of conditions are left out; the other fields of statuses and specs are, too
(so the update branch of `apiKeyRequestSpecMutator` is not there); an approval
is either the controller's or the owner's, one each; the informers of Secret,
APIProduct and Kuadrant are prompt; a kind's informer catches up with all of its
objects at once; a restarted process reads the current state; the resync that
controller-runtime does every ten hours is not modelled, because it repairs
everything within half a day and hides the lost wake-ups.

`KeyLifecycle` is the abstract specification: of a key it has whether it exists, the
conditions it lists and whether it has expired.  A key starts without a condition, shows
one state at a time from its first status on, keeps it while it is being deleted, and is
not Approved anew after its expiry.  `ApprovalWorkflow!Lifecycle` maps the object in the
API server to it; requests, approvals, caches, queues and timers are hidden, and a call
that writes to several keys is one `Change`.  Time is the clock as the calls read it: once per
call, before the writes (nothing else reads `expiresAt`).  `EnforcementSecrets` starts from what
`KeyLifecycle` promises: the keys its environment creates, also under the name of an approved
one, are not approved.

### EnforcementSecrets

`Start` → `ListKeys` → `EnsureSecret(k)` for each approved key → `DeleteOrphan(k)`
for each listed Secret without one → `Return`; `FailOn` and `Error` end a call
early and queue it again.  Users, informers and restarts act between any two
steps.  `listed`, `keyList` and `todo` are the local variables of the call.
`approvedAt`, `held` and `basis` are history variables: no guard reads them.
`SecretsPrompt` chooses the assumption about the Secret informer: FALSE is what
the code can rely on; TRUE says that a call starts only once it has caught up.
Label selectors, annotations and the name of the Kuadrant namespace are not
modelled.

`AccessGrants` is the abstract specification: a grant rests on a version of the
key that was approved, is never altered, and is withdrawn only after the key
changed.  `EnforcementSecrets!Grants` instantiates it with the mapping
version ↦ the resource version of the key, grant ↦ its enforcement Secret.

### PolicyDiscovery and APIProductStatus

`FindPolicy` is the search as the code makes it (first a policy of the route, then
one of a Gateway in its `parentRefs`) over a list in any order: it returns the set
of everything the code may answer.  `IsEffective` says what is looked for without
an order of steps; the properties speak of `IsEffective` and the controller of
`FindPolicy`.

One call of Reconcile is `Start` (lists PlanPolicies) → `ListAuthPolicies` →
`ListProducts` → for each product, in any order, `DiscoverPlans` →
`PlanPolicyDiscoveredCondition` → `DiscoverAuthPolicy` → `DiscoverReadiness` →
`WriteStatus`, and then `Return`.  The four steps in the middle each read the route;
two of them may do an HTTP request, which succeeds or fails.

| State | In the program |
|---|---|
| `product` | the APIProducts in the API server: phase, generation, `openAPISpecURL`, status |
| `cache`, `stale` | what the informer holds, and what was changed since |
| `route`, `authPolicy`, `planPolicy` | what the informers hold; the controller never writes them |
| `limit` | `OpenAPISpecMaxSize`, which `main` reads from the environment |
| `queued` | whether the work queue holds the one request |
| `planList`, `authList`, `listed`, `todo`, `current`, `draft` | local variables of the call; `draft` is `newStatus` |
| `outdated` | the listed products that were written since they were read: an update of one of them is a conflict |

Abstractions.  A condition is its reason and the policy or issuer its message names;
all failures to fetch a document are one, because none is repeated; of a failed
discovery the text of the error is kept (`FetchErrors`), because it is in the message of
the condition and a status is written when that differs; a token endpoint is named by the issuer it was
fetched from; a document is the URL it was fetched from, and is as large as
`DocumentSize` says, at every fetch; of `lastSyncTime` it is kept that two
fetches in a row have different ones, because that makes the status differ.
`SetStatusCondition` keeps the transition time, so that equal conditions are equal
statuses.  A product targets one route for good.  A conflict asks for a new call,
any other error of the API server (`Error`) is retried.

`DocumentPublication` has a wish (generation, URL), a published answer and the limit,
and four actions.  `APIProductStatus!Publication` maps the objects in the API server to
it; a write of the status is `Publish`, everything inside a call is a stutter.

### KeyOffers

Extends `APIProductStatus` with the calls of `apikey-status`: `CalculateAuthScheme(k)` →
`CalculatePlanLimits` → `APIHostName` → `WriteOffer`, each with its own read of the
product from the same informer.  `OthersStep` is a step of the product side that
starts `apikey-status` if it changes something that controller watches;
`RestartManager` restarts both, since they live in one process.  The conditions of
keys are computed in the same calls from other inputs and are in
`ApprovalWorkflow`; only the fields `authScheme`, `limits` and `apiHostname` are
here.

## 3. Runs

Bounds: `MaxUserActions` is the number of steps users, operators and faults
take; the controllers, informers and the garbage collector are not bounded.
All runs say `CHECK_DEADLOCK FALSE`: once users are done and the controllers have
come to rest, the system rightly stops.

| Run | Question | Instance |
|---|---|---|
| `workflow_manual` | types; `RequestsShadowKeys`; `ApprovalsFollowRequests`; `LostOwnersAreReplaced`; `ImplementsLifecycle` | one key, 4 actions: create, decide, delete in both ways, withdraw, restart, also between two steps of `apikeyapproval`. Four is what it takes to create, decide, delete and recreate, which the last three properties need |
| `workflow_two_keys` | `RequestsShadowKeys` when calls stop between keys | two keys, 3 actions: create, Secrets, Kuadrant, restart |
| `workflow_failures` | `DecisionReachesKey`; `ExclusiveConditions` | one key, three products (automatic; manual without a scheme; none), 3 actions |
| `workflow_liveness` | `DecisionReachesKey` and `ImplementsLifecycle` where time passes; `ControllersComeToRest`, `RevocationTakesEffect`, `ExpiryTakesEffect` | one key that expires, one reviewer, 3 actions: create, approve, deny |
| `secrets_safety` | types; `SecretsRestOnApproval`; `WithdrawnOnlyAfterChange`; `ImplementsGrants` | two keys, two values, lagging caches, errors, restarts, 4 actions |
| `secrets_at_rest` | `RevokedKeysHaveNoSecret`, `ApprovedKeysHaveSecret`, `RevokedKeysLoseSecret` | two keys, prompt Secret cache, every key names a Secret, 4 actions: three bring a key to approved and back, the fourth is an error, a restart, or the other key's |
| `product_status` | types; `TokenEndpointOfIssuer`, `StatusShowsPolicies`, `DocumentIsCurrent`, `ImplementsPublication`, `ControllerComesToRest` | one product, a route with two states, AuthPolicies of the route and of its Gateway in another namespace, a PlanPolicy of the Gateway beside the route, two issuers that may fail in two wordings, two documents, two limits with the larger document exactly as large as the larger one, 2 actions of every kind |
| `key_offers` | `OffersReachKeys`, `ControllersComeToRest` | one key of one product, a scheme with two methods, two plan lists, two host names, an issuer that fails in two wordings, 1 action between any two steps of both controllers |
| `request_not_approved` | README: automatic products approve requests | violated, see below |
| `status_flaps` | do controllers come to rest with two reviewers? | violated |
| `secret_left_behind` | guide: the Secret is removed after a revocation | violated |
| `revocation_blocked` | guide: access can be revoked at any time | violated |

`RequestsShadowKeys` and the other properties "at rest" say that the watches
suffice: whatever happened, when no queue holds a request and no informer is
behind, the objects are as they should be.  A lost wake-up violates them.

Why the bounds of `product_status` are enough: the interesting cases need one or two
steps of others at chosen places of a call, with fetches that may fail at every call
for free.  Two actions suffice to edit during a fetch and again before the
write, to replace the policy by one of another issuer with a state that is not
ready in between, to delete and create again under the same name, to restart with another limit
and then edit.  Every listed mutant needs no more.  That several products share a
call does not add cases to the safety properties, which are proved for any
number of products; what it could add to `ControllerComesToRest` is not checked.
What the instances leave out on purpose: schemes with two issuers or two API key
methods, and two equally specific policies (see below).

Fairness.  Each work queue is served and a failed call is retried with back-off,
so that every successful `Reconcile…` is weakly fair: the conflict that keeps it
from succeeding ends when the informer delivers, which is weakly fair as well, and so is
the garbage collector.  The Updates of `apikeyapproval` are strongly fair: other writers of
approvals may get ahead of one again and again, but not always.  No fairness is assumed of `Fail…`, of users, of the
passage of time or of the end of a foreground deletion.  In
`EnforcementSecrets` the next step of the call is weakly fair, the informers are,
and so is `FailKey`, because `apikey-status` watches Secrets.
In `APIProductStatus` and `KeyOffers` the next step of each call is weakly fair and the informers
are.  Nothing is assumed of the outcome of a fetch: an issuer or a document server
may fail for ever.  If an issuer does, and words its errors differently again and again
(`ErrorReworded`), the code writes and fetches for ever, and `ControllerComesToRest` and
`ControllersComeToRest` say nothing; they promise rest in every other case.

### What the violated runs show

* **`request_not_approved`** – `apikeyrequeststatus` does not watch the requests it
  writes.  If the key's last event is handled before the request is in the
  cache, the request never shows Pending, and auto-approval, which asks for
  Pending (although the comment above says it goes on without a status), never
  approves it.
* **`status_flaps`** – `findAPIKeyApproval` takes the first approval of a list in
  arbitrary order.  With a denial of the owner's beside the automatic approval, each
  call may decide differently, and its write starts the next one.  The other
  runs leave two contradicting approvals out: the liveness run has one reviewer, and
  `DecisionReachesKey` speaks of keys whose approvals agree.
* **`secret_left_behind`** – `apikey-secret` watches keys only.  If a key is
  revoked before the informer has delivered the Secret just created, the clean-up
  does not see it and nothing starts another call.  `ApprovedKeysHaveSecret` fails
  the same way, with a Secret the cache still has but which is already deleted: with
  `SecretsPrompt` FALSE TLC finds that too, and `secrets_at_rest`, which checks the
  property, says nothing of that case.
* **`revocation_blocked`** – a call returns at the first approved key it cannot
  serve, before the clean-up.  A key with an empty `secretRef.name` (the default
  of the CRD) skips the checks of `apikey-status`, is approved, and makes every
  call fail from then on.

### Divergences without a run of their own

* **Order of a map.**  `extractIssuerURLFromAuthScheme` and `calculateAuthScheme` take
  the first entry of a Go map.  With two issuers in one scheme the message of
  `OIDCDiscovered` changes from call to call, each write starts the next call, and
  a policy that loses one of two issuers may keep the endpoint of the one it lost,
  because "the issuer has not changed" compares two independent draws.  With
  `AuthStates` that have such a scheme TLC finds `ControllerComesToRest` and
  `TokenEndpointOfIssuer` violated.  Two API key methods do the same to keys.
* **Order of a list.**  Two policies of one route are found in the cache's order.
* **Endpoint without a scheme.**  `oidcDiscovery` is documented as "when JWT auth is
  configured" (`api/v1alpha1/apiproduct_types.go`); the code keeps it while there is no
  scheme, also when the policy was deleted.  The comment in `oidcDiscoveryStatus`
  gives the reason, a policy that is not ready for a while; `TokenEndpointOfIssuer`
  therefore speaks of products with a scheme.
* **No second try, or no end of them.**  A failed fetch of the document is the answer for its
  generation (which `DocumentPublication` states).  A failed discovery is repeated in
  every call, and nothing but an event starts a call; but the message of `OIDCDiscovered`
  quotes the error (`oidcDiscoveredCondition`), and its own write is an event.  An error that
  reads the same each time is not asked about again; an error that names another port or
  status code each time is written and fetched without a pause for as long as the issuer
  fails: with two wordings TLC finds `<>[]AtRest` violated.  No document says that it should
  not, so that it is stated in `ControllerComesToRest` and not a violated run.
* **An approval that follows the wrong request.**  `apikeyapproval` may give an approval to a
  request that was replaced after it was listed.  The new request's event makes the
  controller handle the approval again (`LostOwnersAreReplaced`), but until then its owner is
  gone, and a quick collector deletes a decision whose request is there.  An owner then has to
  decide again; at rest everything is consistent.

## 4. Proofs

What is proved holds for any keys, products, values and numbers of actions.

**EnforcementSecretsProofs.**  Assumptions: the named assumptions on the
constants.  `SecretsRestOnApproval` is not inductive: the controller works from
a copy of a copy of the keys.  `IndInv` adds that the cached keys and the listed
keys were versions of the key that are recorded in `approvedAt` if they are
approved (`VersionsTruthful`) and not later than the key itself (`VersionsOrdered`);
that the basis of a Secret is a version the list had reached or the key has
(`BasisReached`); that values in the API server and in the cache were held
(`ValuesHeld`); and that `todo` holds approved keys only (`TodoApproved`).  From
it follow type correctness, `AccessNeedsApproval`, `ApprovedKeysKeepAccess` (an
action property: at `DeleteOrphan` the listed version is not approved, hence not
the basis, hence the key has changed) and `EnforcementImplementsGrants` (each step
is a step of `AccessGrants` or a stutter).  `IndInv` was model-checked before.

Two theorems are about the controller at rest, `RevokedKeysLoseAccess` and
`ApprovedKeysGetAccess`.  Their hypothesis, `SettledCluster`, is that a call starts only
once the Secret cache has caught up and that the Kuadrant resource stays.  Both halves
are needed: `secret_left_behind` violates the first property without the first
half, and without a Kuadrant resource a call returns before it does anything.
`RestInv` says: what the call has not handled yet is known as it is (`CallKnowsSecrets`);
what it has handled is as its list of keys calls for (`CallHandled`); and unless an
event is on its way or the controller is queued, that list is current and an idle
controller has finished (`NothingMissed`).  A call that is cut short, by an error, a
restart or a key it cannot serve, is queued again, so that nothing is claimed of it.

**ApprovalWorkflowProofs.**  `TypeCorrect` for every action, by lemmas on what
each kind of write preserves.  `OneStateAtATime`: conditions travel from
`apikey-status` to the key, to the cache, and by `apikeyrequeststatus` to the request;
the inductive invariant therefore says of the cached keys what the property
says of keys and requests.  The lemma `CalculatedConditions` shows that every
branch of `calculateStatusConditions` removes all that its state excludes,
whatever the key showed before.

**ApprovalsAtRestProofs.**  The properties at rest say that no wake-up is lost, and the
invariant says why, at any time and not only at rest.  `StoreInv`: a copy that is not
flagged is the object (`Fresh`) and an object that is gone leaves nothing behind
(`GoneObjects`).  `HandledInv` adds for three controllers: unless it is queued, what it would
create, delete, own or validate is among the objects whose change is still to be delivered,
and the informer that delivers queues it; for `apikeyapproval`, or it is among those a running
call has still to write (`ApprovalsOwned`).  A write only moves an approval from the latter to the
former, whichever request it names (`Grows`).  A call that succeeds does all of it; a call that
fails stays queued.  `StatusInv` says the same of `apikey-status`, whose work is not a set of
objects but a comparison: unless it is queued, an undelivered key aside, each live key shows
a status that may be computed from the caches as they are (`StatusComputed`), and each live key that will
expire has a timer (`TimersSet`).  From these follow

* `RequestsShadowKeysAtRest` and `ApprovalsFollowRequestsAtRest`, without hypotheses;
* `DecisionReachesKeyAtRest`, under the hypothesis `KuadrantStays` (nobody toggles the
  Kuadrant resource; it may be there or not).  `apikey-status` reads that resource and does
  not watch it, so that without the hypothesis the property is false;
* `LostOwnersAreAlwaysReplaced`, from `ApprovalsOwned` and `Fresh`, at any time and not only at
  rest: an approval whose owner is gone although its request exists differs from what the
  caches show or is what `apikeyapproval` would write.

Every part was model-checked on the instances of `workflow_manual`, `workflow_failures` and
`workflow_liveness` before it was proved.

**KeyLifecycleProofs.**  `WorkflowImplementsLifecycle`: every step of the workflow is a
`Change` or `Expire` of `KeyLifecycle`, or a stutter.  It needs `Fresh`: the API server
accepts a status for an unchanged key only, so that the key it was computed for (live in
the cache) is the key that gets it, and `CalculatedConditions`, of which the lemmas
`OneConditionLeft` and `OnlyConditionListed` say that one condition is left, the one of the
state.  With the resource version ignored (the mutant of this property) a status reaches the
key's successor.

**APIProductStatusProofs.**  Assumptions: the named assumptions on the constants.
None of the properties is inductive, since a status is computed from copies
and written later.  `IndInv` says: an unflagged copy, cached or listed, is the object
(`CopiesFresh`), so that a write without a conflict was computed from the present
object; objects are whole (`ObjectsWhole`) and only live ones are handled
(`ListedLive`); an answer for the present generation fits the spec and the limit it
was fetched with, in all three copies (`AnswersFit`); and what is about to be written
answers for the object that was listed (`DraftAnswers`).  On it rest

* `ControllerImplementsPublication`: a successful write is `Publish` (lemma
  `WriteStatusPublishes`, by the cases of `openAPIStatus`), every other step another
  action or a stutter;
* `EndpointsBelongToIssuers`, under the hypothesis `SingleIssuer` (no scheme has two
  issuers), by `EndpointsFit`: the endpoint in a published, cached or listed status or in the draft
  belongs to the scheme beside it.  The hypothesis is needed, see above;
* `StatusShowsPoliciesAtRest` and `DocumentsAnsweredAtRest`, by `QuietInv`: unless the
  controller is queued again, its lists are current, what it has computed shows what there
  is, and every product is changed and undelivered, still to be handled by this
  call, or settled.  The lemma `FindEffective` proves the search of
  `PolicyDiscovery` against `IsEffective` for all policies and routes.

These three hold for any number of products and policies, equally specific ones included.
All named parts were model-checked on the instance of `product_status` first.

**KeyOffersProofs.**  `CompositionImplementsController`: `ComposedSpec => Spec`, because
`apikey-status` reads products and routes and writes neither; all theorems of
`APIProductStatusProofs` hold in the composition.  (The fairness of the composition is
not part of `Spec`.)  On it rests `OffersReachKeysAtRest`, through two statuses: `OfferInv`
says that unless `apikey-status` is queued, its list of keys is what the cache holds, each
part of its draft is computed from what the informers hold now, and every key has an
undelivered change, is still to be handled, or shows exactly that.  A step that changes
what the informers hold queues the controller (lemma `QuietStep`; with routes not
watched, the mutant, it does not).  At rest the informers hold the products as they
are (`CopiesFresh`), and `QuietInv` says what those show.  Both hold for keys of any number of
products, several API key methods and equally specific policies included: *if* the two controllers
come to rest (with such methods they need not), it is with the right offers.
`OfferInv` was model-checked on the instance of `key_offers` first.

Model-checked only: everything under fairness (`ControllersComeToRest` of both systems,
`ControllerComesToRest`, `RevocationTakesEffect`, `ExpiryTakesEffect`,
`RevokedKeysLoseSecret`), which is out of the prover's reach.  Every invariant and action
property that a passing run checks is also a theorem, four of them under the hypothesis that
is named above (`SettledCluster`, `SingleIssuer`, `KuadrantStays`).

## 5. Plan

Done: the workflow and the enforcement of its decisions, the discovery that feeds
them, and how it reaches keys.  In this order:

1. Proofs: an abstract specification of approvals and their requests (one decision
   belongs to one request), as `KeyLifecycle` is one of keys; the environment of
   `EnforcementSecrets` as an abstraction of `KeyLifecycle`, so that what both prove can be put
   together.
2. `ApprovalLifecycle`: approvals that are pointed at another request
   (`AlreadyOwnedError` stops the loop), several owner approvals, requests in two
   namespaces when `apiProductRef.namespace` changes.
3. `EnforcementSecrets`: current values (Secrets are created and never updated),
   deletion of enforcement Secrets by hand.

Not modelled, and why:

* retargeted approvals and requests left in another namespace: `ApprovalWorkflow` has
  one namespace and one request per approval; they need another shape of state;
* the values of enforcement Secrets after their creation: the code never compares them,
  and nothing says it should;
* Kuadrant resources that come and go under a settled key: they are not watched, so
  that the runs of `DecisionReachesKey` leave them out;
* the rest of `cmd/main.go` (flags, TLS, probes, registration): start-up only; one worker per
  controller and one active manager are assumed;
* URLs, HTTP and JSON of the OIDC client and of the OpenAPI fetch: only their outcomes
  are visible to the controller;
* generated deep copies, manifests, tests, and the contents of messages, labels and names.
