---------------------- MODULE EnforcementSecretsProofs ----------------------
(***************************************************************************)
(* Theorems about EnforcementSecrets, for every set of keys and values,    *)
(* every lag of the caches and every number of user actions.               *)
(*                                                                         *)
(* The argument: the caches and the lists a call works from only hold      *)
(* versions the key once had, in order: keyList is at most keyCache, which *)
(* is at most apiKey.  Whether a key was approved is a fact about the      *)
(* version, so what a list says of a version stays true.  An enforcement   *)
(* Secret rests on an approved version that keyCache has reached; a call   *)
(* that takes the Secret away lists a version that is at least as high and *)
(* not approved, hence higher.                                             *)
(***************************************************************************)
EXTENDS EnforcementSecrets, TLAPS

\* What keys say of their versions is what happened.
VersionsTruthful ==
  \A k \in Keys :
    /\ 0 \notin approvedAt[k]
    /\ \A n \in approvedAt[k] : n <= apiKey[k].version
    /\ apiKey[k].phase = "approved" <=> apiKey[k].version \in approvedAt[k]
    /\ keyCache[k].phase = "approved" <=> keyCache[k].version \in approvedAt[k]
    /\ keyList[k].phase = "approved" <=> keyList[k].version \in approvedAt[k]

\* The list of a call lags behind the cache, and the cache behind the keys.
VersionsOrdered ==
  \A k \in Keys :
    /\ keyCache[k].version <= apiKey[k].version
    /\ keyList[k].version <= keyCache[k].version

\* An enforcement Secret rests on a version the lists have reached.
BasisReached ==
  \A k \in Keys : enforcement[k] # NoValue =>
    /\ basis[k] <= keyCache[k].version
    /\ pc = "handling" => basis[k] <= keyList[k].version

\* Values come from the consumer's Secret.
ValuesHeld ==
  \A k \in Keys :
    /\ consumer[k] # NoValue => consumer[k] \in held[k]
    /\ secretCache.consumer[k] # NoValue => secretCache.consumer[k] \in held[k]

TodoApproved == \A k \in todo : keyList[k].phase = "approved"

IndInv ==
  /\ TypeOK
  /\ VersionsTruthful
  /\ VersionsOrdered
  /\ BasisReached
  /\ ValuesHeld
  /\ TodoApproved
  /\ SecretsRestOnApproval

-----------------------------------------------------------------------------
(* Type correctness *)

LEMMA TypeInit == Init => TypeOK
<1> SUFFICES ASSUME Init PROVE TypeOK
  OBVIOUS
<1>1. NoKey \in KeyObjects
  BY DEF NoKey, KeyObjects
<1>2. held \in [Keys -> SUBSET Values]
  BY DEF Init, Contents, ValueOf
<1>3. 0 \in 0 .. MaxUserActions
  BY EnvironmentAssumption DEF EnvironmentAssumption
<1> QED BY <1>1, <1>2, <1>3 DEF Init, TypeOK, Contents

\* A key is put with a next version.
LEMMA PutKeyType ==
  ASSUME TypeOK, NEW k \in Keys, NEW phase \in {"gone", "unapproved", "approved"},
         PutKey(k, phase)
  PROVE  /\ apiKey' \in [Keys -> KeyObjects]
         /\ approvedAt' \in [Keys -> SUBSET Nat]
         /\ unseen' \in BOOLEAN
<1> DEFINE n == apiKey[k].version + 1
<1>1. n \in Nat
  BY DEF TypeOK, KeyObjects
<1>2. [phase |-> phase, version |-> n] \in KeyObjects
  BY <1>1 DEF KeyObjects
<1>3. apiKey' \in [Keys -> KeyObjects]
  BY <1>2 DEF PutKey, TypeOK
<1>4. approvedAt' \in [Keys -> SUBSET Nat]
  BY <1>1 DEF PutKey, TypeOK
<1> QED BY <1>3, <1>4 DEF PutKey

LEMMA TypeNext == TypeOK /\ [Next]_vars => TypeOK'
<1> SUFFICES ASSUME TypeOK, [Next]_vars PROVE TypeOK'
  OBVIOUS
<1> USE DEF TypeOK, world, caches, call, history
<1>1. CASE Start
  BY <1>1 DEF Start
<1>2. CASE ListKeys
  BY <1>2 DEF ListKeys
<1>3. ASSUME NEW k \in Keys, EnsureSecret(k) PROVE TypeOK'
  <2>1. Desired(k) \in Contents
    BY DEF Desired, Contents
  <2>2. keyList[k].version \in Nat
    BY DEF KeyObjects
  <2> QED BY <1>3, <2>1, <2>2 DEF EnsureSecret
<1>4. ASSUME NoCall PROVE pc' = "idle" /\ listed' = {} /\ todo' = {} /\ keyList' \in [Keys -> KeyObjects]
  BY <1>4 DEF NoCall, NoKey, KeyObjects
<1>5. ASSUME NEW k \in Keys, FailOn(k) PROVE TypeOK'
  BY <1>4, <1>5 DEF FailOn, GiveUp
<1>6. ASSUME NEW k \in Keys, DeleteOrphan(k) PROVE TypeOK'
  BY <1>6 DEF DeleteOrphan, Contents
<1>7. CASE Return
  BY <1>4, <1>7 DEF Return
<1>8. CASE SyncKeys
  BY <1>8 DEF SyncKeys
<1>9. CASE SyncSecrets
  BY <1>9 DEF SyncSecrets
<1>10. ASSUME NEW name, UserAction(name) PROVE userActions' \in 0 .. MaxUserActions
  BY <1>10, EnvironmentAssumption DEF UserAction, EnvironmentAssumption
<1>11. ASSUME NEW k \in Keys, ChangeKey(k) PROVE TypeOK'
  BY <1>10, <1>11, PutKeyType DEF ChangeKey
<1>12. ASSUME NEW k \in Keys, FailKey(k) PROVE TypeOK'
  BY <1>12, PutKeyType DEF FailKey
<1>13. ASSUME NEW k \in Keys, ChangeConsumer(k) PROVE TypeOK'
  BY <1>10, <1>13 DEF ChangeConsumer, Contents, ValueOf
<1>14. CASE ToggleKuadrant
  BY <1>10, <1>14 DEF ToggleKuadrant
<1>15. CASE Error
  BY <1>4, <1>10, <1>15 DEF Error, GiveUp
<1>16. CASE Restart
  BY <1>4, <1>10, <1>16 DEF Restart
<1>17. CASE UNCHANGED vars
  BY <1>17 DEF vars
<1> QED
  BY <1>1, <1>2, <1>3, <1>5, <1>6, <1>7, <1>8, <1>9, <1>11, <1>12, <1>13, <1>14,
     <1>15, <1>16, <1>17
     DEF Next, Reconcile, Environment

\* Every variable of the controller keeps its type in every behaviour.
THEOREM TypeCorrect == Spec => []TypeOK
  BY TypeInit, TypeNext, PTL DEF Spec

-----------------------------------------------------------------------------
(* The inductive invariant *)

LEMMA IndInit == Init => IndInv
<1> SUFFICES ASSUME Init PROVE IndInv
  OBVIOUS
<1>1. TypeOK
  BY TypeInit
<1>2. VersionsTruthful /\ VersionsOrdered
  BY DEF Init, VersionsTruthful, VersionsOrdered, NoKey
<1>3. BasisReached /\ SecretsRestOnApproval /\ TodoApproved
  BY DEF Init, BasisReached, SecretsRestOnApproval, TodoApproved
<1>4. ValuesHeld
  BY DEF Init, ValuesHeld, ValueOf, Contents
<1> QED BY <1>1, <1>2, <1>3, <1>4 DEF IndInv

\* Writing a key makes a new version, which no cache and no list has, and about
\* which the history is right.
LEMMA PutKeyKeeps ==
  ASSUME IndInv, NEW k \in Keys, NEW phase \in {"gone", "unapproved", "approved"},
         PutKey(k, phase),
         UNCHANGED <<consumer, enforcement, keyCache, secretCache, call, held, basis>>
  PROVE  /\ VersionsTruthful' /\ VersionsOrdered' /\ BasisReached' /\ ValuesHeld'
         /\ TodoApproved' /\ SecretsRestOnApproval'
<1> DEFINE n == apiKey[k].version + 1
<1>1. /\ apiKey \in [Keys -> KeyObjects] /\ keyCache \in [Keys -> KeyObjects]
      /\ keyList \in [Keys -> KeyObjects] /\ approvedAt \in [Keys -> SUBSET Nat]
      /\ basis \in [Keys -> Nat]
  BY DEF IndInv, TypeOK
<1>2. \A j \in Keys : /\ apiKey[j].version \in Nat /\ keyCache[j].version \in Nat
                      /\ keyList[j].version \in Nat
  BY <1>1 DEF KeyObjects
<1>3. /\ apiKey' = [apiKey EXCEPT ![k] = [phase |-> phase, version |-> n]]
      /\ approvedAt' = IF phase = "approved"
                       THEN [approvedAt EXCEPT ![k] = approvedAt[k] \cup {n}]
                       ELSE approvedAt
  BY DEF PutKey
<1>4. apiKey'[k] = [phase |-> phase, version |-> n]
  BY <1>1, <1>3
<1>5. \A j \in Keys : j # k => apiKey'[j] = apiKey[j] /\ approvedAt'[j] = approvedAt[j]
  BY <1>1, <1>3
<1>6. approvedAt'[k] = IF phase = "approved" THEN approvedAt[k] \cup {n} ELSE approvedAt[k]
  BY <1>1, <1>3
<1>7. \A j \in Keys : approvedAt[j] \subseteq approvedAt'[j]
  BY <1>5, <1>6
<1>8. VersionsTruthful'
  <2> SUFFICES ASSUME NEW j \in Keys
               PROVE  /\ 0 \notin approvedAt'[j]
                      /\ \A m \in approvedAt'[j] : m <= apiKey'[j].version
                      /\ apiKey'[j].phase = "approved" <=> apiKey'[j].version \in approvedAt'[j]
                      /\ keyCache[j].phase = "approved" <=> keyCache[j].version \in approvedAt'[j]
                      /\ keyList[j].phase = "approved" <=> keyList[j].version \in approvedAt'[j]
    BY DEF VersionsTruthful, call
  <2>1. CASE j # k
    BY <1>5, <2>1 DEF IndInv, VersionsTruthful
  <2>2. CASE j = k
    <3>1. /\ 0 \notin approvedAt[k]
          /\ \A m \in approvedAt[k] : m \in Nat /\ m <= apiKey[k].version
          /\ keyCache[k].phase = "approved" <=> keyCache[k].version \in approvedAt[k]
          /\ keyList[k].phase = "approved" <=> keyList[k].version \in approvedAt[k]
      BY <1>1 DEF IndInv, VersionsTruthful
    <3>2. /\ keyCache[k].version <= apiKey[k].version
          /\ keyList[k].version <= apiKey[k].version
      BY <1>2 DEF IndInv, VersionsOrdered
    <3>3. n \notin approvedAt[k] /\ n # keyCache[k].version /\ n # keyList[k].version /\ n # 0
      BY <1>2, <3>1, <3>2
    <3>4. apiKey'[k].phase = phase /\ apiKey'[k].version = n
      BY <1>4
    <3>5. \A m \in approvedAt'[k] : m <= n
      BY <1>2, <1>6, <3>1
    <3> QED BY <1>6, <2>2, <3>1, <3>3, <3>4, <3>5
  <2> QED BY <2>1, <2>2
<1>9. VersionsOrdered'
  <2> SUFFICES ASSUME NEW j \in Keys
               PROVE  keyCache[j].version <= apiKey'[j].version
    BY DEF VersionsOrdered, IndInv, call
  <2>1. keyCache[j].version <= apiKey[j].version
    BY DEF IndInv, VersionsOrdered
  <2>2. apiKey'[j].version = apiKey[j].version \/ apiKey'[j].version = apiKey[j].version + 1
    BY <1>4, <1>5
  <2> QED BY <1>2, <2>1, <2>2
<1>10. BasisReached' /\ ValuesHeld' /\ TodoApproved'
  BY DEF IndInv, BasisReached, ValuesHeld, TodoApproved, call
<1>11. SecretsRestOnApproval'
  BY <1>7 DEF IndInv, SecretsRestOnApproval
<1> QED BY <1>8, <1>9, <1>10, <1>11

\* A call that ends drops its list.
LEMMA NoCallKeeps ==
  ASSUME IndInv, NoCall, UNCHANGED <<apiKey, enforcement, approvedAt, basis, held>>,
         \A k \in Keys : keyCache'[k] \in {keyCache[k], apiKey[k]}
  PROVE  /\ VersionsTruthful' /\ VersionsOrdered' /\ BasisReached' /\ TodoApproved'
         /\ SecretsRestOnApproval'
<1>1. \A k \in Keys : /\ apiKey[k].version \in Nat /\ keyCache[k].version \in Nat
                      /\ basis[k] \in Nat
  BY DEF IndInv, TypeOK, KeyObjects
<1>2. \A k \in Keys : keyList'[k] = NoKey
  BY DEF NoCall
<1>3. VersionsTruthful'
  BY <1>2 DEF IndInv, VersionsTruthful, NoKey
<1>4. VersionsOrdered'
  BY <1>1, <1>2 DEF IndInv, VersionsOrdered, NoKey
<1>5. BasisReached'
  BY <1>1 DEF IndInv, BasisReached, VersionsOrdered, NoCall
<1>6. TodoApproved' /\ SecretsRestOnApproval'
  BY DEF IndInv, TodoApproved, SecretsRestOnApproval, NoCall
<1> QED BY <1>3, <1>4, <1>5, <1>6

\* The invariant without the types, which TypeNext keeps.
IndRest ==
  /\ VersionsTruthful /\ VersionsOrdered /\ BasisReached /\ ValuesHeld
  /\ TodoApproved /\ SecretsRestOnApproval

LEMMA IndNext == IndInv /\ [Next]_vars => IndInv'
<1> SUFFICES ASSUME IndInv, [Next]_vars PROVE IndRest'
  BY TypeNext DEF IndInv, IndRest
<1> USE DEF IndRest, world, caches, call, history
<1>0. TypeOK
  BY DEF IndInv
<1>1. CASE Start
  <2>1. BasisReached'
    BY <1>1 DEF Start, IndInv, BasisReached
  <2> QED
    BY <1>1, <2>1 DEF Start, IndInv, VersionsTruthful, VersionsOrdered, ValuesHeld,
                      TodoApproved, SecretsRestOnApproval
<1>2. CASE ListKeys
  <2>1. VersionsTruthful'
    BY <1>2 DEF ListKeys, IndInv, VersionsTruthful
  <2>2. VersionsOrdered'
    BY <1>0, <1>2 DEF ListKeys, IndInv, VersionsOrdered, TypeOK, KeyObjects
  <2>3. BasisReached' /\ TodoApproved'
    BY <1>2 DEF ListKeys, IndInv, BasisReached, TodoApproved
  <2> QED
    BY <1>2, <2>1, <2>2, <2>3 DEF ListKeys, IndInv, ValuesHeld, SecretsRestOnApproval
<1>3. ASSUME NEW k \in Keys, EnsureSecret(k) PROVE IndRest'
  <2>1. VersionsTruthful' /\ VersionsOrdered' /\ ValuesHeld' /\ TodoApproved'
    BY <1>3 DEF EnsureSecret, IndInv, VersionsTruthful, VersionsOrdered, ValuesHeld, TodoApproved
  <2>2. CASE UNCHANGED <<enforcement, basis>>
    BY <1>3, <2>1, <2>2 DEF EnsureSecret, IndInv, BasisReached, SecretsRestOnApproval
  <2>3. CASE /\ enforcement' = [enforcement EXCEPT ![k] = Desired(k)]
             /\ basis' = [basis EXCEPT ![k] = keyList[k].version]
    <3>1. Desired(k) \in held[k]
      BY <1>3 DEF EnsureSecret, Desired, IndInv, ValuesHeld
    <3>2. keyList[k].version \in approvedAt[k]
      BY <1>3 DEF EnsureSecret, IndInv, TodoApproved, VersionsTruthful
    <3>3. /\ keyList[k].version \in Nat
          /\ keyList[k].version <= keyCache[k].version
      BY <1>0 DEF TypeOK, KeyObjects, IndInv, VersionsOrdered
    <3>4. \A j \in Keys : j # k => enforcement'[j] = enforcement[j] /\ basis'[j] = basis[j]
      BY <1>0, <2>3 DEF TypeOK
    <3>5. enforcement'[k] = Desired(k) /\ basis'[k] = keyList[k].version
      BY <1>0, <2>3 DEF TypeOK
    <3>6. BasisReached'
      BY <1>3, <3>3, <3>4, <3>5 DEF EnsureSecret, IndInv, BasisReached
    <3>7. SecretsRestOnApproval'
      BY <1>3, <3>1, <3>2, <3>4, <3>5 DEF EnsureSecret, IndInv, SecretsRestOnApproval
    <3> QED BY <2>1, <3>6, <3>7
  <2> QED BY <1>3, <2>2, <2>3 DEF EnsureSecret
<1>4. ASSUME NEW k \in Keys, FailOn(k) PROVE IndRest'
  BY <1>4, NoCallKeeps DEF FailOn, GiveUp, IndInv, ValuesHeld
<1>5. ASSUME NEW k \in Keys, DeleteOrphan(k) PROVE IndRest'
  <2>1. \A j \in Keys : enforcement'[j] \in {enforcement[j], NoValue}
    BY <1>0, <1>5 DEF DeleteOrphan, TypeOK
  <2>2. BasisReached' /\ SecretsRestOnApproval'
    BY <1>5, <2>1 DEF DeleteOrphan, IndInv, BasisReached, SecretsRestOnApproval
  <2> QED
    BY <1>5, <2>2 DEF DeleteOrphan, IndInv, VersionsTruthful, VersionsOrdered, ValuesHeld,
                      TodoApproved
<1>6. CASE Return
  BY <1>6, NoCallKeeps DEF Return, IndInv, ValuesHeld
<1>7. CASE SyncKeys
  <2>1. VersionsTruthful' /\ TodoApproved' /\ ValuesHeld' /\ SecretsRestOnApproval'
    BY <1>7 DEF SyncKeys, IndInv, VersionsTruthful, TodoApproved, ValuesHeld,
                SecretsRestOnApproval
  <2>2. VersionsOrdered'
    BY <1>0, <1>7 DEF SyncKeys, IndInv, VersionsOrdered, TypeOK, KeyObjects
  <2>3. BasisReached'
    BY <1>0, <1>7 DEF SyncKeys, IndInv, BasisReached, VersionsOrdered, TypeOK, KeyObjects
  <2> QED BY <2>1, <2>2, <2>3
<1>8. CASE SyncSecrets
  BY <1>8 DEF SyncSecrets, IndInv, VersionsTruthful, VersionsOrdered, BasisReached,
              ValuesHeld, TodoApproved, SecretsRestOnApproval
<1>9. ASSUME NEW k \in Keys, ChangeKey(k) PROVE IndRest'
  BY <1>9, PutKeyKeeps DEF ChangeKey
<1>10. ASSUME NEW k \in Keys, FailKey(k) PROVE IndRest'
  BY <1>10, PutKeyKeeps DEF FailKey
<1>11. ASSUME NEW k \in Keys, ChangeConsumer(k) PROVE IndRest'
  <2>1. PICK c \in Contents : /\ consumer' = [consumer EXCEPT ![k] = c]
                              /\ held' = [held EXCEPT ![k] = held[k] \cup ValueOf(c)]
    BY <1>11 DEF ChangeConsumer
  <2>2. \A j \in Keys : held[j] \subseteq held'[j]
    BY <1>0, <2>1 DEF TypeOK
  <2>3. consumer'[k] = c /\ (c # NoValue => c \in held'[k])
    BY <1>0, <2>1 DEF TypeOK, ValueOf
  <2>4. \A j \in Keys : j # k => consumer'[j] = consumer[j]
    BY <1>0, <2>1 DEF TypeOK
  <2>5. ValuesHeld'
    BY <1>11, <2>2, <2>3, <2>4 DEF ChangeConsumer, IndInv, ValuesHeld
  <2>6. SecretsRestOnApproval'
    BY <1>11, <2>2 DEF ChangeConsumer, IndInv, SecretsRestOnApproval
  <2> QED
    BY <1>11, <2>5, <2>6 DEF ChangeConsumer, IndInv, VersionsTruthful, VersionsOrdered,
                             BasisReached, TodoApproved
<1>12. CASE ToggleKuadrant
  BY <1>12 DEF ToggleKuadrant, IndInv, VersionsTruthful, VersionsOrdered, BasisReached,
               ValuesHeld, TodoApproved, SecretsRestOnApproval
<1>13. CASE Error
  BY <1>13, NoCallKeeps DEF Error, GiveUp, IndInv, ValuesHeld
<1>14. CASE Restart
  <2>1. \A k \in Keys : keyCache'[k] \in {keyCache[k], apiKey[k]}
    BY <1>14 DEF Restart
  <2>2. ValuesHeld'
    BY <1>14 DEF Restart, IndInv, ValuesHeld
  <2> QED BY <1>14, <2>1, <2>2, NoCallKeeps DEF Restart
<1>15. CASE UNCHANGED vars
  BY <1>15 DEF vars, IndInv, VersionsTruthful, VersionsOrdered, BasisReached,
               ValuesHeld, TodoApproved, SecretsRestOnApproval
<1> QED
  BY <1>1, <1>2, <1>3, <1>4, <1>5, <1>6, <1>7, <1>8, <1>9, <1>10, <1>11, <1>12,
     <1>13, <1>14, <1>15
     DEF Next, Reconcile, Environment

LEMMA Invariance == Spec => []IndInv
  BY IndInit, IndNext, PTL DEF Spec

\* No enforcement Secret without an approval of its key and a value of its
\* consumer: SecretsRestOnApproval holds in every behaviour.
THEOREM AccessNeedsApproval == Spec => []SecretsRestOnApproval
<1>1. IndInv => SecretsRestOnApproval
  BY DEF IndInv
<1> QED BY <1>1, Invariance, PTL

-----------------------------------------------------------------------------
(* What a step may not do *)

\* A Secret that is taken away rests on an older version than the list of the
\* call, and the list is no newer than the keys.
LEMMA OrphanIsOutdated ==
  ASSUME IndInv, NEW k \in Keys, DeleteOrphan(k), enforcement[k] # NoValue
  PROVE  basis[k] < apiKey[k].version
<1>1. /\ basis[k] \in Nat /\ apiKey[k].version \in Nat
      /\ keyCache[k].version \in Nat /\ keyList[k].version \in Nat
  BY DEF IndInv, TypeOK, KeyObjects
<1>2. basis[k] <= keyList[k].version
  BY DEF DeleteOrphan, IndInv, BasisReached
<1>3. basis[k] # keyList[k].version
  <2>1. keyList[k].version \notin approvedAt[k]
    BY DEF DeleteOrphan, HasApprovedKey, IndInv, VersionsTruthful
  <2>2. basis[k] \in approvedAt[k]
    BY DEF IndInv, SecretsRestOnApproval
  <2> QED BY <2>1, <2>2
<1>4. keyList[k].version <= keyCache[k].version /\ keyCache[k].version <= apiKey[k].version
  BY DEF IndInv, VersionsOrdered
<1> QED BY <1>1, <1>2, <1>3, <1>4

\* Only DeleteOrphan takes a Secret away.
LEMMA OnlyOrphansWithdrawn ==
  ASSUME TypeOK, [Next]_vars, NEW k \in Keys,
         enforcement[k] # NoValue, enforcement'[k] = NoValue
  PROVE  DeleteOrphan(k)
<1> USE DEF world, caches, call, history
<1>1. CASE enforcement' = enforcement
  BY <1>1
<1>2. ASSUME NEW j \in Keys, EnsureSecret(j) PROVE enforcement'[k] # NoValue
  BY <1>2 DEF EnsureSecret, TypeOK
<1>3. ASSUME NEW j \in Keys, DeleteOrphan(j) PROVE j = k
  BY <1>3 DEF DeleteOrphan, TypeOK
<1>4. Start \/ ListKeys \/ Return \/ SyncKeys \/ SyncSecrets => enforcement' = enforcement
  BY DEF Start, ListKeys, Return, SyncKeys, SyncSecrets
<1>5. \A j \in Keys : FailOn(j) => enforcement' = enforcement
  BY DEF FailOn, GiveUp
<1>6. Environment => enforcement' = enforcement
  BY DEF Environment, ChangeKey, FailKey, ChangeConsumer, ToggleKuadrant, Error, GiveUp, Restart
<1>7. UNCHANGED vars => enforcement' = enforcement
  BY DEF vars
<1> QED BY <1>1, <1>2, <1>3, <1>4, <1>5, <1>6, <1>7 DEF Next, Reconcile

\* A key that stays approved is never cut off by the clean-up.
THEOREM ApprovedKeysKeepAccess == Spec => WithdrawnOnlyAfterChange
<1>1. IndInv /\ [Next]_vars
        => [\A k \in Keys : enforcement[k] # NoValue /\ enforcement'[k] = NoValue
                              => basis[k] < apiKey[k].version]_vars
  BY OrphanIsOutdated, OnlyOrphansWithdrawn DEF IndInv
<1> QED BY <1>1, Invariance, PTL DEF Spec, WithdrawnOnlyAfterChange

-----------------------------------------------------------------------------
(* The controller implements AccessGrants *)

abstractVars == <<[k \in Keys |-> apiKey[k].version], approvedAt, held, enforcement, basis>>

LEMMA AbstractInit == Init => Grants!Init
<1> SUFFICES ASSUME Init PROVE Grants!Init
  OBVIOUS
<1>1. held \in [Keys -> SUBSET Values]
  BY TypeInit DEF TypeOK
<1> QED BY <1>1 DEF Init, Grants!Init, NoKey

\* A written key is a key changed, and nothing else the abstraction sees.
LEMMA PutKeyIsChange ==
  ASSUME TypeOK, NEW k \in Keys, NEW phase \in {"gone", "unapproved", "approved"},
         PutKey(k, phase), UNCHANGED <<held, enforcement, basis>>
  PROVE  Grants!Next
<1> DEFINE version == [j \in Keys |-> apiKey[j].version]
<1>1. [j \in Keys |-> apiKey'[j].version] = [version EXCEPT ![k] = version[k] + 1]
  BY DEF PutKey, TypeOK
<1>2. \/ approvedAt' = [approvedAt EXCEPT ![k] = approvedAt[k] \cup {version[k] + 1}]
      \/ approvedAt' = approvedAt
  BY DEF PutKey
<1>3. Grants!Change(k)
  BY <1>1, <1>2 DEF Grants!Change
<1> QED BY <1>3 DEF Grants!Next

LEMMA AbstractNext == IndInv /\ [Next]_vars => [Grants!Next]_abstractVars
<1> SUFFICES ASSUME IndInv, [Next]_vars PROVE Grants!Next \/ UNCHANGED abstractVars
  OBVIOUS
<1> USE DEF world, caches, call, history, abstractVars
<1>0. TypeOK
  BY DEF IndInv
<1>1. Start \/ ListKeys \/ Return \/ SyncKeys \/ SyncSecrets => UNCHANGED abstractVars
  BY DEF Start, ListKeys, Return, SyncKeys, SyncSecrets
<1>2. ASSUME NEW k \in Keys, EnsureSecret(k) PROVE Grants!Next \/ UNCHANGED abstractVars
  <2>1. CASE UNCHANGED <<enforcement, basis>>
    BY <1>2, <2>1 DEF EnsureSecret
  <2>2. CASE ~UNCHANGED <<enforcement, basis>>
    <3>1. /\ enforcement[k] = NoValue
          /\ enforcement' = [enforcement EXCEPT ![k] = Desired(k)]
          /\ basis' = [basis EXCEPT ![k] = keyList[k].version]
      BY <1>2, <2>2 DEF EnsureSecret
    <3>2. Desired(k) \in held[k]
      BY <1>2 DEF EnsureSecret, Desired, IndInv, ValuesHeld
    <3>3. keyList[k].version \in approvedAt[k]
      BY <1>2 DEF EnsureSecret, IndInv, TodoApproved, VersionsTruthful
    <3>4. Grants!Grant(k)
      BY <1>2, <3>1, <3>2, <3>3 DEF EnsureSecret, Grants!Grant
    <3> QED BY <3>4 DEF Grants!Next
  <2> QED BY <2>1, <2>2
<1>3. ASSUME NEW k \in Keys, FailOn(k) PROVE UNCHANGED abstractVars
  BY <1>3 DEF FailOn, GiveUp
<1>4. ASSUME NEW k \in Keys, DeleteOrphan(k) PROVE Grants!Next \/ UNCHANGED abstractVars
  <2>1. CASE enforcement[k] = NoValue
    <3>1. enforcement' = enforcement
      BY <1>0, <1>4, <2>1 DEF DeleteOrphan, TypeOK
    <3> QED BY <1>4, <3>1 DEF DeleteOrphan
  <2>2. CASE enforcement[k] # NoValue
    <3>1. Grants!Withdraw(k)
      BY <1>4, <2>2, OrphanIsOutdated DEF DeleteOrphan, Grants!Withdraw
    <3> QED BY <3>1 DEF Grants!Next
  <2> QED BY <2>1, <2>2
<1>5. ASSUME NEW k \in Keys, ChangeKey(k) \/ FailKey(k) PROVE Grants!Next
  BY <1>0, <1>5, PutKeyIsChange DEF ChangeKey, FailKey
<1>6. ASSUME NEW k \in Keys, ChangeConsumer(k) PROVE Grants!Next \/ UNCHANGED abstractVars
  <2>1. PICK c \in Contents : held' = [held EXCEPT ![k] = held[k] \cup ValueOf(c)]
    BY <1>6 DEF ChangeConsumer
  <2>2. CASE c = NoValue
    <3>1. held' = held
      BY <1>0, <2>1, <2>2 DEF TypeOK, ValueOf
    <3> QED BY <1>6, <3>1 DEF ChangeConsumer
  <2>3. CASE c # NoValue
    <3>1. c \in Values /\ ValueOf(c) = {c}
      BY <2>3 DEF Contents, ValueOf
    <3>2. Grants!Hold(k)
      BY <1>6, <2>1, <3>1 DEF ChangeConsumer, Grants!Hold
    <3> QED BY <3>2 DEF Grants!Next
  <2> QED BY <2>2, <2>3
<1>7. ToggleKuadrant \/ Error \/ Restart => UNCHANGED abstractVars
  BY DEF ToggleKuadrant, Error, GiveUp, Restart
<1>8. UNCHANGED vars => UNCHANGED abstractVars
  BY DEF vars
<1> QED
  BY <1>1, <1>2, <1>3, <1>4, <1>5, <1>6, <1>7, <1>8 DEF Next, Reconcile, Environment

\* Every behaviour of the controller is one that AccessGrants allows.
THEOREM EnforcementImplementsGrants == Spec => ImplementsGrants
<1>1. Grants!Spec <=> Grants!Init /\ [][Grants!Next]_abstractVars
  BY DEF Grants!Spec, abstractVars
<1> QED
  BY <1>1, AbstractInit, AbstractNext, Invariance, PTL DEF Spec, ImplementsGrants

-----------------------------------------------------------------------------
(* What there is at rest *)

\* The Kuadrant resource stays, and calls start on a Secret cache that has caught up.
SettledCluster == SecretsPrompt /\ "ToggleKuadrant" \notin UserActions

Outcome(k, key) == key.phase = "approved" <=> enforcement[k] # NoValue

\* A call knows the enforcement Secrets it has not handled yet as they are,
CallKnowsSecrets ==
  /\ pc = "listed" =>
       /\ listed = {k \in Keys : enforcement[k] # NoValue}
       /\ \A k \in Keys : secretCache.enforcement[k] = enforcement[k]
  /\ pc = "handling" =>
       \A k \in todo : secretCache.enforcement[k] = enforcement[k]

\* and has brought about what its list of keys calls for where it has.
CallHandled ==
  pc = "handling" =>
    \A k \in Keys :
      /\ keyList[k].phase = "approved" /\ k \notin todo => enforcement[k] # NoValue
      /\ keyList[k].phase # "approved" /\ k \notin listed => enforcement[k] = NoValue

\* Without an event to come, the lists are current and an idle controller is done.
NothingMissed ==
  /\ ~unseen => keyCache = apiKey
  /\ ~unseen /\ ~queued =>
       /\ pc = "handling" => keyList = apiKey
       /\ pc = "idle" => \A k \in Keys : Outcome(k, apiKey[k])

RestInv ==
  /\ TypeOK
  /\ kuadrant
  /\ TodoApproved
  /\ CallKnowsSecrets
  /\ CallHandled
  /\ NothingMissed

LEMMA RestInit == Init => RestInv
<1> SUFFICES ASSUME Init PROVE RestInv
  OBVIOUS
<1>1. TypeOK
  BY TypeInit
<1> QED
  BY <1>1 DEF Init, RestInv, TodoApproved, CallKnowsSecrets, CallHandled, NothingMissed, Outcome, NoKey

LEMMA RestNext ==
  ASSUME SettledCluster
  PROVE  RestInv /\ [Next]_vars => RestInv'
<1> SUFFICES ASSUME RestInv, [Next]_vars PROVE RestInv'
  OBVIOUS
<1> USE DEF RestInv, TodoApproved, CallKnowsSecrets, CallHandled, NothingMissed, Outcome,
            world, caches, call, history
<1>0. TypeOK /\ TypeOK'
  BY TypeNext
<1>1. CASE Start
  <2>1. SecretsSynced
    BY <1>1 DEF Start, SettledCluster
  <2> QED BY <1>0, <1>1, <2>1 DEF Start, SecretsSynced
<1>2. CASE ListKeys
  BY <1>0, <1>2 DEF ListKeys
<1>3. ASSUME NEW k \in Keys, EnsureSecret(k) PROVE RestInv'
  <2>1. Desired(k) # NoValue /\ pc = "handling" /\ pc' = "handling"
        /\ UNCHANGED <<kuadrant, apiKey, keyCache, secretCache, unseen, queued, listed, keyList>>
        /\ todo' = todo \ {k} /\ k \in todo
    BY <1>3 DEF EnsureSecret
  <2>2. enforcement'[k] # NoValue /\ \A j \in Keys \ {k} : enforcement'[j] = enforcement[j]
    BY <1>0, <1>3 DEF EnsureSecret, TypeOK
  <2>3. CallKnowsSecrets'
    <3>1. \A j \in todo' : j \in todo /\ j # k
      BY <2>1
    <3>2. todo \subseteq Keys
      BY <1>0 DEF TypeOK
    <3>3. \A j \in todo' : secretCache'.enforcement[j] = enforcement'[j]
      BY <2>1, <2>2, <3>1, <3>2
    <3> QED BY <2>1, <3>3
  <2>4. CallHandled'
    <3> SUFFICES ASSUME NEW j \in Keys
                 PROVE  /\ keyList'[j].phase = "approved" /\ j \notin todo' => enforcement'[j] # NoValue
                        /\ keyList'[j].phase # "approved" /\ j \notin listed' => enforcement'[j] = NoValue
      OBVIOUS
    <3>1. CASE j = k
      BY <2>1, <2>2, <3>1
    <3>2. CASE j # k
      BY <2>1, <2>2, <3>2
    <3> QED BY <3>1, <3>2
  <2>5. NothingMissed'
    BY <2>1
  <2> QED BY <1>0, <2>1, <2>3, <2>4, <2>5
<1>4. CASE NoCall /\ queued' /\ (~unseen' => keyCache' = apiKey') /\ kuadrant' = kuadrant
  BY <1>0, <1>4 DEF NoCall
<1>5. ASSUME NEW k \in Keys, FailOn(k) PROVE RestInv'
  BY <1>4, <1>5 DEF FailOn, GiveUp
<1>6. ASSUME NEW k \in Keys, DeleteOrphan(k) PROVE RestInv'
  <2>1. pc = "handling" /\ pc' = "handling" /\ todo = {} /\ todo' = {}
        /\ UNCHANGED <<kuadrant, apiKey, keyCache, secretCache, unseen, queued, keyList>>
        /\ listed' = listed \ {k} /\ keyList[k].phase # "approved"
    BY <1>6 DEF DeleteOrphan, HasApprovedKey
  <2>2. enforcement'[k] = NoValue /\ \A j \in Keys \ {k} : enforcement'[j] = enforcement[j]
    BY <1>0, <1>6 DEF DeleteOrphan, TypeOK
  <2> QED BY <1>0, <2>1, <2>2
<1>7. CASE Return
  <2>1. pc = "handling" /\ todo = {} /\ pc' = "idle" /\ todo' = {}
        /\ UNCHANGED <<kuadrant, apiKey, enforcement, keyCache, unseen, queued>>
    BY <1>7 DEF Return, NoCall
  <2>2. \A k \in Keys : Outcome(k, keyList[k])
    BY <1>7, <2>1 DEF Return, HasApprovedKey
  <2> QED BY <1>0, <2>1, <2>2
<1>8. CASE SyncKeys
  BY <1>0, <1>8 DEF SyncKeys
<1>9. CASE SyncSecrets
  BY <1>0, <1>9 DEF SyncSecrets, TypeOK
<1>10. ASSUME NEW k \in Keys, ChangeKey(k) \/ FailKey(k) PROVE RestInv'
  <2>1. unseen' /\ UNCHANGED <<kuadrant, enforcement, keyCache, secretCache, queued, call>>
    BY <1>10 DEF ChangeKey, FailKey, PutKey
  <2> QED BY <1>0, <2>1
<1>11. ASSUME NEW k \in Keys, ChangeConsumer(k) PROVE RestInv'
  BY <1>0, <1>11 DEF ChangeConsumer
<1>12. CASE ToggleKuadrant
  BY <1>12 DEF ToggleKuadrant, UserAction, SettledCluster
<1>13. CASE Error
  BY <1>4, <1>13 DEF Error, GiveUp
<1>14. CASE Restart
  BY <1>4, <1>14 DEF Restart
<1>15. CASE UNCHANGED vars
  BY <1>0, <1>15 DEF vars
<1> QED
  BY <1>1, <1>2, <1>3, <1>5, <1>6, <1>7, <1>8, <1>9, <1>10, <1>11, <1>12, <1>13, <1>14, <1>15
     DEF Next, Reconcile, Environment

\* At rest no key that is not approved has an enforcement Secret, however its
\* approval ended and whatever call was cut short.
THEOREM RevokedKeysLoseAccess ==
  ASSUME SettledCluster
  PROVE  Spec => []RevokedKeysHaveNoSecret
<1>1. RestInv => RevokedKeysHaveNoSecret
  BY DEF RestInv, NothingMissed, Outcome, RevokedKeysHaveNoSecret, AtRest, Approved
<1>2. RestInv /\ [Next]_vars => RestInv'
  BY RestNext
<1> QED BY <1>1, <1>2, RestInit, PTL DEF Spec

\* At rest every approved key has its enforcement Secret.
THEOREM ApprovedKeysGetAccess ==
  ASSUME SettledCluster
  PROVE  Spec => []ApprovedKeysHaveSecret
<1>1. RestInv => ApprovedKeysHaveSecret
  BY DEF RestInv, NothingMissed, Outcome, ApprovedKeysHaveSecret, AtRest, Approved
<1>2. RestInv /\ [Next]_vars => RestInv'
  BY RestNext
<1> QED BY <1>1, <1>2, RestInit, PTL DEF Spec
=============================================================================
