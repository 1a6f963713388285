---------------------------- MODULE AccessGrants ----------------------------
(***************************************************************************)
(* What the enforcement of API keys promises, whatever the order in which  *)
(* caches, work queues and users act.  A key goes through versions, at some *)
(* of which it is approved; a grant is the copy of the key's value that     *)
(* the gateway accepts.                                                     *)
(*                                                                          *)
(*  - A grant rests on a version at which the key was approved, and carries *)
(*    a value the consumer's Secret really held.                            *)
(*  - A grant is never altered.                                             *)
(*  - A grant is withdrawn only after the key has changed: a key that stays *)
(*    approved does not lose its grant.                                     *)
(***************************************************************************)
EXTENDS Naturals

CONSTANTS Keys, Values, NoValue

VARIABLES
  version,     \* the current version of each key
  approvedAt,  \* the versions at which it was approved
  held,        \* the values its consumer's Secret has held
  grant,       \* the value the gateway accepts, or NoValue
  basis        \* the version the grant rests on

Init ==
  /\ version = [k \in Keys |-> 0]
  /\ approvedAt = [k \in Keys |-> {}]
  /\ held \in [Keys -> SUBSET Values]
  /\ grant = [k \in Keys |-> NoValue]
  /\ basis = [k \in Keys |-> 0]

\* The key changes; it is approved from now on, or it is not.
Change(k) ==
  /\ version' = [version EXCEPT ![k] = @ + 1]
  /\ \/ approvedAt' = [approvedAt EXCEPT ![k] = @ \cup {version[k] + 1}]
     \/ UNCHANGED approvedAt
  /\ UNCHANGED <<held, grant, basis>>

\* The consumer's Secret takes a value.
Hold(k) ==
  /\ \E v \in Values : held' = [held EXCEPT ![k] = @ \cup {v}]
  /\ UNCHANGED <<version, approvedAt, grant, basis>>

Grant(k) ==
  /\ grant[k] = NoValue
  /\ \E v \in held[k] : grant' = [grant EXCEPT ![k] = v]
  /\ \E n \in approvedAt[k] : basis' = [basis EXCEPT ![k] = n]
  /\ UNCHANGED <<version, approvedAt, held>>

Withdraw(k) ==
  /\ grant[k] # NoValue
  /\ basis[k] < version[k]
  /\ grant' = [grant EXCEPT ![k] = NoValue]
  /\ UNCHANGED <<version, approvedAt, held, basis>>

Next == \E k \in Keys : Change(k) \/ Hold(k) \/ Grant(k) \/ Withdraw(k)

Spec == Init /\ [][Next]_<<version, approvedAt, held, grant, basis>>
=============================================================================
