---------------------------- MODULE KeyLifecycle ----------------------------
(***************************************************************************)
(* What everybody who reads an APIKey may rely on, whatever the order in   *)
(* which controllers, caches and users act: its life, and the state its    *)
(* conditions show in the course of it.                                    *)
(*                                                                         *)
(*  - A key shows nothing when it is created, also when it is created      *)
(*    again under the name of one that was approved: no status computed    *)
(*    for a key reaches its successor.                                     *)
(*  - From then on it shows one state at a time, and never none again.     *)
(*  - A key that is being deleted keeps the state it shows.                *)
(*  - A key does not become Approved once it has expired, by the clock     *)
(*    as it was read for that decision.  (A call of the controller reads   *)
(*    it once and writes later: the writes count as of that moment.)       *)
(***************************************************************************)
CONSTANTS Keys, ConditionTypes

VARIABLES
  phase,   \* whether each key exists
  shown,   \* the conditions it lists
  expired  \* the keys whose time was over when the clock was last read

Init ==
  /\ phase = [k \in Keys |-> "absent"]
  /\ shown = [k \in Keys |-> {}]
  /\ expired = {}

Keep(k) == phase'[k] = phase[k] /\ shown'[k] = shown[k]

Create(k) ==
  /\ phase[k] = "absent" /\ phase'[k] = "live"
  /\ shown'[k] = {}

Show(k) ==
  /\ phase[k] = "live" /\ phase'[k] = "live"
  /\ \E state \in ConditionTypes :
       /\ state = "Approved" => k \notin expired
       /\ shown'[k] = {state}

MarkDeleted(k) ==
  /\ phase[k] = "live" /\ phase'[k] = "deleting"
  /\ shown'[k] = shown[k]

Remove(k) ==
  /\ phase[k] # "absent" /\ phase'[k] = "absent"
  /\ shown'[k] = {}

\* One call of a controller may write to many keys.
Change ==
  /\ \A k \in Keys : Keep(k) \/ Create(k) \/ Show(k) \/ MarkDeleted(k) \/ Remove(k)
  /\ UNCHANGED expired

Expire ==
  /\ \E k \in Keys \ expired : expired' = expired \cup {k}
  /\ UNCHANGED <<phase, shown>>

Next == Change \/ Expire

Spec == Init /\ [][Next]_<<phase, shown, expired>>
=============================================================================
