--------------------------- MODULE KeyConditions ---------------------------
(***************************************************************************)
(* How the apikey-status controller turns what it reads about one APIKey   *)
(* into that key's status conditions                                       *)
(* (internal/controller/apikey_status_controller.go).                      *)
(*                                                                         *)
(* A condition list is a function from condition types to reasons: a type  *)
(* is listed at most once (meta.SetStatusCondition replaces) and every     *)
(* condition this controller writes has Status True, so "not listed" is    *)
(* the reason None.                                                        *)
(***************************************************************************)

ConditionTypes == {"Failed", "Denied", "Approved", "Expired", "Pending"}

None == "none"

FailedReasons ==
  {"KuadrantNotFound", "APIProductNotFound", "APIProductDeleting",
   "SecretNotFound", "SecretAPIKeyNotFound", "SecretAPIKeyEmpty",
   "AuthSchemeNotFound", "APIKeyAuthSchemeNotFound"}

Reasons ==
  FailedReasons \cup {None, "Denied", "Approved", "KeyExpired", "AwaitingApproval"}

Conditions == [ConditionTypes -> Reasons]

NoConditions == [t \in ConditionTypes |-> None]

\* The condition types listed in c.
Listed(c) == {t \in ConditionTypes : c[t] # None}

Exclusive(c) == \A s, t \in Listed(c) : s = t

-----------------------------------------------------------------------------
(* What calculateFailedCondition reads.  A product is its phase, its       *)
(* approval mode and the authentication its status has discovered; a       *)
(* consumer secret is what its api_key entry looks like.                   *)

Products ==
  [phase : {"absent", "live", "deleting"},
   mode  : {"automatic", "manual"},
   auth  : {"none", "otherMethods", "apiKey"}]

SecretStates == {"absent", "noEntry", "emptyEntry", "usable"}

\* The checks in the order the code makes them.  A key whose secretRef.name
\* is empty passes at that point: the secret and the authentication scheme
\* of the product are then not looked at.
FailedReason(kuadrantFound, product, secretRefEmpty, secret) ==
  IF ~kuadrantFound                 THEN "KuadrantNotFound"         ELSE
  IF product.phase = "absent"       THEN "APIProductNotFound"       ELSE
  IF product.phase = "deleting"     THEN "APIProductDeleting"       ELSE
  IF secretRefEmpty                 THEN None                       ELSE
  IF secret = "absent"              THEN "SecretNotFound"           ELSE
  IF secret = "noEntry"             THEN "SecretAPIKeyNotFound"     ELSE
  IF secret = "emptyEntry"          THEN "SecretAPIKeyEmpty"        ELSE
  IF product.auth = "none"          THEN "AuthSchemeNotFound"       ELSE
  IF product.auth = "otherMethods"  THEN "APIKeyAuthSchemeNotFound" ELSE None

-----------------------------------------------------------------------------
\* A mutant: Failed is forgotten in the lists of what to remove.
MutRemoveStatusConditions(c, types) ==
  [t \in ConditionTypes |-> IF t \in types \ {"Failed"} THEN None ELSE c[t]]

RemoveStatusConditions(c, types) ==
  [t \in ConditionTypes |-> IF t \in types THEN None ELSE c[t]]

\* A mutant: type and reason are confused.
MutSetStatusCondition(c, type, reason) == [c EXCEPT ![type] = type]

SetStatusCondition(c, type, reason) == [c EXCEPT ![type] = reason]

\* What findAPIKeyApproval's result says: no approval, approved or denied.
Decisions == {"undecided", "approved", "denied"}

\* Each branch removes the four other types by name and sets its own.
CalculateStatusConditions(c, failed, decision, expired) ==
  IF failed # None
  THEN SetStatusCondition(
         RemoveStatusConditions(c, {"Approved", "Denied", "Expired", "Pending"}),
         "Failed", failed)
  ELSE CASE decision = "denied" ->
              SetStatusCondition(
                RemoveStatusConditions(c, {"Approved", "Expired", "Failed", "Pending"}),
                "Denied", "Denied")
         [] decision = "approved" /\ expired ->
              SetStatusCondition(
                RemoveStatusConditions(c, {"Approved", "Denied", "Failed", "Pending"}),
                "Expired", "KeyExpired")
         [] decision = "approved" /\ ~expired ->
              SetStatusCondition(
                RemoveStatusConditions(c, {"Denied", "Expired", "Failed", "Pending"}),
                "Approved", "Approved")
         [] decision = "undecided" ->
              SetStatusCondition(
                RemoveStatusConditions(c, {"Approved", "Denied", "Expired", "Failed"}),
                "Pending", "AwaitingApproval")
=============================================================================
