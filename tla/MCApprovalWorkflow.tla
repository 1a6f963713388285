------------------------- MODULE MCApprovalWorkflow -------------------------
(* Small instances of ApprovalWorkflow. *)
EXTENDS ApprovalWorkflow

CONSTANTS k1, k2

ManualProduct == [phase |-> "live", mode |-> "manual", auth |-> "apiKey"]
AutomaticProduct == [ManualProduct EXCEPT !.mode = "automatic"]

OneKey  == {k1}
TwoKeys == {k1, k2}

Manual       == {ManualProduct}
Automatic    == {AutomaticProduct}
ComesAndGoes == {AutomaticProduct,
                 [ManualProduct EXCEPT !.auth = "none"],
                 [ManualProduct EXCEPT !.phase = "absent"]}

Usable       == {"usable"}
ComesAndGone == {"usable", "absent"}

\* What users do in the runs.
ReviewedByOwner  == {"CreateKey", "DeleteKey", "Decide", "WithdrawApproval", "Restart"}
ReviewedByEither == {"CreateKey", "DeleteKey", "Decide", "ChangeProduct"}
Failures         == {"CreateKey", "Decide", "ChangeProduct"}
Outages          == {"CreateKey", "ChangeSecret", "ToggleKuadrant", "Restart"}
Revocations      == {"CreateKey", "Decide"}
=============================================================================
