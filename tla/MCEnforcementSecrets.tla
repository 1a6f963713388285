------------------------ MODULE MCEnforcementSecrets ------------------------
(* Small instances of EnforcementSecrets. *)
EXTENDS EnforcementSecrets

CONSTANTS k1, k2, v1, v2

OneKey  == {k1}
TwoKeys == {k1, k2}
OnlyK2  == {k2}

OneValue  == {v1}
TwoValues == {v1, v2}

\* What users do in the runs.
Everything == {"ChangeKey", "ChangeConsumer", "ToggleKuadrant", "Error", "Restart"}
KeysOnly   == {"ChangeKey"}
KeysAndConsumers == {"ChangeKey", "ChangeConsumer", "Error", "Restart"}
=============================================================================
