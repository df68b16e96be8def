----------------------------- MODULE MCUbikLock -----------------------------
(* An instance for the model checking of UbikLock. *)
EXTENDS UbikLock

CONSTANTS c1, c2, rec

MCClient == {c1, c2}

\* One client comes back, for instance when the other has waited for it.
MCMaxRounds == [th \in {c1, c2, rec} |-> IF th = c1 THEN 2 ELSE 1]
=============================================================================
