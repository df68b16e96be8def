------------------------ MODULE MCUbikElectionTimely ------------------------
(* Instances of UbikElectionTimely for TLC.                                *)
EXTENDS UbikElectionTimely

NoSkew == {[s \in Server |-> 0]}

\* Every server could authenticate every other at startup.
NoBad == [s \in Server |-> {}]

\* Server 3 could not authenticate the lowest one.
LowestUnknown == [s \in Server |-> IF s = 3 THEN {1} ELSE {}]

\* Of the things that can go wrong, one does.
OneMishap == Cardinality(isolated) + restarts <= 1
=============================================================================
