--------------------------- MODULE MCUbikElection ---------------------------
(* Instances of UbikElection for TLC: the ways in which the clocks differ. *)
EXTENDS UbikElection

\* All clocks agree.
NoSkew == {[s \in Server |-> 0]}

\* The clock of a likely voter is ahead by as much as a voter accepts.
NearSkew == {[s \in Server |-> IF s = 2 THEN MAXSKEW ELSE 0]}

BothSkews == NoSkew \cup NearSkew

\* Every server could authenticate every other at startup.
NoBad == [s \in Server |-> {}]

\* Server 2 could not authenticate the lowest one.
LowestBad == [s \in Server |-> IF s = 2 THEN {1} ELSE {}]

\* Of the things that can go wrong, one does: when the clocks agree a beacon that fails
\* or is repeated, else a restart.
OneMishap ==
    IF offset \in NoSkew THEN faults <= 1 /\ restarts = 0 ELSE faults = 0 /\ restarts <= 1
=============================================================================
