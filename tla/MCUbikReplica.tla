--------------------------- MODULE MCUbikReplica ---------------------------
(* Bounds for the model checking of UbikReplica. *)
EXTENDS UbikReplica, FiniteSetsExt

\* What the servers remember of the transactions they began.
Begun == MapThenSumSet(LAMBDA s : tidCounter[s] \div 2, Server)

\* Three things happen: transactions, and up to two faults.
Short == faults <= 2 /\ faults + Begun <= 3

OneFault == faults <= 1
=============================================================================
