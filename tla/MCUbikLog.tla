----------------------------- MODULE MCUbikLog -----------------------------
(* Instances of UbikLog for TLC. *)
EXTENDS UbikLog

\* A bound on the records of a transaction: a crash may leave any of 5 logs.
ShortLog == Cardinality(logs) <= 5
=============================================================================
