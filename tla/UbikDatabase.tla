---------------------------- MODULE UbikDatabase ----------------------------
(***************************************************************************)
(* What the redo log promises of the database of one server, without pages *)
(* and log records.  At any time there is a set of databases that a crash  *)
(* might leave behind: one of them as a rule, two while a commit is under  *)
(* way, the old one and the complete new one, and never anything else.     *)
(* UbikLog implements this specification.                                  *)
(***************************************************************************)
EXTENDS Naturals

CONSTANT Image   \* what a database can hold

VARIABLE outcomes   \* the databases that a crash at this moment may leave behind

DatabaseInit == \E img \in Image : outcomes = {[image |-> img, version |-> 1]}

\* A commit starts: from now on, it may or may not survive a crash.
Offer ==
    \E old \in outcomes, new \in outcomes' :
        /\ outcomes = {old} /\ outcomes' = {old, new}
        /\ new.image \in Image /\ new.version = old.version + 1

\* The commit is on the disk, or a crash decided about it.
Decide == \E db \in outcomes : outcomes' = {db}

DatabaseNext == Offer \/ Decide

DatabaseSpec == DatabaseInit /\ [][DatabaseNext]_outcomes
=============================================================================
