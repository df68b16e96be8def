----------------------------- MODULE UbikStore -----------------------------
(***************************************************************************)
(* What Ubik promises its clients, without servers, versions and calls.    *)
(* There is a set of databases that the next sync site may start from.     *)
(* A commit makes another one possible; as failures and successes become   *)
(* known, possibilities go; and a client is told that its transaction is   *)
(* committed only when every remaining one has it.  UbikReplica implements *)
(* this specification.                                                     *)
(***************************************************************************)
EXTENDS FiniteSets

CONSTANT Transaction  \* the sets of writes that transactions consist of

VARIABLES
    outcomes,  \* the databases, as sets of writes, that may survive
    acked      \* the transactions that clients were told are committed

storeVars == <<outcomes, acked>>

StoreInit == outcomes = {{}} /\ acked = {}

\* A commit starts at the sync site.  Where one server alone is a quorum, what was there
\* before is ruled out in the same step.
Offer ==
    /\ \E db \in outcomes, tx \in Transaction :
          /\ db \cup tx \in outcomes'
          /\ outcomes' \subseteq outcomes \cup {db \cup tx}
    /\ UNCHANGED acked

\* A commit reaches another server, or a server takes over a database.
Decide ==
    /\ UNCHANGED acked
    /\ outcomes' \in (SUBSET outcomes) \ {{}}

\* ubik_EndTrans returns 0.
Acknowledge ==
    /\ \E tx \in Transaction :
          (\A db \in outcomes : tx \subseteq db) /\ acked' = acked \cup {tx}
    /\ UNCHANGED outcomes

StoreNext == Decide \/ Acknowledge \/ Offer

StoreSpec == StoreInit /\ [][StoreNext]_storeVars
=============================================================================
