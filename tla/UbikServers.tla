---------------------------- MODULE UbikServers ----------------------------
(***************************************************************************)
(* The servers of one Ubik database and how their votes are weighed: the   *)
(* configuration that ubeacon_InitServerList builds at startup and the     *)
(* arithmetic of ubeacon_wait_for_votes.  A server is its lowest internet  *)
(* address in host order, a positive number, because the election only     *)
(* ever compares addresses.                                                *)
(***************************************************************************)
EXTENDS Integers, FiniteSets

CONSTANTS
    Server,  \* the addresses of the servers of the database
    NoHost   \* 0xffffffff, the initial lastYesHost and lowestHost

ASSUME ServerAssumption ==
    /\ IsFiniteSet(Server)
    /\ Server # {}
    /\ Server \subseteq Nat \ {0}
    /\ NoHost \in Nat
    /\ \A s \in Server : s < NoHost

\* bindingVectorP->count + 1: every configured server counts, even one whose
\* bindings could not be authenticated and which is dropped from ubik_servers.
ubik_nServers == Cardinality(Server)

\* The server to which me gives an extra vote: the lowest address among its own
\* and those of the servers it did not mark badhost.
MagicHost(me, bad) ==
    CHOOSE h \in {me} \cup (Server \ bad) : \A g \in {me} \cup (Server \ bad) : h <= g

\* The magic host when every server could authenticate every other.
Magic == MagicHost(CHOOSE s \in Server : TRUE, {})

\* Two votes for each yes and one more, the "extra epsilon", for the magic host.
yesVotes(yes, magic) == 2 * Cardinality(yes) + (IF magic \in yes THEN 1 ELSE 0)

\* Mutant: a draw is a majority.
IsQuorumOnDraw(yes, magic) == yesVotes(yes, magic) >= ubik_nServers

IsQuorum(yes, magic) == yesVotes(yes, magic) > ubik_nServers

=============================================================================
