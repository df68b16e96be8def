------------------------- MODULE UbikServersProofs -------------------------
(***************************************************************************)
(* The arithmetic of votes, for any number of servers: two quorums share a *)
(* voter.  With an even number of servers two halves would not, if it were *)
(* not for the extra epsilon of the one magic host.                        *)
(***************************************************************************)
EXTENDS UbikServers, FiniteSetTheorems, WellFoundedInduction, TLAPS

(* Votes are whole numbers, each yes counts two and only the magic host    *)
(* adds one (ubeacon_wait_for_votes).                                      *)
LEMMA VoteWeight ==
    ASSUME NEW Q \in SUBSET Server, NEW magic
    PROVE  /\ Cardinality(Q) \in Nat
           /\ ubik_nServers \in Nat
           /\ magic \in Q => yesVotes(Q, magic) = 2 * Cardinality(Q) + 1
           /\ magic \notin Q => yesVotes(Q, magic) = 2 * Cardinality(Q)
<1>1. IsFiniteSet(Server)
    BY ServerAssumption
<1>2. Cardinality(Q) \in Nat /\ Cardinality(Server) \in Nat
    BY <1>1, FS_Subset, FS_CardinalityType
<1>3. (IF magic \in Q THEN 1 ELSE 0) = 1 \/ (IF magic \in Q THEN 1 ELSE 0) = 0
    OBVIOUS
<1> QED
    BY <1>2, <1>3 DEF yesVotes, ubik_nServers

(* More than ubik_nServers votes are out of reach for two candidates with  *)
(* no voter in common (ubeacon_Interact's test).                           *)
LEMMA QuorumsMeet ==
    ASSUME NEW P \in SUBSET Server, NEW Q \in SUBSET Server, NEW magic,
           IsQuorum(P, magic), IsQuorum(Q, magic)
    PROVE  \E v \in Server : v \in P /\ v \in Q
<1> SUFFICES ASSUME P \cap Q = {} PROVE FALSE
    OBVIOUS
<1>1. IsFiniteSet(Server) /\ IsFiniteSet(P) /\ IsFiniteSet(Q)
    BY ServerAssumption, FS_Subset
<1>2. Cardinality(P \cup Q) = Cardinality(P) + Cardinality(Q) - Cardinality(P \cap Q)
    BY <1>1, FS_Union
<1>3. Cardinality(P \cap Q) = 0
    BY FS_EmptySet
<1>4. Cardinality(P \cup Q) <= Cardinality(Server)
  <2>1. P \cup Q \in SUBSET Server
      OBVIOUS
  <2> QED
      BY <1>1, <2>1, FS_Subset
<1>5. Cardinality(P) \in Nat /\ Cardinality(Q) \in Nat /\ ubik_nServers \in Nat
    BY VoteWeight
<1>6. Cardinality(P) + Cardinality(Q) <= ubik_nServers
    BY <1>2, <1>3, <1>4, <1>5 DEF ubik_nServers
<1>7. magic \notin P \/ magic \notin Q
    OBVIOUS
<1>8. yesVotes(P, magic) + yesVotes(Q, magic) <= 2 * (Cardinality(P) + Cardinality(Q)) + 1
    BY <1>5, <1>7, VoteWeight
<1>9. yesVotes(P, magic) \in Nat /\ yesVotes(Q, magic) \in Nat
    BY <1>5, VoteWeight
<1>10. yesVotes(P, magic) > ubik_nServers /\ yesVotes(Q, magic) > ubik_nServers
    BY DEF IsQuorum
<1> QED
    BY <1>5, <1>6, <1>8, <1>9, <1>10

(* More yes votes never unmake a quorum. *)
LEMMA QuorumGrows ==
    ASSUME NEW P \in SUBSET Server, NEW Q \in SUBSET Server, NEW magic,
           P \subseteq Q, IsQuorum(P, magic)
    PROVE  IsQuorum(Q, magic)
<1>1. IsFiniteSet(Q) /\ Cardinality(P) <= Cardinality(Q)
    BY ServerAssumption, FS_Subset
<1>2. Cardinality(P) \in Nat /\ Cardinality(Q) \in Nat /\ ubik_nServers \in Nat
    BY VoteWeight
<1>3. yesVotes(P, magic) <= yesVotes(Q, magic)
    BY <1>1, <1>2, VoteWeight
<1>4. yesVotes(P, magic) \in Nat /\ yesVotes(Q, magic) \in Nat
    BY <1>2, VoteWeight
<1> QED
    BY <1>2, <1>3, <1>4 DEF IsQuorum

(* "One guy is always the sync site": with one server there is no other    *)
(* (ubeacon_AmSyncSite).                                                   *)
LEMMA OneGuy ==
    ASSUME ubik_nServers = 1, NEW a \in Server, NEW b \in Server
    PROVE  a = b
<1>1. PICK x : Server = {x}
    BY ServerAssumption, FS_Singleton DEF ubik_nServers
<1> QED
    BY <1>1
(* There is an oldest vote (ubeacon_wait_for_votes): a set of times has a  *)
(* least one.                                                              *)
LEMMA OldestTime ==
    ASSUME NEW T \in SUBSET Nat, T # {}
    PROVE  \E m \in T : \A n \in T : m <= n
<1> DEFINE R == {ss \in Nat \X Nat : ss[1] < ss[2]}
<1>1. R = OpToRel(<, Nat)
    BY ZenonT(10) DEF OpToRel
<1>2. IsWellFoundedOn(R, Nat)
    BY <1>1, NatLessThanWellFounded
<1>3. PICK m \in T : \A n \in T : ~ (<<n, m>> \in R)
  <2> HIDE DEF R
  <2> QED
      BY <1>2, WFMin
<1>4. ASSUME NEW n \in T PROVE m <= n
  <2>1. ~ (<<n, m>> \in R) /\ <<n, m>> \in Nat \X Nat
      BY <1>3
  <2>2. ~ (n < m) /\ m \in Nat /\ n \in Nat
      BY <2>1
  <2> QED
      BY <2>2
<1> QED
    BY <1>4
=============================================================================
