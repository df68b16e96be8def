------------------------- MODULE UbikPromisesProofs -------------------------
(***************************************************************************)
(* The abstract promises exclude two sync sites for any set of servers.    *)
(* HoldersBacked is inductive: a holder comes in on a quorum, giving a     *)
(* promise takes none away from it, and a promise ends only when the       *)
(* holders that needed it are gone.                                        *)
(***************************************************************************)
EXTENDS UbikPromises, UbikServersProofs

PromisesInv == PromisesTypeOK /\ HoldersBacked

(* A promise repeated or given by a voter that was free only adds votes.   *)
LEMMA PromiseAddsVotes ==
    ASSUME PromisesTypeOK, NEW v \in Server, NEW c \in Server, NEW h \in Server,
           GivePromise(v, c), Backed(h, promise)
    PROVE  Backed(h, promise')
<1> DEFINE P == {u \in Server : promise[u] = h}
           Q == {u \in Server : promise'[u] = h}
<1>1. CASE ubik_nServers = 1
    BY <1>1 DEF Backed
<1>2. CASE ubik_nServers # 1
  <2>1. P \subseteq Q
      BY ServerAssumption DEF GivePromise, PromisesTypeOK
  <2>2. IsQuorum(P, Magic)
      BY <1>2 DEF Backed
  <2>3. IsQuorum(Q, Magic)
    <3>1. P \in SUBSET Server /\ Q \in SUBSET Server
        OBVIOUS
    <3> HIDE DEF P, Q
    <3> QED
        BY <2>1, <2>2, <3>1, QuorumGrows
  <2> QED
      BY <2>3 DEF Backed
<1> QED
    BY <1>1, <1>2

(* One step keeps the types and every holder's backing.                    *)
LEMMA PromisesStep ==
    PromisesInv /\ [PromisesNext]_promiseVars => PromisesInv'
<1> SUFFICES ASSUME PromisesInv, [PromisesNext]_promiseVars
             PROVE  PromisesInv'
    OBVIOUS
<1> USE DEF PromisesInv, PromisesTypeOK, HoldersBacked
<1>1. ASSUME NEW v \in Server, NEW c \in Server, GivePromise(v, c)
      PROVE  PromisesInv'
  <2>1. PromisesTypeOK'
      BY <1>1 DEF GivePromise
  <2>2. HoldersBacked'
    <3>1. holders' = holders
        BY <1>1 DEF GivePromise
    <3>2. ASSUME NEW h \in holders PROVE Backed(h, promise')
        BY <1>1, PromiseAddsVotes
    <3> QED
        BY <3>1, <3>2
  <2> QED
      BY <2>1, <2>2
<1>2. ASSUME NEW c \in Server, Take(c)
      PROVE  PromisesInv'
    BY <1>2 DEF Take
<1>3. ASSUME Lapse
      PROVE  PromisesInv'
  <2>1. promise' \in [Server -> Server \cup {NoHost}]
      BY <1>3 DEF Lapse
  <2>2. holders' \subseteq Server /\ \A c \in holders' : Backed(c, promise')
      BY <1>3 DEF Lapse
  <2> QED
      BY <2>1, <2>2
<1>4. CASE UNCHANGED promiseVars
    BY <1>4 DEF promiseVars, Backed
<1> QED
    BY <1>1, <1>2, <1>3, <1>4 DEF PromisesNext

(* The types and HoldersBacked hold in every reachable state.              *)
THEOREM PromisesBacked == PromisesSpec => [](PromisesTypeOK /\ HoldersBacked)
<1>1. PromisesInit => PromisesInv
    BY DEF PromisesInit, PromisesInv, PromisesTypeOK, HoldersBacked, Backed
<1>2. PromisesInv => PromisesTypeOK /\ HoldersBacked
    BY DEF PromisesInv
<1> QED
    BY <1>1, <1>2, PromisesStep, PTL DEF PromisesSpec

(* Two holders would have a voter in common, and a voter has its promise   *)
(* out to one host (vote.c: "This is the heart of our invariants").        *)
THEOREM PromisesExclude == PromisesSpec => []OneHolder
<1>1. ASSUME PromisesTypeOK, HoldersBacked PROVE OneHolder
  <2> SUFFICES ASSUME NEW a \in holders, NEW b \in holders PROVE a = b
      BY DEF OneHolder
  <2>1. a \in Server /\ b \in Server
      BY <1>1 DEF PromisesTypeOK
  <2>2. CASE ubik_nServers = 1
      BY <2>1, <2>2, OneGuy
  <2>3. CASE ubik_nServers # 1
    <3> DEFINE P == {v \in Server : promise[v] = a}
               Q == {v \in Server : promise[v] = b}
    <3>1. IsQuorum(P, Magic) /\ IsQuorum(Q, Magic)
        BY <1>1, <2>3 DEF HoldersBacked, Backed
    <3>2. \E v \in Server : v \in P /\ v \in Q
      <4>1. P \in SUBSET Server /\ Q \in SUBSET Server
          OBVIOUS
      <4> HIDE DEF P, Q
      <4> QED
          BY <3>1, <4>1, QuorumsMeet
    <3> QED
        BY <3>2
  <2> QED
      BY <2>2, <2>3
<1> QED
    BY <1>1, PromisesBacked, PTL
=============================================================================
