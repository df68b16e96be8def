------------------------- MODULE UbikElectionProofs -------------------------
(***************************************************************************)
(* What UbikElection guarantees for every set of servers, every constant   *)
(* distance between their clocks, any delay, any number of rounds, failed  *)
(* or repeated beacons and restarts: its types, that there are never two   *)
(* sync sites, and that it implements UbikPromises.  The last part says    *)
(* the same of UbikElectionTimely, where calls between servers that lost   *)
(* contact fail.                                                           *)
(***************************************************************************)
EXTENDS UbikElectionTimely, UbikServersProofs

-----------------------------------------------------------------------------
(* Type correctness                                                        *)

LEMMA TimeIsNat ==
    ASSUME TypeOK, NEW s \in Server PROVE time(s) \in Nat
BY DEF TypeOK, time

LEMMA BeaconFields ==
    ASSUME TypeOK, NEW r \in beacons
    PROVE  /\ r \in Beacon /\ r.src \in Server /\ r.dst \in Server
           /\ r.astate \in BOOLEAN /\ r.astart \in Nat /\ r.time \in Nat /\ r.live \in BOOLEAN
           /\ r.stage \in {"sent", "read", "checked", "reset", "stored"}
BY DEF TypeOK, Beacon

LEMMA AnswerFields ==
    ASSUME TypeOK, NEW s \in Server, NEW t \in Server
    PROVE  answer[s][t] \in Answer /\ answer[s][t].voteTime \in Nat
BY DEF TypeOK, Answer

(* The beacon that NewBeacon builds is one. *)
LEMMA NewBeaconType ==
    ASSUME NEW s \in Server, NEW t \in Server, NEW astate \in BOOLEAN, NEW astart \in Nat
    PROVE  NewBeacon(s, t, astate, astart) \in Beacon
BY DEF NewBeacon, Beacon

LEMMA HostIsNat == Host \subseteq Nat
BY ServerAssumption DEF Host

(* The oldest of the yes votes of a candidate that has a quorum is a time, *)
(* and none is older.                                                      *)
LEMMA OldestVote ==
    ASSUME TypeOK, NEW s \in Server, Elected(s)
    PROVE  /\ oldestYesVote(s) \in Nat
           /\ \A t \in Yes(s) : oldestYesVote(s) <= answer[s][t].voteTime
<1> DEFINE T == {answer[s][t].voteTime : t \in Yes(s)}
<1>1. Yes(s) \in SUBSET Server /\ IsQuorum(Yes(s), MagicOf(s))
    BY DEF Yes, Elected
<1>2. Yes(s) # {}
  <2> SUFFICES ASSUME Yes(s) = {} PROVE FALSE
      OBVIOUS
  <2>1. Cardinality(Yes(s)) = 0
      BY FS_EmptySet
  <2>2. yesVotes(Yes(s), MagicOf(s)) = 2 * Cardinality(Yes(s)) /\ ubik_nServers \in Nat
      BY <1>1, VoteWeight
  <2> QED
      BY <1>1, <2>1, <2>2 DEF IsQuorum
<1>3. T # {} /\ T \in SUBSET Nat
    BY <1>1, <1>2, AnswerFields
<1>4. \E m \in T : \A n \in T : m <= n
    BY <1>3, OldestTime
<1>5. oldestYesVote(s) = CHOOSE m \in T : \A t \in Yes(s) : m <= answer[s][t].voteTime
    BY DEF oldestYesVote
<1>6. \E m \in T : \A t \in Yes(s) : m <= answer[s][t].voteTime
    BY <1>4
<1>7. oldestYesVote(s) \in T /\ \A t \in Yes(s) : oldestYesVote(s) <= answer[s][t].voteTime
    BY <1>5, <1>6
<1> QED
    BY <1>3, <1>7
(* The record that the handler builds from a beacon it moves on is one.    *)
LEMMA BeaconMoves ==
    ASSUME TypeOK, NEW r \in beacons
    PROVE  /\ [r EXCEPT !.stage = "read", !.time = time(r.dst)] \in Beacon
           /\ [r EXCEPT !.stage = "checked"] \in Beacon
           /\ [r EXCEPT !.stage = "reset", !.time = time(r.dst)] \in Beacon
           /\ [r EXCEPT !.stage = "stored"] \in Beacon
           /\ [r EXCEPT !.live = FALSE] \in Beacon
BY TimeIsNat DEF TypeOK, Beacon

LEMMA HeardTypes ==
    ASSUME TypeOK, NEW r \in beacons
    PROVE  /\ LowestHeard(r) \in [host : Host, time : Nat]
           /\ SyncHeard(r) \in [host : Server \cup {0}, time : Nat]
<1>1. r.src \in Server /\ r.dst \in Server /\ r.time \in Nat
    BY BeaconFields
<1>2. lowest[r.dst] \in [host : Host, time : Nat] /\ sync[r.dst] \in [host : Server \cup {0}, time : Nat]
    BY <1>1 DEF TypeOK
<1>3. r.src \in Host /\ r.dst \in Host
    BY <1>1 DEF Host
<1>4. LowestHeard(r) \in [host : Host, time : Nat]
    BY <1>1, <1>2, <1>3 DEF LowestHeard
<1>5. SyncHeard(r) \in [host : Server \cup {0}, time : Nat]
    BY <1>1, <1>2 DEF SyncHeard
<1> QED
    BY <1>4, <1>5

LEMMA ReplyType ==
    ASSUME TypeOK, NEW r \in beacons, NEW voteTime \in Nat,
           NEW code \in {"ok", "USKEWED", "failed"}, Reply(r, code, voteTime)
    PROVE  answer' \in [Server -> [Server -> Answer]]
<1>1. r.src \in Server /\ r.dst \in Server
    BY BeaconFields
<1>2. [code |-> code, voteTime |-> voteTime] \in Answer
    BY DEF Answer
<1> QED
    BY <1>1, <1>2 DEF Reply, TypeOK

LEMMA InitTypeOK == Init => TypeOK
<1> SUFFICES ASSUME Init PROVE TypeOK
    OBVIOUS
<1>1. NoHost \in Host /\ NoAnswer \in Answer
    BY DEF Host, NoAnswer, Answer
<1>2. now \in Nat /\ offset \in [Server -> Nat]
    BY TimeAssumption, BoundAssumption DEF Init
<1>3. \A s \in Server : time(s) \in Nat
    BY <1>2 DEF time
<1> QED
    BY <1>1, <1>2, <1>3 DEF Init, TypeOK, NoRound, ubik_servers

LEMMA ForgetVotesTypes ==
    ASSUME TypeOK, NEW s \in Server, ForgetVotes(s)
    PROVE  /\ lastYesHost' \in [Server -> Host]
           /\ lastYesClaim' \in [Server -> Nat]
           /\ lastYesState' \in [Server -> BOOLEAN]
           /\ lowest' \in [Server -> [host : Host, time : Nat]]
           /\ sync' \in [Server -> [host : Server \cup {0}, time : Nat]]
           /\ yesTime' \in [Server -> [Server -> Nat]]
<1>1. NoHost \in Host
    BY DEF Host
<1> QED
    BY <1>1 DEF ForgetVotes, TypeOK

(* What the server (re)starts with is of the right type. *)
LEMMA uvote_InitTypes ==
    ASSUME TypeOK, NEW s \in Server, uvote_Init(s)
    PROVE  /\ lastYesTime' \in [Server -> Nat]
           /\ lastYesHost' \in [Server -> Host]
           /\ lastYesClaim' \in [Server -> Nat]
           /\ lastYesState' \in [Server -> BOOLEAN]
           /\ lowest' \in [Server -> [host : Host, time : Nat]]
           /\ sync' \in [Server -> [host : Server \cup {0}, time : Nat]]
           /\ yesTime' \in [Server -> [Server -> Nat]]
<1>1. time(s) \in Nat
    BY TimeIsNat
<1> QED
    BY <1>1, ForgetVotesTypes DEF uvote_Init, TypeOK

(* Every action keeps the types.                                           *)
LEMMA TypeStep == TypeOK /\ [Next]_vars => TypeOK'
<1> SUFFICES ASSUME TypeOK, [Next]_vars
             PROVE  TypeOK'
    OBVIOUS
<1>1. ASSUME Tick PROVE TypeOK'
    BY <1>1 DEF Tick, TypeOK, voteVars, beaconVars
<1>2. ASSUME NEW s \in Server, Doze(s) PROVE TypeOK'
    BY <1>2, TimeIsNat DEF Doze, TypeOK, voteVars
<1>3. ASSUME NEW s \in Server, StartRound(s) PROVE TypeOK'
  <2>1. ubeacon_AmSyncSite(s) \in BOOLEAN /\ time(s) \in Nat
      BY TimeIsNat DEF ubeacon_AmSyncSite, TypeOK
  <2>2. beacons' \subseteq Beacon
    <3>1. \A t \in up[s] : NewBeacon(s, t, ubeacon_AmSyncSite(s), time(s)) \in Beacon
        BY <2>1, NewBeaconType DEF TypeOK
    <3> QED
        BY <1>3, <3>1 DEF StartRound, TypeOK
  <2>3. answer' \in [Server -> [Server -> Answer]]
    <3>1. Waiting \in Answer /\ NoAnswer \in Answer
        BY DEF Waiting, NoAnswer, Answer
    <3> QED
        BY <1>3, <3>1 DEF StartRound, TypeOK
  <2>4. amSyncSite' \in [Server -> BOOLEAN]
      BY <1>3, <2>1 DEF StartRound, AmSyncSiteCall, TypeOK
  <2>5. round' \in [Server -> [phase : {"asleep", "sending", "waiting"}, astart : Nat]]
      BY <1>3, <2>1 DEF StartRound, TypeOK
  <2> QED
      BY <1>3, <2>2, <2>3, <2>4, <2>5 DEF StartRound, TypeOK, voteVars
<1>4. ASSUME NEW s \in Server, StartLocal(s) PROVE TypeOK'
  <2>1. ubeacon_AmSyncSite(s) \in BOOLEAN /\ round[s].astart \in Nat
      BY DEF ubeacon_AmSyncSite, TypeOK
  <2>2. beacons' \subseteq Beacon
      BY <1>4, <2>1, NewBeaconType DEF StartLocal, TypeOK
  <2>3. answer' \in [Server -> [Server -> Answer]]
    <3>1. Waiting \in Answer
        BY DEF Waiting, Answer
    <3> QED
        BY <1>4, <3>1 DEF StartLocal, TypeOK
  <2>4. amSyncSite' \in [Server -> BOOLEAN]
      BY <1>4, <2>1 DEF StartLocal, AmSyncSiteCall, TypeOK
  <2>5. round' \in [Server -> [phase : {"asleep", "sending", "waiting"}, astart : Nat]]
      BY <1>4 DEF StartLocal, TypeOK
  <2> QED
      BY <1>4, <2>2, <2>3, <2>4, <2>5 DEF StartLocal, TypeOK, voteVars
<1>5. ASSUME NEW s \in Server, EndOfRound(s)
      PROVE  answer' \in [Server -> [Server -> Answer]]
  <2>1. NoAnswer \in Answer
      BY DEF NoAnswer, Answer
  <2> QED
      BY <1>5, <2>1 DEF EndOfRound, TypeOK
<1>6. ASSUME NEW s \in Server, BackToSleep(s)
      PROVE  round' \in [Server -> [phase : {"asleep", "sending", "waiting"}, astart : Nat]]
    BY <1>6 DEF BackToSleep, TypeOK
<1>7. ASSUME NEW s \in Server, BecomeSyncSite(s) PROVE TypeOK'
  <2>1. oldestYesVote(s) + SMALLTIME \in Nat
      BY <1>7, OldestVote, TimeAssumption DEF BecomeSyncSite
  <2>2. syncSiteUntil' \in [Server -> Nat]
      BY <1>7, <2>1 DEF BecomeSyncSite, TypeOK
  <2>3. up' \in [Server -> SUBSET Server] /\ amSyncSite' \in [Server -> BOOLEAN]
      BY <1>7 DEF BecomeSyncSite, TypeOK, Answered
  <2> QED
      BY <1>5, <1>6, <1>7, <2>2, <2>3 DEF BecomeSyncSite, EndOfRound, TypeOK, voteVars
<1>8. ASSUME NEW s \in Server, LoseElection(s) PROVE TypeOK'
  <2>1. up' \in [Server -> SUBSET Server] /\ amSyncSite' \in [Server -> BOOLEAN]
      BY <1>8 DEF LoseElection, TypeOK, Answered
  <2> QED
      BY <1>5, <1>6, <1>8, <2>1 DEF LoseElection, EndOfRound, TypeOK, voteVars
<1>9. ASSUME NEW s \in Server, SkewedRound(s) PROVE TypeOK'
    BY <1>5, <1>6, <1>9, uvote_InitTypes
       DEF SkewedRound, ubik_ResetState, uvote_ResetState, ubeacon_ResetState, EndOfRound, TypeOK
<1>10. ASSUME NEW r \in beacons, ReadClock(r) PROVE TypeOK'
  <2>1. beacons' \subseteq Beacon
      BY <1>10, BeaconMoves DEF ReadClock, TypeOK
  <2> QED
      BY <1>10, <2>1 DEF ReadClock, TypeOK, voteVars, beaconVars
<1>11. ASSUME NEW r \in beacons, RefuseSkewed(r) PROVE TypeOK'
  <2>1. answer' \in [Server -> [Server -> Answer]]
      BY <1>11, ReplyType DEF RefuseSkewed
  <2> QED
      BY <1>11, <2>1 DEF RefuseSkewed, TypeOK, voteVars
<1>12. ASSUME NEW r \in beacons, BeginReset(r) PROVE TypeOK'
  <2>1. beacons' \subseteq Beacon
      BY <1>12, BeaconMoves DEF BeginReset, TypeOK
  <2>2. r.dst \in Server
      BY BeaconFields
  <2>3. round' \in [Server -> [phase : {"asleep", "sending", "waiting"}, astart : Nat]]
      BY <1>12, <2>2 DEF BeginReset, WakeThread, NoRound, TypeOK
  <2> QED
      BY <1>12, <2>1, <2>2, <2>3 DEF BeginReset, ubeacon_ResetState, TypeOK, voteVars
<1>13. ASSUME NEW r \in beacons, PassSkew(r) PROVE TypeOK'
  <2>1. beacons' \subseteq Beacon
      BY <1>13, BeaconMoves DEF PassSkew, TypeOK
  <2> QED
      BY <1>13, <2>1 DEF PassSkew, TypeOK, voteVars, beaconVars
<1>14. ASSUME NEW r \in beacons, Heard(r)
       PROVE  /\ lowest' \in [Server -> [host : Host, time : Nat]]
              /\ sync' \in [Server -> [host : Server \cup {0}, time : Nat]]
    BY <1>14, HeardTypes DEF Heard, TypeOK
<1>15. ASSUME NEW r \in beacons, VoteYes(r) PROVE TypeOK'
  <2>1. r.src \in Server /\ r.dst \in Server /\ r.time \in Nat /\ r.astart \in Nat
        /\ r.astate \in BOOLEAN /\ r.src \in Host
      BY BeaconFields DEF Host
  <2>2. answer' \in [Server -> [Server -> Answer]]
      BY <1>15, <2>1, ReplyType DEF VoteYes
  <2>3. yesTime' \in [Server -> [Server -> Nat]]
      BY <1>15, <2>1 DEF VoteYes, TypeOK
  <2>4. beacons' \subseteq Beacon
      BY <1>15 DEF VoteYes, TypeOK
  <2> QED
      BY <1>14, <1>15, <2>1, <2>2, <2>3, <2>4 DEF VoteYes, TypeOK
<1>16. ASSUME NEW r \in beacons, VoteNo(r) PROVE TypeOK'
  <2>1. answer' \in [Server -> [Server -> Answer]]
      BY <1>16, ReplyType DEF VoteNo
  <2> QED
      BY <1>14, <1>16, <2>1 DEF VoteNo, TypeOK
<1>17. ASSUME NEW s \in Server, AskAmSyncSite(s) PROVE TypeOK'
    BY <1>17 DEF AskAmSyncSite, AmSyncSiteCall, ubeacon_AmSyncSite, TypeOK, voteVars
<1>18. ASSUME NEW s \in Server, NEW t \in Server, ProbeUp(s, t) PROVE TypeOK'
    BY <1>18 DEF ProbeUp, TypeOK, voteVars
<1>19. ASSUME NEW r \in beacons PROVE GiveUpOn(r) \subseteq Beacon
    BY BeaconMoves DEF GiveUpOn, TypeOK
<1>20. ASSUME NEW r \in beacons, RpcFails(r) PROVE TypeOK'
  <2>1. answer' \in [Server -> [Server -> Answer]]
    <3>1. r.src \in Server /\ r.dst \in Server
        BY BeaconFields
    <3>2. [code |-> "failed", voteTime |-> 0] \in Answer
        BY DEF Answer
    <3> QED
        BY <1>20, <3>1, <3>2 DEF RpcFails, TypeOK
  <2>2. beacons' \subseteq Beacon
      BY <1>19, <1>20 DEF RpcFails, TypeOK
  <2> QED
      BY <1>20, <2>1, <2>2 DEF RpcFails, Fault, TypeOK, voteVars
<1>21. ASSUME NEW r \in beacons, RpcRetries(r) PROVE TypeOK'
  <2>1. beacons' \subseteq Beacon
    <3>1. NewBeacon(r.src, r.dst, r.astate, r.astart) \in Beacon
        BY BeaconFields, NewBeaconType
    <3> QED
        BY <1>19, <1>21, <3>1 DEF RpcRetries
  <2> QED
      BY <1>21, <2>1 DEF RpcRetries, Fault, TypeOK, voteVars, beaconVars
<1>22. ASSUME NEW r \in beacons, NoThread(r) PROVE TypeOK'
  <2>1. answer' \in [Server -> [Server -> Answer]]
      BY <1>22, ReplyType DEF NoThread
  <2> QED
      BY <1>22, <2>1 DEF NoThread, Fault, TypeOK, voteVars
<1>23. ASSUME NEW s \in Server, Restart(s) PROVE TypeOK'
  <2>1. answer' \in [Server -> [Server -> Answer]]
    <3>1. NoAnswer \in Answer /\ [code |-> "failed", voteTime |-> 0] \in Answer
        BY DEF NoAnswer, Answer
    <3>2. \A t, u \in Server : answer'[t][u] \in Answer
        BY <1>23, <3>1, AnswerFields DEF Restart
    <3> QED
        BY <1>23, <3>2 DEF Restart
  <2>2. beacons' \subseteq Beacon
      BY <1>23, BeaconMoves DEF Restart, Orphaned, TypeOK
  <2>3. round' \in [Server -> [phase : {"asleep", "sending", "waiting"}, astart : Nat]]
      BY <1>23 DEF Restart, NoRound, TypeOK
  <2> QED
      BY <1>23, <2>1, <2>2, <2>3, uvote_InitTypes DEF Restart, ubik_servers, TypeOK
<1>24. ASSUME NEW r \in beacons, RefuseStranger(r) PROVE TypeOK'
  <2>1. answer' \in [Server -> [Server -> Answer]]
      BY <1>24, ReplyType DEF RefuseStranger
  <2> QED
      BY <1>24, <2>1 DEF RefuseStranger, TypeOK, voteVars
<1>25. ASSUME NEW r \in beacons, StoreYesTime(r) PROVE TypeOK'
  <2>1. beacons' \subseteq Beacon
      BY <1>25, BeaconMoves DEF StoreYesTime, TypeOK
  <2>2. r.dst \in Server /\ r.time \in Nat
      BY BeaconFields
  <2> QED
      BY <1>25, <2>1, <2>2 DEF StoreYesTime, TypeOK, beaconVars
<1>26. ASSUME NEW r \in beacons, EndReset(r) PROVE TypeOK'
  <2>1. answer' \in [Server -> [Server -> Answer]]
      BY <1>26, ReplyType DEF EndReset
  <2>2. r.dst \in Server
      BY BeaconFields
  <2> QED
      BY <1>26, <2>1, <2>2, ForgetVotesTypes DEF EndReset, TypeOK
<1>27. CASE UNCHANGED vars
    BY <1>27 DEF vars, voteVars, beaconVars, TypeOK
<1> QED
    BY <1>1, <1>2, <1>3, <1>4, <1>7, <1>8, <1>9, <1>10, <1>11, <1>12, <1>13, <1>15, <1>16,
       <1>17, <1>18, <1>20, <1>21, <1>22, <1>23, <1>24, <1>25, <1>26, <1>27
       DEF Next, BeaconThread, Handler, Network

(* The variables of vote.c and beacon.c always hold values of their types. *)
THEOREM TypeCorrect == Spec => []TypeOK
BY InitTypeOK, TypeStep, PTL DEF Spec

-----------------------------------------------------------------------------
(***************************************************************************)
(* There are never two sync sites.                                         *)
(*                                                                         *)
(* The argument runs along ElectionInv: what a voter still remembers       *)
(* accounts for every vote it gave (VotesRemembered), so its votes for     *)
(* different hosts are more than BIGTIME apart (VotesApart); what a        *)
(* candidate counts was really given, by a voter whose clock is close      *)
(* (HandlersTimely, AnswersTrue), so its mandate is backed by a quorum     *)
(* (LeaseBacked).  Two mandates at one time would have a voter in common,  *)
(* whose two votes are less than SMALLTIME + MAXSKEW apart.  What a reset  *)
(* without the lock may cost has to fit in between: ResetAssumption.       *)
(***************************************************************************)

-----------------------------------------------------------------------------
(* What a step does to the clocks and to the votes                         *)

(* Time only passes, and the distances between the clocks stay.            *)
LEMMA ClockStep ==
    ASSUME TypeOK, [Next]_vars
    PROVE  /\ offset' = offset
           /\ now' \in Nat /\ now <= now'
           /\ Tick \/ now' = now
<1> USE DEF TypeOK
<1>1. CASE Tick
    BY <1>1 DEF Tick
<1>2. CASE UNCHANGED <<now, offset>>
    BY <1>2
<1>3. ASSUME NEW s \in Server, BeaconThread(s) PROVE UNCHANGED <<now, offset>>
    BY <1>3 DEF BeaconThread, Doze, StartRound, StartLocal, BecomeSyncSite, LoseElection,
                SkewedRound, EndOfRound
<1>4. ASSUME NEW s \in Server, AskAmSyncSite(s) \/ Restart(s) PROVE UNCHANGED <<now, offset>>
    BY <1>4 DEF AskAmSyncSite, Restart
<1>5. ASSUME NEW s \in Server, NEW t \in Server, ProbeUp(s, t) PROVE UNCHANGED <<now, offset>>
    BY <1>5 DEF ProbeUp
<1>6. ASSUME NEW r \in beacons, Handler(r) PROVE UNCHANGED <<now, offset>>
    BY <1>6 DEF Handler, ReadClock, RefuseSkewed, BeginReset, StoreYesTime, EndReset, PassSkew, RefuseStranger, VoteYes, VoteNo
<1>7. ASSUME NEW r \in beacons, Network(r) PROVE UNCHANGED <<now, offset>>
    BY <1>7 DEF Network, RpcFails, RpcRetries, NoThread
<1>8. CASE UNCHANGED vars
    BY <1>8 DEF vars
<1> QED
    BY <1>1, <1>2, <1>3, <1>4, <1>5, <1>6, <1>7, <1>8 DEF Next

LEMMA TimeStep ==
    ASSUME TypeOK, [Next]_vars, NEW s \in Server
    PROVE  time(s) \in Nat /\ time(s)' \in Nat /\ time(s) <= time(s)'
<1>1. offset' = offset /\ now' \in Nat /\ now <= now'
    BY ClockStep
<1>2. now \in Nat /\ offset[s] \in Nat
    BY DEF TypeOK
<1> QED
    BY <1>1, <1>2 DEF time

(* Only a vote, a reset and a restart touch what a voter remembers.        *)
LEMMA VoteVarsStep ==
    ASSUME TypeOK, [Next]_vars
    PROVE  \/ UNCHANGED <<lastYesTime, lastYesHost, yesTime>>
           \/ \E r \in beacons : VoteYes(r)
           \/ \E s \in Server : uvote_Init(s) /\ now' = now
           \/ \E r \in beacons : StoreYesTime(r)
           \/ \E r \in beacons : EndReset(r)
<1>1. ASSUME Tick PROVE UNCHANGED <<lastYesTime, lastYesHost, yesTime>>
    BY <1>1 DEF Tick, voteVars
<1>2. ASSUME NEW s \in Server, BeaconThread(s)
      PROVE  UNCHANGED <<lastYesTime, lastYesHost, yesTime>> \/ (uvote_Init(s) /\ now' = now)
    BY <1>2 DEF BeaconThread, Doze, StartRound, StartLocal, BecomeSyncSite, LoseElection, SkewedRound,
                EndOfRound, ubik_ResetState, uvote_ResetState, voteVars
<1>3. ASSUME NEW s \in Server, AskAmSyncSite(s) \/ Restart(s)
      PROVE  UNCHANGED <<lastYesTime, lastYesHost, yesTime>> \/ (uvote_Init(s) /\ now' = now)
    BY <1>3 DEF AskAmSyncSite, Restart, voteVars
<1>4. ASSUME NEW s \in Server, NEW t \in Server, ProbeUp(s, t)
      PROVE  UNCHANGED <<lastYesTime, lastYesHost, yesTime>>
    BY <1>4 DEF ProbeUp, voteVars
<1>5. ASSUME NEW r \in beacons, Handler(r)
      PROVE  /\ r.dst \in Server
             /\ \/ UNCHANGED <<lastYesTime, lastYesHost, yesTime>>
                \/ VoteYes(r) \/ StoreYesTime(r) \/ EndReset(r)
    BY <1>5, BeaconFields DEF Handler, ReadClock, RefuseSkewed, BeginReset, PassSkew, RefuseStranger,
                VoteNo, voteVars
<1>6. ASSUME NEW r \in beacons, Network(r)
      PROVE  UNCHANGED <<lastYesTime, lastYesHost, yesTime>>
    BY <1>6 DEF Network, RpcFails, RpcRetries, NoThread, voteVars
<1>7. CASE UNCHANGED vars
    BY <1>7 DEF vars, voteVars
<1> QED
    BY <1>1, <1>2, <1>3, <1>4, <1>5, <1>6, <1>7 DEF Next
-----------------------------------------------------------------------------
(* The parts of ElectionInv, one after the other                           *)

Timely(r) ==
    /\ r.astart <= time(r.src)
    /\ r.stage # "sent" =>
        /\ r.time <= time(r.dst)
        /\ offset[r.dst] - offset[r.src] <= r.time - r.astart
    /\ r.stage = "checked" => r.time - r.astart <= MAXSKEW
    /\ Resetting(r) => time(r.dst) <= r.time + ResetDelay

(* A handler that stays where it is stays timely, whether or not its       *)
(* caller gave up.                                                         *)
LEMMA StaysTimely ==
    ASSUME TypeOK, [Next]_vars, NEW r \in beacons, Timely(r)
    PROVE  Timely(r)' /\ Timely([r EXCEPT !.live = FALSE])'
<1>1. r.src \in Server /\ r.dst \in Server /\ r.astart \in Nat /\ r.time \in Nat
    BY BeaconFields
<1>2. time(r.src) <= time(r.src)' /\ time(r.dst) <= time(r.dst)'
      /\ time(r.src) \in Nat /\ time(r.src)' \in Nat /\ time(r.dst) \in Nat /\ time(r.dst)' \in Nat
    BY <1>1, TimeStep
<1>3. offset' = offset /\ now \in Nat /\ offset[r.dst] \in Nat /\ ResetDelay \in Nat
    BY <1>1, ClockStep, ResetAssumption DEF TypeOK
<1>7. Resetting(r) => time(r.dst)' <= r.time + ResetDelay
  <2>1. CASE now' = now
      BY <1>3, <2>1 DEF Timely, time
  <2>2. CASE Tick
      BY <1>1, <1>3, <2>2 DEF Tick, time
  <2> QED
      BY <2>1, <2>2, ClockStep
<1>4. Timely(r)'
    BY <1>1, <1>2, <1>3, <1>7 DEF Timely, Resetting
<1> DEFINE q == [r EXCEPT !.live = FALSE]
<1>5. q.src = r.src /\ q.dst = r.dst /\ q.astart = r.astart /\ q.time = r.time /\ q.stage = r.stage
    BY BeaconFields DEF Beacon
<1>6. Timely(q)'
    BY <1>4, <1>5 DEF Timely, Resetting, time
<1> QED
    BY <1>4, <1>6

LEMMA NewIsTimely ==
    ASSUME TypeOK, [Next]_vars, NEW q, q.src \in Server, q.stage = "sent", q.astart \in Nat,
           q.astart <= time(q.src)
    PROVE  Timely(q)'
<1>1. time(q.src) <= time(q.src)' /\ time(q.src) \in Nat /\ time(q.src)' \in Nat
    BY TimeStep
<1> QED
    BY <1>1 DEF Timely, Resetting

(* A beacon that is there after a step was there before, gave up its       *)
(* caller, moved on, or is new.                                            *)
LEMMA HandlersStep ==
    ASSUME TypeOK, HandlersTimely, [Next]_vars
    PROVE  HandlersTimely'
<1>1. \A r \in beacons : Timely(r) /\ Timely(r)' /\ Timely([r EXCEPT !.live = FALSE])'
    BY StaysTimely DEF HandlersTimely, Timely
<1>2. ASSUME NEW s \in Server PROVE round[s].astart \in Nat /\ round[s].astart <= time(s)'
  <2>1. round[s].astart \in Nat /\ round[s].astart <= time(s)
      BY DEF HandlersTimely, TypeOK
  <2>2. time(s) <= time(s)' /\ time(s) \in Nat /\ time(s)' \in Nat
      BY TimeStep
  <2> QED
      BY <2>1, <2>2
<1> DEFINE RoundsOK == \A s \in Server : round'[s].astart <= time(s)'
           BeaconsOK == \A r \in beacons' : Timely(r)'
<1>3. ASSUME UNCHANGED round PROVE RoundsOK
    BY <1>2, <1>3
<1>4. ASSUME beacons' \subseteq beacons PROVE BeaconsOK
    BY <1>1, <1>4
<1>5. ASSUME NEW r \in beacons PROVE \A q \in GiveUpOn(r) : Timely(q)'
    BY <1>1 DEF GiveUpOn
<1>6. ASSUME Tick PROVE RoundsOK /\ BeaconsOK
    BY <1>3, <1>4, <1>6 DEF Tick, beaconVars
<1>7. ASSUME NEW s \in Server, Doze(s) PROVE RoundsOK /\ BeaconsOK
  <2>1. time(s) \in Nat /\ time(s)' = time(s)
      BY <1>7, TimeIsNat DEF Doze, time
  <2>2. RoundsOK
      BY <1>2, <1>7, <2>1 DEF Doze, TypeOK
  <2> QED
      BY <1>4, <1>7, <2>2 DEF Doze
<1>8. ASSUME NEW s \in Server, StartRound(s) PROVE RoundsOK /\ BeaconsOK
  <2>1. time(s) \in Nat /\ time(s)' = time(s)
      BY <1>8, TimeIsNat DEF StartRound, time
  <2>2. RoundsOK
      BY <1>2, <1>8, <2>1 DEF StartRound, TypeOK
  <2>3. ASSUME NEW q \in beacons', q \notin beacons PROVE Timely(q)'
    <3>1. PICK t \in up[s] : q = NewBeacon(s, t, ubeacon_AmSyncSite(s), time(s))
        BY <1>8, <2>3 DEF StartRound
    <3>2. q.src = s /\ q.stage = "sent" /\ q.astart = time(s)
        BY <3>1 DEF NewBeacon
    <3> QED
        BY <2>1, <3>2, NewIsTimely
  <2> QED
      BY <1>1, <2>2, <2>3
<1>9. ASSUME NEW s \in Server, StartLocal(s) PROVE RoundsOK /\ BeaconsOK
  <2>1. RoundsOK
      BY <1>2, <1>9 DEF StartLocal, TypeOK
  <2>2. round[s].astart \in Nat /\ round[s].astart <= time(s)
      BY DEF HandlersTimely, TypeOK
  <2>3. ASSUME NEW q \in beacons', q \notin beacons PROVE Timely(q)'
    <3>1. q = NewBeacon(s, s, ubeacon_AmSyncSite(s), round[s].astart)
        BY <1>9, <2>3 DEF StartLocal
    <3>2. q.src = s /\ q.stage = "sent" /\ q.astart = round[s].astart
        BY <3>1 DEF NewBeacon
    <3> QED
        BY <2>2, <3>2, NewIsTimely
  <2> QED
      BY <1>1, <2>1, <2>3
<1>10. ASSUME NEW s \in Server, BecomeSyncSite(s) \/ LoseElection(s) \/ SkewedRound(s)
       PROVE  RoundsOK /\ BeaconsOK
  <2>1. BackToSleep(s) /\ EndOfRound(s)
      BY <1>10 DEF BecomeSyncSite, LoseElection, SkewedRound
  <2>2. RoundsOK
      BY <1>2, <2>1 DEF BackToSleep, TypeOK
  <2> QED
      BY <1>4, <2>1, <2>2 DEF EndOfRound
<1>11. ASSUME NEW r \in beacons, ReadClock(r) PROVE RoundsOK /\ BeaconsOK
  <2>1. r.src \in Server /\ r.dst \in Server /\ r.astart \in Nat /\ r \in Beacon
      BY BeaconFields
  <2>2. ASSUME NEW q \in beacons', q \notin beacons PROVE Timely(q)'
    <3>1. q = [r EXCEPT !.stage = "read", !.time = time(r.dst)]
        BY <1>11, <2>2 DEF ReadClock
    <3>2. q.src = r.src /\ q.dst = r.dst /\ q.astart = r.astart /\ q.time = now + offset[r.dst]
          /\ q.stage = "read"
        BY <2>1, <3>1 DEF Beacon, time
    <3>3. r.astart <= now + offset[r.src] /\ now \in Nat /\ offset[r.src] \in Nat
          /\ offset[r.dst] \in Nat
        BY <1>1, <2>1 DEF Timely, time, TypeOK
    <3>4. now' = now /\ offset' = offset
        BY <1>11 DEF ReadClock
    <3> QED
        BY <2>1, <3>2, <3>3, <3>4 DEF Timely, Resetting, time
  <2> QED
      BY <1>1, <1>3, <1>11, <2>2 DEF ReadClock, beaconVars
<1>12. ASSUME NEW r \in beacons, PassSkew(r) PROVE RoundsOK /\ BeaconsOK
  <2> DEFINE q == [r EXCEPT !.stage = "checked"]
  <2>1. r.src \in Server /\ r.dst \in Server /\ r.astart \in Nat /\ r.time \in Nat /\ r \in Beacon
      BY BeaconFields
  <2>2. q.src = r.src /\ q.dst = r.dst /\ q.astart = r.astart /\ q.time = r.time /\ q.stage = "checked"
      BY <2>1 DEF Beacon
  <2>3. r.time - r.astart <= MAXSKEW
      BY <1>12, <2>1, TimeAssumption DEF PassSkew, MustReset, Refused, TooSlow
  <2>4. Timely(r)' /\ r.stage = "read"
      BY <1>1, <1>12 DEF PassSkew
  <2>5. Timely(q)'
      BY <2>2, <2>3, <2>4 DEF Timely, Resetting, time
  <2>6. BeaconsOK
      BY <1>1, <1>12, <2>5 DEF PassSkew
  <2> QED
      BY <1>3, <1>12, <2>6 DEF PassSkew, beaconVars
<1>13. ASSUME NEW r \in beacons, BeginReset(r) PROVE RoundsOK /\ BeaconsOK
  <2>1. RoundsOK
    <3>1. \A s \in Server : round'[s] = round[s] \/ round'[s].astart = 0
        BY <1>13, BeaconFields DEF BeginReset, WakeThread, NoRound, TypeOK
    <3>2. \A s \in Server : time(s)' \in Nat
        BY TimeStep
    <3> QED
        BY <1>2, <3>1, <3>2
  <2>2. r.src \in Server /\ r.dst \in Server /\ r.astart \in Nat /\ r \in Beacon
      BY BeaconFields
  <2>3. ASSUME NEW q \in beacons', q \notin beacons PROVE Timely(q)'
    <3>1. q = [r EXCEPT !.stage = "reset", !.time = time(r.dst)]
        BY <1>13, <2>3 DEF BeginReset
    <3>2. q.src = r.src /\ q.dst = r.dst /\ q.astart = r.astart /\ q.time = now + offset[r.dst]
          /\ q.stage = "reset"
        BY <2>2, <3>1 DEF Beacon, time
    <3>3. r.astart <= now + offset[r.src] /\ now \in Nat /\ offset[r.src] \in Nat
          /\ offset[r.dst] \in Nat /\ ResetDelay \in Nat
        BY <1>1, <2>2, ResetAssumption DEF Timely, time, TypeOK
    <3>4. now' = now /\ offset' = offset
        BY <1>13 DEF BeginReset
    <3> QED
        BY <2>2, <3>2, <3>3, <3>4 DEF Timely, Resetting, time
  <2> QED
      BY <1>1, <2>1, <2>3
<1>22. ASSUME NEW r \in beacons, StoreYesTime(r) PROVE RoundsOK /\ BeaconsOK
  <2> DEFINE q == [r EXCEPT !.stage = "stored"]
  <2>1. r.src \in Server /\ r.dst \in Server /\ r.astart \in Nat /\ r.time \in Nat /\ r \in Beacon
      BY BeaconFields
  <2>2. q.src = r.src /\ q.dst = r.dst /\ q.astart = r.astart /\ q.time = r.time /\ q.stage = "stored"
      BY <2>1 DEF Beacon
  <2>3. Timely(r)' /\ r.stage = "reset"
      BY <1>1, <1>22 DEF StoreYesTime
  <2>4. Timely(q)'
      BY <2>2, <2>3 DEF Timely, Resetting, time
  <2>5. BeaconsOK
      BY <1>1, <1>22, <2>4 DEF StoreYesTime
  <2> QED
      BY <1>3, <1>22, <2>5 DEF StoreYesTime, beaconVars
<1>14. ASSUME NEW r \in beacons, RefuseSkewed(r) \/ EndReset(r) \/ RefuseStranger(r)
                                  \/ VoteYes(r) \/ VoteNo(r) \/ NoThread(r)
       PROVE  RoundsOK /\ BeaconsOK
    BY <1>3, <1>4, <1>14 DEF RefuseSkewed, EndReset, RefuseStranger, VoteYes, VoteNo, NoThread
<1>15. ASSUME NEW r \in beacons, RpcFails(r) PROVE RoundsOK /\ BeaconsOK
    BY <1>1, <1>3, <1>5, <1>15 DEF RpcFails
<1>16. ASSUME NEW r \in beacons, RpcRetries(r) PROVE RoundsOK /\ BeaconsOK
  <2>1. ASSUME NEW q, q = NewBeacon(r.src, r.dst, r.astate, r.astart) PROVE Timely(q)'
      BY <1>1, <2>1, BeaconFields, NewIsTimely DEF Timely, NewBeacon
  <2> QED
      BY <1>3, <1>5, <1>16, <2>1 DEF RpcRetries, beaconVars
<1>17. ASSUME NEW s \in Server, AskAmSyncSite(s) PROVE RoundsOK /\ BeaconsOK
    BY <1>3, <1>4, <1>17 DEF AskAmSyncSite
<1>18. ASSUME NEW s \in Server, NEW t \in Server, ProbeUp(s, t) PROVE RoundsOK /\ BeaconsOK
    BY <1>3, <1>4, <1>18 DEF ProbeUp
<1>19. ASSUME NEW s \in Server, Restart(s) PROVE RoundsOK /\ BeaconsOK
  <2>1. RoundsOK
    <3>1. \A t \in Server : round'[t] = round[t] \/ round'[t].astart = 0
        BY <1>19 DEF Restart, NoRound, TypeOK
    <3>2. \A t \in Server : time(t)' \in Nat
        BY TimeStep
    <3> QED
        BY <1>2, <3>1, <3>2
  <2>2. BeaconsOK
      BY <1>1, <1>19 DEF Restart, Orphaned
  <2> QED
      BY <2>1, <2>2
<1>20. ASSUME UNCHANGED vars PROVE RoundsOK /\ BeaconsOK
    BY <1>3, <1>4, <1>20 DEF vars, beaconVars
<1>21. RoundsOK /\ BeaconsOK
    BY <1>6, <1>7, <1>8, <1>9, <1>10, <1>11, <1>12, <1>13, <1>14, <1>15, <1>16, <1>17, <1>18,
       <1>19, <1>20, <1>22 DEF Next, BeaconThread, Handler, Network
<1> QED
    BY <1>21 DEF HandlersTimely, Timely

(* A voter gives its vote away only if what it remembers lets it: any vote *)
(* of its for another host is more than BIGTIME older, but for what a      *)
(* reset may cost, than the new one or than the latest for this host.      *)
LEMMA VoteIsFree ==
    ASSUME TypeOK, HandlersTimely, VotesRemembered, NEW r \in beacons, VoteYes(r)
    PROVE  /\ lastYesTime[r.dst] <= r.time /\ r.time <= time(r.dst)
           /\ \A c \in Server \ {r.src} :
                  \/ yesTime[r.dst][c] = 0
                  \/ yesTime[r.dst][c] + BIGTIME < r.time + ResetDelay
                  \/ yesTime[r.dst][c] + BIGTIME < yesTime[r.dst][r.src] + ResetDelay
<1>1. r.src \in Server /\ r.dst \in Server /\ r.time \in Nat
    BY BeaconFields
<1>2. /\ lastYesTime[r.dst] <= r.time
      /\ lastYesTime[r.dst] + BIGTIME < r.time \/ r.src = lastYesHost[r.dst]
    BY DEF VoteYes, Grants, MayPromise
<1>3. r.time <= time(r.dst)
    BY DEF VoteYes, HandlersTimely
<1>4. ASSUME NEW c \in Server \ {r.src}
      PROVE  \/ yesTime[r.dst][c] = 0
             \/ yesTime[r.dst][c] + BIGTIME < r.time + ResetDelay
             \/ yesTime[r.dst][c] + BIGTIME < yesTime[r.dst][r.src] + ResetDelay
  <2>1. yesTime[r.dst][c] \in Nat /\ lastYesTime[r.dst] \in Nat /\ BIGTIME \in Nat /\ ResetDelay \in Nat
      BY <1>1, TimeAssumption, ResetAssumption DEF TypeOK
  <2>2. /\ yesTime[r.dst][c] <= lastYesTime[r.dst] + ResetDelay
        /\ \/ yesTime[r.dst][c] = 0
           \/ lastYesHost[r.dst] \in {c, NoHost}
           \/ yesTime[r.dst][c] + BIGTIME < yesTime[r.dst][lastYesHost[r.dst]] + ResetDelay
      BY <1>1 DEF VotesRemembered
  <2>3. r.src \notin {c, NoHost}
      BY <1>1, <1>4, ServerAssumption
  <2>4. CASE lastYesTime[r.dst] + BIGTIME < r.time
      BY <1>1, <2>1, <2>2, <2>4
  <2>5. CASE r.src = lastYesHost[r.dst]
      BY <2>2, <2>3, <2>5
  <2> QED
      BY <1>2, <2>4, <2>5
<1> QED
    BY <1>2, <1>3, <1>4

(* The history of votes as a vote leaves it.                               *)
LEMMA VoteYesEffect ==
    ASSUME TypeOK, NEW r \in beacons, VoteYes(r), NEW v \in Server, NEW c \in Server
    PROVE  /\ yesTime'[v][c] = IF v = r.dst /\ c = r.src /\ yesTime[v][c] < r.time
                               THEN r.time ELSE yesTime[v][c]
           /\ lastYesTime'[v] = IF v = r.dst THEN r.time ELSE lastYesTime[v]
           /\ lastYesHost'[v] = IF v = r.dst THEN r.src ELSE lastYesHost[v]
           /\ time(v)' = time(v)
<1>1. r.src \in Server /\ r.dst \in Server
    BY BeaconFields
<1> QED
    BY <1>1 DEF VoteYes, TypeOK, time

(* Votes are only ever renewed.                                            *)
LEMMA VotesGrow ==
    ASSUME TypeOK, [Next]_vars, NEW v \in Server, NEW c \in Server
    PROVE  yesTime'[v][c] \in Nat /\ yesTime[v][c] \in Nat /\ yesTime[v][c] <= yesTime'[v][c]
<1>1. yesTime[v][c] \in Nat
    BY DEF TypeOK
<1>2. ASSUME NEW r \in beacons, VoteYes(r)
      PROVE  yesTime'[v][c] \in Nat /\ yesTime[v][c] <= yesTime'[v][c]
  <2>1. r.time \in Nat
      BY BeaconFields
  <2> QED
      BY <1>1, <1>2, <2>1, VoteYesEffect
<1>3. ASSUME yesTime' = yesTime PROVE yesTime'[v][c] \in Nat /\ yesTime[v][c] <= yesTime'[v][c]
    BY <1>1, <1>3
<1> QED
    BY <1>1, <1>2, <1>3, VoteVarsStep DEF uvote_Init, StoreYesTime, EndReset, ForgetVotes

LEMMA RestartEffect ==
    ASSUME TypeOK, NEW s \in Server, uvote_Init(s), NEW v \in Server
    PROVE  /\ yesTime' = yesTime
           /\ lastYesTime'[v] = IF v = s THEN time(s) ELSE lastYesTime[v]
           /\ lastYesHost'[v] = IF v = s THEN NoHost ELSE lastYesHost[v]
BY DEF uvote_Init, ForgetVotes, TypeOK

(* What VotesRemembered says of the voter v and the host c.                *)
Remembers(v, c) ==
    /\ yesTime[v][c] <= lastYesTime[v] + ResetDelay
    /\ \/ yesTime[v][c] = 0
       \/ lastYesHost[v] \in {c, NoHost}
       \/ yesTime[v][c] + BIGTIME < yesTime[v][lastYesHost[v]] + ResetDelay

LEMMA VoteRemembered ==
    ASSUME TypeOK, HandlersTimely, VotesRemembered, NEW r \in beacons, VoteYes(r),
           NEW v \in Server, NEW c \in Server
    PROVE  Remembers(v, c)'
<1>1. r.time \in Nat /\ r.src \in Server /\ r.dst \in Server
    BY BeaconFields
<1>2. /\ yesTime[v][c] \in Nat /\ yesTime[v][r.src] \in Nat /\ lastYesTime[v] \in Nat
      /\ BIGTIME \in Nat /\ ResetDelay \in Nat
    BY <1>1, TimeAssumption, ResetAssumption DEF TypeOK
<1>3. Remembers(v, c) /\ yesTime[v][r.src] <= lastYesTime[v] + ResetDelay
    BY <1>1 DEF VotesRemembered, Remembers
<1>4. CASE v # r.dst
  <2>1. \A d \in Server : yesTime'[v][d] = yesTime[v][d]
      BY <1>4, VoteYesEffect
  <2>2. lastYesTime'[v] = lastYesTime[v] /\ lastYesHost'[v] = lastYesHost[v]
      BY <1>4, VoteYesEffect
  <2>3. CASE lastYesHost[v] \in Server
      BY <1>3, <2>1, <2>2, <2>3 DEF Remembers
  <2>4. CASE lastYesHost[v] = NoHost
      BY <1>3, <2>1, <2>2, <2>4 DEF Remembers
  <2> QED
      BY <2>3, <2>4 DEF TypeOK, Host
<1>5. CASE v = r.dst
  <2>1. lastYesTime'[v] = r.time /\ lastYesHost'[v] = r.src /\ lastYesTime[v] <= r.time
      BY <1>5, VoteYesEffect, VoteIsFree
  <2>2. /\ yesTime'[v][r.src] \in Nat /\ yesTime[v][r.src] <= yesTime'[v][r.src]
        /\ r.time <= yesTime'[v][r.src] /\ yesTime'[v][r.src] <= r.time + ResetDelay
      BY <1>1, <1>2, <1>3, <1>5, <2>1, VoteYesEffect
  <2>3. CASE c = r.src
      BY <2>1, <2>2, <2>3 DEF Remembers
  <2>4. CASE c # r.src
    <3>1. \/ yesTime[v][c] = 0
          \/ yesTime[v][c] + BIGTIME < r.time + ResetDelay
          \/ yesTime[v][c] + BIGTIME < yesTime[v][r.src] + ResetDelay
        BY <1>5, <2>4, VoteIsFree
    <3>2. yesTime'[v][c] = yesTime[v][c]
        BY <2>4, VoteYesEffect
    <3>3. yesTime[v][c] <= lastYesTime[v] + ResetDelay
        BY <1>3 DEF Remembers
    <3> QED
        BY <1>1, <1>2, <2>1, <2>2, <3>1, <3>2, <3>3 DEF Remembers
  <2> QED
      BY <2>3, <2>4
<1> QED
    BY <1>4, <1>5

LEMMA RememberedStep ==
    ASSUME TypeOK, HandlersTimely, VotesRemembered, [Next]_vars
    PROVE  VotesRemembered'
<1> DEFINE Past(v, c) == lastYesTime'[v] <= time(v)' /\ yesTime'[v][c] <= time(v)'
<1> SUFFICES ASSUME NEW v \in Server, NEW c \in Server
             PROVE  Past(v, c) /\ Remembers(v, c)'
    BY DEF VotesRemembered, Remembers
<1>1. /\ yesTime[v][c] \in Nat /\ lastYesTime[v] \in Nat /\ BIGTIME \in Nat /\ ResetDelay \in Nat
      /\ time(v) \in Nat /\ time(v)' \in Nat /\ time(v) <= time(v)'
    BY TimeStep, TimeAssumption, ResetAssumption DEF TypeOK
<1>2. lastYesTime[v] <= time(v) /\ yesTime[v][c] <= time(v) /\ Remembers(v, c)
    BY DEF VotesRemembered, Remembers
<1>3. CASE UNCHANGED <<lastYesTime, lastYesHost, yesTime>>
    BY <1>1, <1>2, <1>3 DEF Remembers
<1>4. ASSUME NEW r \in beacons, VoteYes(r) PROVE Past(v, c) /\ Remembers(v, c)'
  <2>1. r.time \in Nat
      BY BeaconFields
  <2>2. Remembers(v, c)'
      BY <1>4, VoteRemembered
  <2>3. r.time <= time(r.dst)
      BY <1>4, VoteIsFree
  <2>4. Past(v, c)
      BY <1>1, <1>2, <1>4, <2>1, <2>3, VoteYesEffect
  <2> QED
      BY <2>2, <2>4
<1>5. ASSUME NEW s \in Server, uvote_Init(s), now' = now PROVE Past(v, c) /\ Remembers(v, c)'
  <2>1. /\ yesTime' = yesTime
        /\ lastYesTime'[v] = IF v = s THEN time(s) ELSE lastYesTime[v]
        /\ lastYesHost'[v] = IF v = s THEN NoHost ELSE lastYesHost[v]
      BY <1>5, RestartEffect
  <2> QED
      BY <1>1, <1>2, <2>1 DEF Remembers
<1>6. ASSUME NEW r \in beacons, StoreYesTime(r) PROVE Past(v, c) /\ Remembers(v, c)'
  <2>1. /\ r.time \in Nat /\ r.time <= time(r.dst) /\ time(r.dst) <= r.time + ResetDelay
      BY <1>6, BeaconFields DEF StoreYesTime, HandlersTimely, Resetting
  <2>2. /\ yesTime' = yesTime /\ lastYesHost' = lastYesHost
        /\ lastYesTime'[v] = IF v = r.dst THEN r.time ELSE lastYesTime[v]
      BY <1>6 DEF StoreYesTime, TypeOK
  <2>3. Past(v, c)
      BY <1>1, <1>2, <2>1, <2>2
  <2>4. yesTime'[v][c] <= lastYesTime'[v] + ResetDelay
      BY <1>1, <1>2, <2>1, <2>2 DEF Remembers
  <2>5. Remembers(v, c)'
      BY <1>2, <2>2, <2>4 DEF Remembers
  <2> QED
      BY <2>3, <2>5
<1>7. ASSUME NEW r \in beacons, EndReset(r) PROVE Past(v, c) /\ Remembers(v, c)'
  <2>1. /\ yesTime' = yesTime /\ lastYesTime' = lastYesTime
        /\ lastYesHost'[v] = IF v = r.dst THEN NoHost ELSE lastYesHost[v]
      BY <1>7 DEF EndReset, ForgetVotes, TypeOK
  <2> QED
      BY <1>1, <1>2, <2>1 DEF Remembers
<1> QED
    BY <1>3, <1>4, <1>5, <1>6, <1>7, VoteVarsStep

LEMMA ApartStep ==
    ASSUME TypeOK, HandlersTimely, VotesRemembered, VotesApart, [Next]_vars
    PROVE  VotesApart'
<1>1. ASSUME yesTime' = yesTime PROVE VotesApart'
    BY <1>1 DEF VotesApart
<1>2. ASSUME NEW r \in beacons, VoteYes(r) PROVE VotesApart'
  <2>1. r.time \in Nat /\ r.src \in Server /\ r.dst \in Server /\ BIGTIME \in Nat /\ ResetDelay \in Nat
      BY BeaconFields, TimeAssumption, ResetAssumption
  <2>2. ASSUME NEW c \in Server \ {r.src}, yesTime'[r.dst][c] > 0
        PROVE  yesTime'[r.dst][r.src] + ResetDelay > yesTime'[r.dst][c] + BIGTIME
    <3>1. yesTime[r.dst][c] \in Nat /\ yesTime[r.dst][r.src] \in Nat
        BY <2>1 DEF TypeOK
    <3>2. /\ yesTime'[r.dst][c] = yesTime[r.dst][c]
          /\ yesTime'[r.dst][r.src] =
                 IF yesTime[r.dst][r.src] < r.time THEN r.time ELSE yesTime[r.dst][r.src]
        BY <1>2, <2>1, VoteYesEffect
    <3>3. \/ yesTime[r.dst][c] = 0
          \/ yesTime[r.dst][c] + BIGTIME < r.time + ResetDelay
          \/ yesTime[r.dst][c] + BIGTIME < yesTime[r.dst][r.src] + ResetDelay
        BY <1>2, VoteIsFree
    <3> QED
        BY <2>1, <2>2, <3>1, <3>2, <3>3
  <2>3. ASSUME NEW v \in Server, NEW c \in Server, v # r.dst \/ c # r.src
        PROVE  yesTime'[v][c] = yesTime[v][c]
      BY <1>2, <2>3, VoteYesEffect
  <2> SUFFICES ASSUME NEW v \in Server, NEW a \in Server, NEW b \in Server,
                      a # b, yesTime'[v][a] > 0, yesTime'[v][b] > 0
               PROVE  \/ yesTime'[v][a] + ResetDelay > yesTime'[v][b] + BIGTIME
                      \/ yesTime'[v][b] + ResetDelay > yesTime'[v][a] + BIGTIME
      BY DEF VotesApart
  <2>4. CASE v # r.dst \/ r.src \notin {a, b}
    <3>1. yesTime'[v][a] = yesTime[v][a] /\ yesTime'[v][b] = yesTime[v][b]
        BY <2>3, <2>4
    <3> QED
        BY <3>1 DEF VotesApart
  <2>5. CASE v = r.dst /\ a = r.src
      BY <2>2, <2>5
  <2>6. CASE v = r.dst /\ b = r.src
      BY <2>2, <2>6
  <2> QED
      BY <2>4, <2>5, <2>6
<1> QED
    BY <1>1, <1>2, VoteVarsStep DEF uvote_Init, StoreYesTime, EndReset, ForgetVotes

(* A yes that a candidate holds after a step it held before, or has just   *)
(* been given.                                                             *)
LEMMA YesStep ==
    ASSUME TypeOK, [Next]_vars, NEW a \in Server, NEW v \in Server,
           answer'[a][v].code = "ok", answer'[a][v].voteTime > 0
    PROVE  \/ answer'[a][v] = answer[a][v]
           \/ \E r \in beacons : VoteYes(r) /\ r.src = a /\ r.dst = v /\ answer'[a][v].voteTime = r.time
<1> DEFINE Old == answer'[a][v] = answer[a][v]
<1>1. ASSUME UNCHANGED answer PROVE Old
    BY <1>1
<1>2. ASSUME NEW s \in Server, BeaconThread(s) PROVE Old
  <2>1. CASE Doze(s)
      BY <2>1 DEF Doze
  <2>2. CASE StartRound(s)
      BY <2>2 DEF StartRound, Waiting, NoAnswer, TypeOK
  <2>3. CASE StartLocal(s)
      BY <2>3 DEF StartLocal, Waiting, TypeOK
  <2>4. CASE EndOfRound(s)
      BY <2>4 DEF EndOfRound, NoAnswer, TypeOK
  <2> QED
      BY <1>2, <2>1, <2>2, <2>3, <2>4 DEF BeaconThread, BecomeSyncSite, LoseElection, SkewedRound
<1>3. ASSUME NEW s \in Server, Restart(s) PROVE Old
  <2>1. answer'[a][v] = CASE a = s -> NoAnswer
           [] a # s /\ v = s /\ answer[a][v].code = "wait" -> [code |-> "failed", voteTime |-> 0]
           [] OTHER -> answer[a][v]
      BY <1>3 DEF Restart
  <2> QED
      BY <2>1 DEF NoAnswer
<1>4. ASSUME NEW r \in beacons, VoteYes(r)
      PROVE  Old \/ (r.src = a /\ r.dst = v /\ answer'[a][v].voteTime = r.time)
  <2>1. Reply(r, "ok", r.time)
      BY <1>4 DEF VoteYes
  <2> QED
      BY <2>1, BeaconFields DEF Reply, TypeOK
<1>5. ASSUME NEW r \in beacons,
             RefuseSkewed(r) \/ EndReset(r) \/ RefuseStranger(r) \/ VoteNo(r) \/ NoThread(r)
      PROVE  Old
  <2>1. Reply(r, "USKEWED", 0) \/ Reply(r, "ok", 0) \/ Reply(r, "failed", 0)
      BY <1>5 DEF RefuseSkewed, EndReset, RefuseStranger, VoteNo, NoThread
  <2>2. CASE Reply(r, "USKEWED", 0)
      BY <2>2, BeaconFields DEF Reply, TypeOK
  <2>3. CASE Reply(r, "ok", 0)
      BY <2>3, BeaconFields DEF Reply, TypeOK
  <2>4. CASE Reply(r, "failed", 0)
      BY <2>4, BeaconFields DEF Reply, TypeOK
  <2> QED
      BY <2>1, <2>2, <2>3, <2>4
<1>6. ASSUME NEW r \in beacons, RpcFails(r) PROVE Old
    BY <1>6, BeaconFields DEF RpcFails, TypeOK
<1>7. ASSUME NEW r \in beacons, ReadClock(r) \/ PassSkew(r) \/ BeginReset(r) \/ StoreYesTime(r) \/ RpcRetries(r)
      PROVE  Old
    BY <1>7 DEF ReadClock, PassSkew, BeginReset, StoreYesTime, RpcRetries, beaconVars
<1>8. ASSUME NEW s \in Server, AskAmSyncSite(s) PROVE Old
    BY <1>8 DEF AskAmSyncSite
<1>9. ASSUME NEW s \in Server, NEW t \in Server, ProbeUp(s, t) PROVE Old
    BY <1>9 DEF ProbeUp
<1>10. CASE Tick
    BY <1>10 DEF Tick, beaconVars
<1>11. CASE UNCHANGED vars
    BY <1>11 DEF vars, beaconVars
<1> QED
    BY <1>2, <1>3, <1>4, <1>5, <1>6, <1>7, <1>8, <1>9, <1>10, <1>11 DEF Next, Handler, Network

LEMMA AnswersStep ==
    ASSUME TypeOK, HandlersTimely, VotesRemembered, AnswersTrue, [Next]_vars
    PROVE  AnswersTrue'
<1> SUFFICES ASSUME NEW a \in Server, NEW v \in Server,
                    answer'[a][v].code = "ok", answer'[a][v].voteTime > 0
             PROVE  /\ answer'[a][v].voteTime <= yesTime'[v][a]
                    /\ offset'[v] - offset'[a] <= MAXSKEW
    BY DEF AnswersTrue, Yes
<1>1. offset' = offset
    BY ClockStep
<1>2. CASE answer'[a][v] = answer[a][v]
  <2>1. answer[a][v].voteTime <= yesTime[v][a] /\ offset[v] - offset[a] <= MAXSKEW
      BY <1>2 DEF AnswersTrue, Yes
  <2>2. yesTime[v][a] <= yesTime'[v][a] /\ yesTime[v][a] \in Nat /\ yesTime'[v][a] \in Nat
      BY VotesGrow
  <2>3. answer[a][v].voteTime \in Nat
      BY AnswerFields
  <2> QED
      BY <1>1, <1>2, <2>1, <2>2, <2>3
<1>3. ASSUME NEW r \in beacons, VoteYes(r), r.src = a, r.dst = v, answer'[a][v].voteTime = r.time
      PROVE  /\ answer'[a][v].voteTime <= yesTime'[v][a]
             /\ offset'[v] - offset'[a] <= MAXSKEW
  <2>1. r.time <= yesTime'[v][a] /\ r.time \in Nat /\ r.astart \in Nat
    <3>1. r.time \in Nat /\ r.astart \in Nat /\ yesTime[v][a] \in Nat
        BY <1>3, BeaconFields DEF TypeOK
    <3> QED
        BY <1>3, <3>1, VoteYesEffect
  <2>2. offset[v] - offset[a] <= r.time - r.astart /\ r.time - r.astart <= MAXSKEW
      BY <1>3 DEF HandlersTimely, VoteYes
  <2>3. offset[v] \in Nat /\ offset[a] \in Nat /\ MAXSKEW \in Nat
      BY TimeAssumption DEF TypeOK
  <2> QED
      BY <1>1, <1>3, <2>1, <2>2, <2>3
<1> QED
    BY <1>2, <1>3, YesStep

(* Only the end of a round prolongs a mandate.                             *)
LEMMA LeaseStep ==
    ASSUME TypeOK, [Next]_vars, NEW a \in Server
    PROVE  \/ syncSiteUntil'[a] = syncSiteUntil[a]
           \/ syncSiteUntil'[a] = 0
           \/ BecomeSyncSite(a)
<1>1. CASE UNCHANGED syncSiteUntil
    BY <1>1
<1>2. ASSUME NEW s \in Server, BecomeSyncSite(s)
      PROVE  syncSiteUntil'[a] = syncSiteUntil[a] \/ BecomeSyncSite(a)
    BY <1>2 DEF BecomeSyncSite, TypeOK
<1>3. ASSUME NEW s \in Server, Restart(s)
      PROVE  syncSiteUntil'[a] = syncSiteUntil[a] \/ syncSiteUntil'[a] = 0
    BY <1>3 DEF Restart, TypeOK
<1>4. ASSUME NEW s \in Server,
             Doze(s) \/ StartRound(s) \/ StartLocal(s) \/ LoseElection(s) \/ SkewedRound(s)
             \/ AskAmSyncSite(s)
      PROVE  UNCHANGED syncSiteUntil
    BY <1>4 DEF Doze, StartRound, StartLocal, LoseElection, SkewedRound, AskAmSyncSite,
                ubik_ResetState, ubeacon_ResetState
<1>5. ASSUME NEW s \in Server, NEW t \in Server, ProbeUp(s, t) PROVE UNCHANGED syncSiteUntil
    BY <1>5 DEF ProbeUp
<1>6. ASSUME NEW r \in beacons, Handler(r) PROVE UNCHANGED syncSiteUntil
    BY <1>6 DEF Handler, ReadClock, RefuseSkewed, BeginReset, StoreYesTime, EndReset, PassSkew, RefuseStranger, VoteYes, VoteNo,
                ubik_ResetState, ubeacon_ResetState, beaconVars
<1>7. ASSUME NEW r \in beacons, Network(r) PROVE UNCHANGED syncSiteUntil
    BY <1>7 DEF Network, RpcFails, RpcRetries, NoThread, beaconVars
<1>8. CASE Tick
    BY <1>8 DEF Tick, beaconVars
<1>9. CASE UNCHANGED vars
    BY <1>9 DEF vars, beaconVars
<1> QED
    BY <1>1, <1>2, <1>3, <1>4, <1>5, <1>6, <1>7, <1>8, <1>9 DEF Next, BeaconThread

LEMMA BackedStep ==
    ASSUME TypeOK, HandlersTimely, VotesRemembered, AnswersTrue, LeaseBacked, [Next]_vars
    PROVE  LeaseBacked'
<1> SUFFICES ASSUME NEW a \in Server, syncSiteUntil'[a] > 0
             PROVE  \E Q \in SUBSET Server :
                        IsQuorum(Q, MagicOf(a)) /\ \A v \in Q : /\ syncSiteUntil'[a] <= yesTime'[v][a] + SMALLTIME
                                                           /\ offset'[v] - offset'[a] <= MAXSKEW
    BY DEF LeaseBacked, Backs
<1>1. offset' = offset
    BY ClockStep
<1>2. \A v \in Server : yesTime'[v][a] \in Nat /\ yesTime[v][a] \in Nat /\ yesTime[v][a] <= yesTime'[v][a]
    BY VotesGrow
<1>3. SMALLTIME \in Nat /\ syncSiteUntil[a] \in Nat
    BY TimeAssumption DEF TypeOK
<1>4. ASSUME syncSiteUntil'[a] = syncSiteUntil[a]
      PROVE  \E Q \in SUBSET Server :
                 IsQuorum(Q, MagicOf(a)) /\ \A v \in Q : /\ syncSiteUntil'[a] <= yesTime'[v][a] + SMALLTIME
                                                    /\ offset'[v] - offset'[a] <= MAXSKEW
  <2>1. PICK Q \in SUBSET Server : IsQuorum(Q, MagicOf(a)) /\ \A v \in Q : Backs(v, a)
      BY <1>4 DEF LeaseBacked
  <2>2. \A v \in Q : /\ syncSiteUntil'[a] <= yesTime'[v][a] + SMALLTIME
                     /\ offset'[v] - offset'[a] <= MAXSKEW
      BY <1>1, <1>2, <1>3, <1>4, <2>1 DEF Backs
  <2> QED
      BY <2>1, <2>2
<1>5. ASSUME BecomeSyncSite(a), syncSiteUntil'[a] # syncSiteUntil[a]
      PROVE  \E Q \in SUBSET Server :
                 IsQuorum(Q, MagicOf(a)) /\ \A v \in Q : /\ syncSiteUntil'[a] <= yesTime'[v][a] + SMALLTIME
                                                    /\ offset'[v] - offset'[a] <= MAXSKEW
  <2>1. Elected(a)
      BY <1>5 DEF BecomeSyncSite
  <2>2. Yes(a) \in SUBSET Server /\ IsQuorum(Yes(a), MagicOf(a))
      BY <2>1 DEF Elected, Yes
  <2>3. syncSiteUntil'[a] = oldestYesVote(a) + SMALLTIME
      BY <1>5 DEF BecomeSyncSite, TypeOK
  <2>4. ASSUME NEW v \in Yes(a)
        PROVE  /\ syncSiteUntil'[a] <= yesTime'[v][a] + SMALLTIME
               /\ offset'[v] - offset'[a] <= MAXSKEW
    <3>1. oldestYesVote(a) \in Nat /\ oldestYesVote(a) <= answer[a][v].voteTime
        BY <2>1, OldestVote
    <3>2. answer[a][v].voteTime <= yesTime[v][a] /\ offset[v] - offset[a] <= MAXSKEW
        BY <2>2 DEF AnswersTrue
    <3>3. answer[a][v].voteTime \in Nat /\ v \in Server
        BY <2>2, AnswerFields
    <3>4. oldestYesVote(a) <= yesTime'[v][a]
        BY <1>2, <3>1, <3>2, <3>3
    <3> QED
        BY <1>1, <1>2, <1>3, <2>3, <3>1, <3>2, <3>3, <3>4
  <2> QED
      BY <2>2, <2>4
<1> QED
    BY <1>3, <1>4, <1>5, LeaseStep

-----------------------------------------------------------------------------
(* The theorems                                                            *)

LEMMA InitElectionInv == Init => ElectionInv
<1> SUFFICES ASSUME Init PROVE ElectionInv
    OBVIOUS
<1>1. TypeOK /\ now > BIGTIME
    BY InitTypeOK, TimeAssumption DEF Init
<1>2. HandlersTimely
    BY TimeIsNat, <1>1 DEF Init, HandlersTimely, NoRound
<1>3. VotesRemembered
    BY TimeIsNat, ResetAssumption, <1>1 DEF Init, VotesRemembered
<1>4. VotesApart /\ LeaseBacked
    BY DEF Init, VotesApart, LeaseBacked
<1>5. AnswersTrue
    BY DEF Init, AnswersTrue, Yes, NoAnswer
<1> QED
    BY <1>1, <1>2, <1>3, <1>4, <1>5 DEF ElectionInv

LEMMA ElectionStep == ElectionInv /\ [Next]_vars => ElectionInv'
<1> SUFFICES ASSUME ElectionInv, [Next]_vars PROVE ElectionInv'
    OBVIOUS
<1>1. TypeOK /\ now > BIGTIME /\ HandlersTimely /\ VotesRemembered /\ VotesApart /\ AnswersTrue /\ LeaseBacked
    BY DEF ElectionInv
<1>2. TypeOK'
    BY <1>1, TypeStep
<1>3. now' > BIGTIME
    BY <1>1, ClockStep, TimeAssumption DEF TypeOK
<1>4. HandlersTimely' /\ VotesRemembered' /\ VotesApart' /\ AnswersTrue' /\ LeaseBacked'
    BY <1>1, HandlersStep, RememberedStep, ApartStep, AnswersStep, BackedStep
<1> QED
    BY <1>2, <1>3, <1>4 DEF ElectionInv

(* The five facts above hold together in every reachable state: what the   *)
(* handlers of SUBIKVOTE_Beacon and the beacon thread leave behind is      *)
(* enough to account for every vote.                                       *)
THEOREM ElectionInvariant == Spec => []ElectionInv
BY InitElectionInv, ElectionStep, PTL DEF Spec

(* No server votes for two hosts within BIGTIME, less what a reset without *)
(* the lock may cost, across stale clock readings, resets and restarts.    *)
THEOREM VotesStayApart == Spec => []VotesApart
<1>1. ElectionInv => VotesApart
    BY DEF ElectionInv
<1> QED
    BY <1>1, ElectionInvariant, PTL

(* A sync site's mandate never outruns the votes of a quorum.              *)
THEOREM MandatesBacked == Spec => []LeaseBacked
<1>1. ElectionInv => LeaseBacked
    BY DEF ElectionInv
<1> QED
    BY <1>1, ElectionInvariant, PTL

(* While a host acts as sync site, every voter behind it has voted for it  *)
(* so recently that its vote still binds.                                  *)
LEMMA VotersBound ==
    ASSUME ElectionInv, NEW a \in SyncSites, ubik_nServers # 1
    PROVE  \E Q \in SUBSET Server :
               /\ IsQuorum(Q, MagicOf(a))
               /\ \A v \in Q : yesTime[v][a] > 0 /\ time(v) < yesTime[v][a] + SMALLTIME + MAXSKEW
<1>1. a \in Server /\ syncSiteUntil[a] > time(a)
    BY DEF SyncSites, ubeacon_AmSyncSite
<1>2. /\ time(a) \in Nat /\ syncSiteUntil[a] \in Nat /\ now > BIGTIME /\ now \in Nat
      /\ \A v \in Server : offset[v] \in Nat /\ yesTime[v][a] \in Nat
    BY <1>1, TimeIsNat DEF ElectionInv, TypeOK
<1>3. PICK Q \in SUBSET Server : IsQuorum(Q, MagicOf(a)) /\ \A v \in Q : Backs(v, a)
    BY <1>1, <1>2 DEF ElectionInv, LeaseBacked
<1>4. ASSUME NEW v \in Q
      PROVE  yesTime[v][a] > 0 /\ time(v) < yesTime[v][a] + SMALLTIME + MAXSKEW
  <2>1. syncSiteUntil[a] <= yesTime[v][a] + SMALLTIME /\ offset[v] - offset[a] <= MAXSKEW
      BY <1>3 DEF Backs
  <2>2. now + offset[a] < yesTime[v][a] + SMALLTIME
      BY <1>1, <1>2, <2>1, TimeAssumption DEF time
  <2>3. SMALLTIME < BIGTIME /\ SMALLTIME \in Nat /\ BIGTIME \in Nat /\ MAXSKEW \in Nat
      BY TimeAssumption
  <2> QED
      BY <1>1, <1>2, <2>1, <2>2, <2>3 DEF time
<1> QED
    BY <1>3, <1>4

(* The servers give the extra epsilon to the same host, or never need it:  *)
(* the latter with an odd number of servers, where no draw is possible.    *)
MagicAgreed == (\A s \in Server : MagicOf(s) = Magic) \/ ubik_nServers % 2 = 1

LEMMA OneMagic ==
    ASSUME MagicAgreed, NEW s \in Server, NEW Q \in SUBSET Server, IsQuorum(Q, MagicOf(s))
    PROVE  IsQuorum(Q, Magic)
<1>1. CASE MagicOf(s) = Magic
    BY <1>1
<1>2. CASE ubik_nServers % 2 = 1
  <2>1. Cardinality(Q) \in Nat /\ ubik_nServers \in Nat
      BY VoteWeight
  <2>2. yesVotes(Q, MagicOf(s)) \in {2 * Cardinality(Q), 2 * Cardinality(Q) + 1}
      BY VoteWeight
  <2>3. yesVotes(Q, Magic) \in {2 * Cardinality(Q), 2 * Cardinality(Q) + 1}
      BY VoteWeight
  <2>4. yesVotes(Q, MagicOf(s)) > ubik_nServers
      BY DEF IsQuorum
  <2>5. 2 * Cardinality(Q) > ubik_nServers
    <3>1. ubik_nServers # 2 * Cardinality(Q)
        BY <1>2, <2>1
    <3> QED
        BY <2>1, <2>2, <2>4, <3>1
  <2> QED
      BY <2>1, <2>3, <2>5 DEF IsQuorum
<1> QED
    BY <1>1, <1>2 DEF MagicAgreed

(* Two mandates at one time would have a voter in common.                  *)
LEMMA MandatesExclude == ASSUME MagicAgreed, ElectionInv PROVE OneSyncSite
<1> SUFFICES ASSUME NEW a \in SyncSites, NEW b \in SyncSites, a # b PROVE FALSE
    BY DEF OneSyncSite
<1>1. a \in Server /\ b \in Server
    BY DEF SyncSites
<1>2. ubik_nServers # 1
    BY <1>1, OneGuy
<1>3. PICK P \in SUBSET Server :
          /\ IsQuorum(P, Magic)
          /\ \A v \in P : yesTime[v][a] > 0 /\ time(v) < yesTime[v][a] + SMALLTIME + MAXSKEW
    BY <1>2, VotersBound, <1>1, OneMagic
<1>4. PICK Q \in SUBSET Server :
          /\ IsQuorum(Q, Magic)
          /\ \A v \in Q : yesTime[v][b] > 0 /\ time(v) < yesTime[v][b] + SMALLTIME + MAXSKEW
    BY <1>2, VotersBound, <1>1, OneMagic
<1>5. PICK v \in Server : v \in P /\ v \in Q
    BY <1>3, <1>4, QuorumsMeet
<1>6. /\ yesTime[v][a] \in Nat /\ yesTime[v][b] \in Nat /\ time(v) \in Nat
      /\ yesTime[v][a] <= time(v) /\ yesTime[v][b] <= time(v)
  <2>1. TypeOK /\ VotesRemembered
      BY DEF ElectionInv
  <2>2. yesTime[v][a] <= time(v) /\ yesTime[v][b] <= time(v)
      BY <1>1, <2>1 DEF VotesRemembered
  <2> QED
      BY <1>1, <2>1, <2>2, TimeIsNat DEF TypeOK
<1>7. \/ yesTime[v][a] + ResetDelay > yesTime[v][b] + BIGTIME
      \/ yesTime[v][b] + ResetDelay > yesTime[v][a] + BIGTIME
    BY <1>1, <1>3, <1>4, <1>5 DEF ElectionInv, VotesApart
<1> QED
    BY <1>3, <1>4, <1>5, <1>6, <1>7, TimeAssumption, ResetAssumption

(* ubeacon_AmSyncSite is true at no more than one server at a time: what   *)
(* every write to the database rests on.  The hypothesis is needed: with   *)
(* two magic hosts, both halves of an even number of servers are quorums.  *)
THEOREM NeverTwoSyncSites == ASSUME MagicAgreed PROVE Spec => []OneSyncSite
<1>1. ElectionInv => OneSyncSite
    BY MandatesExclude
<1> QED
    BY <1>1, ElectionInvariant, PTL

-----------------------------------------------------------------------------
(***************************************************************************)
(* UbikElection implements UbikPromises: clocks, beacons, resets and       *)
(* restarts are one way of keeping promises that exclude each other.       *)
(*                                                                         *)
(* A vote gives a promise, or is already over when it is given (the        *)
(* handler was slow); the end of a round takes what the promises allow;    *)
(* every other step lets promises and mandates lapse.                      *)
(***************************************************************************)

promises == [v \in Server |-> promiseOf(v)]

LEMMA SameCardinality == ASSUME NEW Q PROVE Promises!Cardinality(Q) = Cardinality(Q)
BY DEF Promises!Cardinality, Cardinality

LEMMA SameQuorum ==
    ASSUME NEW Q
    PROVE  /\ Promises!IsQuorum(Q, Promises!Magic) <=> IsQuorum(Q, Magic)
           /\ Promises!ubik_nServers = ubik_nServers
<1>1. Promises!Magic = Magic
    BY DEF Promises!Magic, Promises!MagicHost, Magic, MagicHost
<1>2. Promises!ubik_nServers = ubik_nServers
    BY SameCardinality DEF Promises!ubik_nServers, ubik_nServers
<1>3. Promises!yesVotes(Q, Magic) = yesVotes(Q, Magic)
    BY SameCardinality DEF Promises!yesVotes, yesVotes
<1> QED
    BY <1>1, <1>2, <1>3 DEF Promises!IsQuorum, IsQuorum

LEMMA SameBacked ==
    ASSUME NEW c, NEW p
    PROVE  Promises!Backed(c, p) <=> ubik_nServers = 1 \/ IsQuorum({v \in Server : p[v] = c}, Magic)
BY SameQuorum DEF Promises!Backed

(* At any time a voter's promise is out to one host at most.               *)
LEMMA OnePromise ==
    ASSUME ElectionInv, NEW v \in Server, NEW a \in Server, NEW b \in Server,
           Promised(v, a), Promised(v, b)
    PROVE  a = b
<1> SUFFICES ASSUME a # b PROVE FALSE
    OBVIOUS
<1>1. TypeOK /\ VotesRemembered /\ VotesApart
    BY DEF ElectionInv
<1>2. time(v) \in Nat /\ yesTime[v][a] \in Nat /\ yesTime[v][b] \in Nat /\ lastYesTime[v] \in Nat
    BY <1>1, TimeIsNat DEF TypeOK
<1>3. yesTime[v][a] <= time(v) /\ yesTime[v][b] <= time(v)
    BY <1>1, <1>2 DEF VotesRemembered
<1>4. \/ yesTime[v][a] + ResetDelay > yesTime[v][b] + BIGTIME
      \/ yesTime[v][b] + ResetDelay > yesTime[v][a] + BIGTIME
    BY <1>1 DEF VotesApart, Promised
<1> QED
    BY <1>2, <1>3, <1>4, TimeAssumption, ResetAssumption DEF Promised

PromiseMeans ==
    \A v \in Server :
        /\ \A c \in Server : promiseOf(v) = c <=> Promised(v, c)
        /\ promiseOf(v) = NoHost <=> \A c \in Server : ~Promised(v, c)
        /\ promiseOf(v) \in Server \cup {NoHost}

LEMMA promiseOfIs == ElectionInv => PromiseMeans
<1> SUFFICES ASSUME ElectionInv, NEW v \in Server
             PROVE  /\ \A c \in Server : promiseOf(v) = c <=> Promised(v, c)
                    /\ promiseOf(v) = NoHost <=> \A c \in Server : ~Promised(v, c)
                    /\ promiseOf(v) \in Server \cup {NoHost}
    BY DEF PromiseMeans
<1>1. NoHost \notin Server
    BY ServerAssumption
<1>2. CASE \E c \in Server : Promised(v, c)
  <2>1. promiseOf(v) \in Server /\ Promised(v, promiseOf(v))
      BY <1>2 DEF promiseOf
  <2>2. \A c \in Server : Promised(v, c) => c = promiseOf(v)
      BY <2>1, OnePromise
  <2> QED
      BY <1>1, <2>1, <2>2
<1>3. CASE \A c \in Server : ~Promised(v, c)
    BY <1>1, <1>3 DEF promiseOf
<1> QED
    BY <1>2, <1>3

(* A sync site holds the promises of a quorum.                             *)
LEMMA SyncSiteBacked ==
    ASSUME MagicAgreed, ElectionInv, NEW a \in SyncSites
    PROVE  Promises!Backed(a, promises)
<1>1. CASE ubik_nServers = 1
    BY <1>1, SameBacked
<1>2. CASE ubik_nServers # 1
  <2>1. a \in Server
      BY DEF SyncSites
  <2>2. PICK Q \in SUBSET Server :
            /\ IsQuorum(Q, Magic)
            /\ \A v \in Q : yesTime[v][a] > 0 /\ time(v) < yesTime[v][a] + SMALLTIME + MAXSKEW
      BY <1>2, <2>1, VotersBound, OneMagic
  <2>3. \A v \in Q : Promised(v, a)
    <3> SUFFICES ASSUME NEW v \in Q PROVE time(v) + ResetDelay <= yesTime[v][a] + BIGTIME
        BY <2>2 DEF Promised
    <3>1. time(v) \in Nat /\ yesTime[v][a] \in Nat
        BY <2>1, TimeIsNat DEF ElectionInv, TypeOK
    <3> QED
        BY <2>2, <3>1, TimeAssumption, ResetAssumption
  <2>4. Q \subseteq {v \in Server : promises[v] = a}
      BY <2>1, <2>3, promiseOfIs DEF PromiseMeans, promises
  <2>5. IsQuorum({v \in Server : promises[v] = a}, Magic)
      BY <2>2, <2>4, QuorumGrows
  <2> QED
      BY <2>5, SameBacked
<1> QED
    BY <1>1, <1>2

SyncSitesBacked == \A c \in SyncSites : Promises!Backed(c, promises)

LEMMA SyncSiteBackedNext ==
    ASSUME MagicAgreed
    PROVE  ElectionInv' => \A c \in SyncSites' : Promises!Backed(c, promises')
<1>1. ElectionInv => SyncSitesBacked
    BY SyncSiteBacked DEF SyncSitesBacked
<1>2. ElectionInv' => SyncSitesBacked'
    BY <1>1, PTL
<1> QED
    BY <1>2, SameBacked DEF SyncSitesBacked

(* A server that is sync site after a step was before, or has just counted *)
(* its votes.                                                              *)
LEMMA SyncSitesStep ==
    ASSUME TypeOK, TypeOK', [Next]_vars, ubik_nServers # 1, NEW a \in SyncSites'
    PROVE  a \in SyncSites \/ BecomeSyncSite(a)
<1> DEFINE Kept == amSyncSite'[a] => amSyncSite[a]
<1>1. a \in Server /\ amSyncSite'[a] /\ syncSiteUntil'[a] > time(a)'
    BY DEF SyncSites, ubeacon_AmSyncSite
<1>2. ASSUME NEW s \in Server, BeaconThread(s) PROVE Kept \/ BecomeSyncSite(a)
  <2>1. CASE Doze(s)
      BY <2>1 DEF Doze
  <2>2. CASE AmSyncSiteCall(s)
      BY <1>1, <2>2 DEF AmSyncSiteCall, ubeacon_AmSyncSite, TypeOK
  <2>3. CASE LoseElection(s) \/ SkewedRound(s)
      BY <1>1, <2>3 DEF LoseElection, SkewedRound, ubik_ResetState, ubeacon_ResetState, TypeOK
  <2>4. CASE BecomeSyncSite(s)
      BY <1>1, <2>4 DEF BecomeSyncSite, TypeOK
  <2> QED
      BY <1>2, <2>1, <2>2, <2>3, <2>4 DEF BeaconThread, StartRound, StartLocal
<1>3. ASSUME NEW s \in Server, AskAmSyncSite(s) PROVE Kept
    BY <1>1, <1>3 DEF AskAmSyncSite, AmSyncSiteCall, ubeacon_AmSyncSite, TypeOK
<1>4. ASSUME NEW s \in Server, Restart(s) PROVE Kept
    BY <1>1, <1>4 DEF Restart, TypeOK
<1>5. ASSUME NEW s \in Server, NEW t \in Server, ProbeUp(s, t) PROVE Kept
    BY <1>5 DEF ProbeUp
<1>6. ASSUME NEW r \in beacons, Handler(r) PROVE Kept
  <2>1. CASE BeginReset(r)
      BY <1>1, <2>1, BeaconFields DEF BeginReset, ubeacon_ResetState, TypeOK
  <2> QED
      BY <1>6, <2>1 DEF Handler, ReadClock, RefuseSkewed, StoreYesTime, EndReset, RefuseStranger, PassSkew,
                          VoteYes, VoteNo, beaconVars
<1>7. ASSUME NEW r \in beacons, Network(r) PROVE Kept
    BY <1>7 DEF Network, RpcFails, RpcRetries, NoThread, beaconVars
<1>8. ASSUME Tick PROVE Kept
    BY <1>8 DEF Tick, beaconVars
<1>9. ASSUME UNCHANGED vars PROVE Kept
    BY <1>9 DEF vars, beaconVars
<1>10. Kept \/ BecomeSyncSite(a)
    BY <1>2, <1>3, <1>4, <1>5, <1>6, <1>7, <1>8, <1>9 DEF Next
<1>11. ASSUME Kept, ~BecomeSyncSite(a) PROVE a \in SyncSites
  <2>1. time(a) \in Nat /\ time(a)' \in Nat /\ time(a) <= time(a)'
      BY <1>1, TimeStep
  <2>2. syncSiteUntil'[a] = syncSiteUntil[a]
      BY <1>1, <1>11, <2>1, LeaseStep
  <2>3. syncSiteUntil[a] \in Nat
      BY <1>1 DEF TypeOK
  <2> QED
      BY <1>1, <1>11, <2>1, <2>2, <2>3 DEF SyncSites, ubeacon_AmSyncSite
<1> QED
    BY <1>10, <1>11

(* A vote is the only step that gives a promise.                           *)
LEMMA VotePromises ==
    ASSUME ElectionInv, ElectionInv', [Next]_vars, NEW r \in beacons, VoteYes(r)
    PROVE  [Promises!PromisesNext]_<<promises, SyncSites>>
<1>1. r.src \in Server /\ r.dst \in Server /\ r.time \in Nat /\ TypeOK /\ TypeOK'
      /\ HandlersTimely /\ VotesRemembered
    BY BeaconFields DEF ElectionInv
<1>2. SyncSites' = SyncSites
    BY DEF VoteYes, SyncSites, ubeacon_AmSyncSite, time
<1>3. \A v, c \in Server : v # r.dst \/ c # r.src => (Promised(v, c)' <=> Promised(v, c))
    BY <1>1, VoteYesEffect DEF Promised
<1>4. Promised(r.dst, r.src) => Promised(r.dst, r.src)'
  <2>1. time(r.dst)' = time(r.dst) /\ time(r.dst) \in Nat
      BY <1>1, VoteYesEffect, TimeIsNat
  <2>2. /\ yesTime[r.dst][r.src] \in Nat /\ yesTime'[r.dst][r.src] \in Nat
        /\ yesTime[r.dst][r.src] <= yesTime'[r.dst][r.src]
      BY <1>1, VotesGrow
  <2> QED
      BY <2>1, <2>2, TimeAssumption, ResetAssumption DEF Promised
<1>5. PromiseMeans /\ PromiseMeans'
    BY promiseOfIs, PTL
<1>6. \A v \in Server : v # r.dst => promiseOf(v)' = promiseOf(v)
    BY <1>3, <1>5 DEF PromiseMeans
<1>7. CASE Promised(r.dst, r.src)'
  <2>1. promiseOf(r.dst)' = r.src
      BY <1>1, <1>5, <1>7 DEF PromiseMeans
  <2>2. promiseOf(r.dst) \in {NoHost, r.src}
      BY <1>1, <1>3, <1>5, <2>1 DEF PromiseMeans
  <2>3. promises' = [promises EXCEPT ![r.dst] = r.src]
      BY <1>1, <1>6, <2>1 DEF promises
  <2>4. Promises!GivePromise(r.dst, r.src)
      BY <1>1, <1>2, <2>2, <2>3 DEF Promises!GivePromise, promises
  <2> QED
      BY <1>1, <2>4 DEF Promises!PromisesNext
<1>8. CASE ~Promised(r.dst, r.src)'
  <2>1. promiseOf(r.dst)' = promiseOf(r.dst)
      BY <1>1, <1>3, <1>4, <1>5, <1>8 DEF PromiseMeans
  <2>2. promises' = promises
      BY <1>6, <2>1 DEF promises
  <2> QED
      BY <1>2, <2>2
<1> QED
    BY <1>7, <1>8

(* When no votes change, promises only end.                                *)
LEMMA PromisesLapse ==
    ASSUME ElectionInv, ElectionInv', [Next]_vars, UNCHANGED yesTime
    PROVE  \E ended \in SUBSET Server :
               promises' = [v \in Server |-> IF v \in ended THEN NoHost ELSE promises[v]]
<1> DEFINE ended == {v \in Server : promiseOf(v)' = NoHost}
<1>1. \A v \in Server : time(v) \in Nat /\ time(v)' \in Nat /\ time(v) <= time(v)'
    BY TimeStep DEF ElectionInv
<1>2. \A v, c \in Server : Promised(v, c)' => Promised(v, c)
  <2> SUFFICES ASSUME NEW v \in Server, NEW c \in Server, Promised(v, c)' PROVE Promised(v, c)
      OBVIOUS
  <2>1. yesTime[v][c] \in Nat
      BY DEF ElectionInv, TypeOK
  <2>2. yesTime[v][c] > 0 /\ time(v)' + ResetDelay <= yesTime[v][c] + BIGTIME
      BY DEF Promised
  <2> QED
      BY <1>1, <2>1, <2>2, TimeAssumption, ResetAssumption DEF Promised
<1>3. PromiseMeans /\ PromiseMeans'
    BY promiseOfIs, PTL
<1>4. \A v \in Server : v \notin ended => promiseOf(v)' = promiseOf(v)
    BY <1>2, <1>3 DEF PromiseMeans
<1>5. promises' = [v \in Server |-> IF v \in ended THEN NoHost ELSE promises[v]]
    BY <1>4 DEF promises
<1> HIDE DEF ended
<1>6. ended \in SUBSET Server
    BY DEF ended
<1> QED
    BY <1>5, <1>6

(* Every step of the election is a step of UbikPromises, or none at all.   *)
LEMMA PromisesNextStep ==
    ASSUME MagicAgreed, ElectionInv, ElectionInv', [Next]_vars
    PROVE  [Promises!PromisesNext]_<<promises, SyncSites>>
<1>1. TypeOK /\ TypeOK'
    BY DEF ElectionInv
<1>2. ASSUME NEW r \in beacons, VoteYes(r) PROVE [Promises!PromisesNext]_<<promises, SyncSites>>
    BY <1>2, VotePromises
<1>3. ASSUME UNCHANGED yesTime, SyncSites' \subseteq SyncSites
      PROVE  [Promises!PromisesNext]_<<promises, SyncSites>>
  <2>1. \A c \in SyncSites' : Promises!Backed(c, promises')
      BY SyncSiteBackedNext
  <2>2. SyncSites' \in SUBSET SyncSites
      BY <1>3
  <2>3. Promises!Lapse
      BY <1>3, <2>1, <2>2, PromisesLapse DEF Promises!Lapse, promises
  <2> QED
      BY <2>3 DEF Promises!PromisesNext
<1>4. ASSUME UNCHANGED yesTime, NEW a \in SyncSites', a \notin SyncSites
      PROVE  [Promises!PromisesNext]_<<promises, SyncSites>>
  <2>1. ubik_nServers # 1 /\ a \in Server
      BY <1>4 DEF SyncSites, ubeacon_AmSyncSite
  <2>2. BecomeSyncSite(a)
      BY <1>1, <1>4, <2>1, SyncSitesStep
  <2>3. now' = now /\ offset' = offset
      BY <2>2 DEF BecomeSyncSite, EndOfRound
  <2>4. promises' = promises
      BY <1>4, <2>3 DEF promises, promiseOf, Promised, time
  <2>5. SyncSites' = SyncSites \cup {a}
      BY <1>1, <1>4, <2>1, <2>2, <2>3 DEF BecomeSyncSite, SyncSites, ubeacon_AmSyncSite, time, TypeOK
  <2>6. Promises!Backed(a, promises)
      BY <1>4, <2>4, SyncSiteBackedNext
  <2>7. Promises!Take(a)
      BY <2>4, <2>5, <2>6 DEF Promises!Take, promises
  <2> QED
      BY <2>1, <2>7 DEF Promises!PromisesNext
<1> QED
    BY <1>1, <1>2, <1>3, <1>4, VoteVarsStep DEF uvote_Init, StoreYesTime, EndReset, ForgetVotes

(* No promises are out at the start, so that only a server without others  *)
(* is sync site.                                                           *)
LEMMA InitPromises == Init => Promises!PromisesInit
<1> SUFFICES ASSUME Init PROVE Promises!PromisesInit
    OBVIOUS
<1>1. \A v \in Server : promiseOf(v) = NoHost
    BY DEF Init, promiseOf, Promised
<1>2. SyncSites = {c \in Server : ubik_nServers = 1}
    BY DEF Init, SyncSites, ubeacon_AmSyncSite
<1> QED
    BY <1>1, <1>2, SameQuorum DEF Promises!PromisesInit

(* Promises and sync sites, as the rest of Ubik sees them, behave as       *)
(* UbikPromises says: a promise is given or lapses, and a server becomes   *)
(* sync site only on the promises of a quorum.                             *)
THEOREM ElectionImplementsPromises == ASSUME MagicAgreed PROVE Spec => ImplementsPromises
<1>1. ElectionInv /\ ElectionInv' /\ [Next]_vars => [Promises!PromisesNext]_(Promises!promiseVars)
    BY PromisesNextStep DEF Promises!promiseVars, promises
<1> QED
    BY InitPromises, <1>1, ElectionInvariant, PTL DEF Spec, ImplementsPromises, Promises!PromisesSpec

-----------------------------------------------------------------------------
(***************************************************************************)
(* UbikElectionTimely: every step is one of UbikElection or leaves its     *)
(* variables alone, but for the call that fails because its servers lost   *)
(* contact, which takes one beacon away and gives no vote.                 *)
(***************************************************************************)

(* What a failed call leaves to the candidate: no vote that was not there. *)
LEMMA FailedCallTypes ==
    ASSUME TypeOK, NEW r \in beacons, BrokenRpcFails(r)
    PROVE  TypeOK'
<1>1. answer' \in [Server -> [Server -> Answer]]
    BY ReplyType DEF BrokenRpcFails
<1>2. beacons' \subseteq Beacon
    BY DEF BrokenRpcFails, TypeOK
<1> QED
    BY <1>1, <1>2 DEF BrokenRpcFails, TypeOK, voteVars

LEMMA FailedCallYes ==
    ASSUME TypeOK, NEW r \in beacons, BrokenRpcFails(r), NEW a \in Server, NEW v \in Server,
           answer'[a][v].code = "ok"
    PROVE  answer'[a][v] = answer[a][v]
<1>1. Reply(r, "failed", 0)
    BY DEF BrokenRpcFails
<1> QED
    BY <1>1, BeaconFields DEF Reply, TypeOK

LEMMA FailedCallStep ==
    ASSUME ElectionInv, NEW r \in beacons, BrokenRpcFails(r)
    PROVE  ElectionInv'
<1>1. TypeOK /\ now > BIGTIME /\ HandlersTimely /\ VotesRemembered /\ VotesApart /\ AnswersTrue /\ LeaseBacked
    BY DEF ElectionInv
<1>2. UNCHANGED <<now, offset, lastYesTime, lastYesHost, yesTime, syncSiteUntil, round>>
    BY DEF BrokenRpcFails, voteVars
<1>3. TypeOK' /\ now' > BIGTIME
    BY <1>1, <1>2, FailedCallTypes
<1>4. HandlersTimely'
  <2>1. beacons' \subseteq beacons
      BY DEF BrokenRpcFails
  <2> QED
      BY <1>1, <1>2, <2>1 DEF HandlersTimely, time
<1>5. VotesRemembered' /\ VotesApart'
    BY <1>1, <1>2 DEF VotesRemembered, VotesApart, time
<1>6. AnswersTrue'
  <2> SUFFICES ASSUME NEW a \in Server, NEW v \in Server,
                      answer'[a][v].code = "ok", answer'[a][v].voteTime > 0
               PROVE  /\ answer'[a][v].voteTime <= yesTime'[v][a]
                      /\ offset'[v] - offset'[a] <= MAXSKEW
      BY DEF AnswersTrue, Yes
  <2>1. answer'[a][v] = answer[a][v]
      BY <1>1, FailedCallYes
  <2> QED
      BY <1>1, <1>2, <2>1 DEF AnswersTrue, Yes
<1>7. LeaseBacked'
    BY <1>1, <1>2 DEF LeaseBacked, Backs
<1> QED
    BY <1>3, <1>4, <1>5, <1>6, <1>7 DEF ElectionInv

LEMMA TimelySteps ==
    ASSUME [TimelyNext]_timelyVars
    PROVE  [Next]_vars \/ \E r \in beacons : BrokenRpcFails(r)
<1>1. CASE TimelyTick
    BY <1>1 DEF TimelyTick, Next
<1>2. CASE TimelyStep
    BY <1>2 DEF TimelyStep, Next
<1>3. ASSUME NEW s \in Server, CrashAndRestart(s) PROVE [Next]_vars
    BY <1>3 DEF CrashAndRestart, Next
<1>4. ASSUME NEW s \in Server, Isolate(s) PROVE [Next]_vars
    BY <1>4 DEF Isolate
<1>5. CASE UNCHANGED timelyVars
    BY <1>5 DEF timelyVars
<1> QED
    BY <1>1, <1>2, <1>3, <1>4, <1>5 DEF TimelyNext

LEMMA TimelyElectionStep == ElectionInv /\ [TimelyNext]_timelyVars => ElectionInv'
BY TimelySteps, ElectionStep, FailedCallStep

LEMMA TimelyTypeStep == TimelyTypeOK /\ ElectionInv' /\ [TimelyNext]_timelyVars => TimelyTypeOK'
<1> SUFFICES ASSUME TimelyTypeOK, ElectionInv', [TimelyNext]_timelyVars
             PROVE  isolated' \subseteq Server /\ disturbedAt' \in Nat
    BY DEF TimelyTypeOK, ElectionInv
<1>1. isolated \subseteq Server /\ disturbedAt \in Nat /\ now \in Nat
    BY DEF TimelyTypeOK, TypeOK
<1>2. CASE UNCHANGED <<isolated, disturbedAt>>
    BY <1>1, <1>2
<1>3. ASSUME NEW s \in Server, CrashAndRestart(s) \/ Isolate(s)
      PROVE  isolated' \subseteq Server /\ disturbedAt' \in Nat
    BY <1>1, <1>3 DEF CrashAndRestart, Isolate
<1> QED
    BY <1>2, <1>3 DEF TimelyNext, TimelyTick, TimelyStep, BrokenRpcFails, timelyVars

LEMMA TimelyInitHolds == TimelyInit => TimelyTypeOK /\ ElectionInv
BY InitElectionInv DEF TimelyInit, TimelyTypeOK, ElectionInv, TypeOK

(* The variables keep their types when servers lose contact with the       *)
(* others and beacons to them fail.                                        *)
THEOREM TimelyTypeCorrect == TimelySpec => []TimelyTypeOK
BY TimelyInitHolds, TimelyElectionStep, TimelyTypeStep, PTL DEF TimelySpec

(* Nor are there ever two sync sites when servers lose contact: the side   *)
(* that is cut off loses its mandate before the other one can have one.    *)
THEOREM NeverTwoSitesCutOff == ASSUME MagicAgreed PROVE TimelySpec => []OneSyncSite
<1>1. ElectionInv => OneSyncSite
    BY MandatesExclude
<1> QED
    BY <1>1, TimelyInitHolds, TimelyElectionStep, PTL DEF TimelySpec

(* A call that fails, and servers that lose contact or start again, take   *)
(* promises away or leave them alone, so that UbikPromises is implemented  *)
(* here too: a server that is cut off is sync site on the promises of a    *)
(* quorum or not at all.                                                   *)
THEOREM CutOffImplementsPromises == ASSUME MagicAgreed PROVE TimelySpec => ImplementsPromises
<1>1. ASSUME ElectionInv, ElectionInv', [TimelyNext]_timelyVars
      PROVE  [Promises!PromisesNext]_(Promises!promiseVars)
  <2>1. CASE [Next]_vars
      BY <1>1, <2>1, PromisesNextStep DEF Promises!promiseVars, promises
  <2>2. CASE \E r \in beacons : BrokenRpcFails(r)
    <3>1. UNCHANGED <<now, offset, yesTime, amSyncSite, syncSiteUntil>>
        BY <2>2 DEF BrokenRpcFails, voteVars
    <3>2. UNCHANGED <<promises, SyncSites>>
        BY <3>1 DEF promises, promiseOf, Promised, SyncSites, ubeacon_AmSyncSite, time
    <3> QED
        BY <3>2 DEF Promises!promiseVars, promises
  <2> QED
      BY <1>1, <2>1, <2>2, TimelySteps
<1>2. TimelyInit => Promises!PromisesInit
    BY InitPromises DEF TimelyInit
<1> QED
    BY <1>1, <1>2, TimelyInitHolds, TimelyElectionStep, PTL
       DEF TimelySpec, ImplementsPromises, Promises!PromisesSpec
=============================================================================
