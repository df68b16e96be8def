-------------------------- MODULE UbikReplicaSafety --------------------------
(***************************************************************************)
(* The second half of the inductive invariant of UbikReplica: what labels  *)
(* say of the data of the copies, and what a quorum of them keeps.  From   *)
(* it follow the theorems of the module: its types, that a label tells the *)
(* data, that what was given up is nowhere, that the current servers have  *)
(* the database of the sync site, and that committed transactions survive. *)
(* The last sections show that every step is one of UbikStore: what a      *)
(* quorum would elect is decided by labels, and each write over a copy is  *)
(* followed to what it leaves electable.                                   *)
(***************************************************************************)
EXTENDS UbikReplicaProofs

-----------------------------------------------------------------------------
(* Copies: what steps leave alone, and how data of two transactions differ. *)

\* While s acts, nobody else leads or commits.
LEMMA OnlyOneLeads ==
    ASSUME Control, Transactions, NEW s \in Server, Acts(s), NEW u \in Server, u # s
    PROVE  ~Leader(u) /\ trans[u].phase # "commit"
<1>1. ~Leader(u)
    BY DEF Control, OneActs, Acts
<1> QED
    BY <1>1 DEF Transactions, CommitOK

\* Nothing that a transaction reads of its own changes.
Untouched(u) ==
    /\ trans'[u] = trans[u] /\ version'[u] = version[u] /\ known'[u] = known[u]
    /\ currentDB'[u] \subseteq currentDB[u] /\ (Leader(u)' => Leader(u))

LEMMA LatestStays ==
    ASSUME NEW u \in Server, Untouched(u), Latest(u), disk' = disk, clock' = clock
    PROVE  Latest(u)'
<1>1. Pending(u)' <=> Pending(u)
    BY DEF Untouched, Pending
<1>2. After(u)' = After(u)
    BY DEF Untouched, After
<1> QED
    BY <1>1, <1>2 DEF Latest, Untouched

LEMMA WrittenStays ==
    ASSUME NEW u \in Server, trans'[u] = trans[u], Written(u), disk' = disk
    PROVE  Written(u)'
<1>1. /\ Pending(u)' <=> Pending(u)
      /\ After(u)' = After(u)
      /\ Active(u)' <=> Active(u)
    BY DEF Pending, After, Active
<1> QED
    BY <1>1 DEF Written

LEMMA CopiesFrame ==
    ASSUME Copies, NEW s \in Server, disk' = disk, clock' = clock, AbortedNowhere',
           \A u \in Server : u # s => Untouched(u),
           Written(s)', Leader(s)' => Latest(s)'
    PROVE  Copies'
<1>1. SameVersionSameData'
    BY DEF Copies, SameVersionSameData
<1>2. ASSUME NEW u \in Server, u # s PROVE Written(u)' /\ (Leader(u)' => Latest(u)')
  <2>1. Untouched(u) /\ Written(u) /\ (Leader(u) => Latest(u))
      BY <1>2 DEF Copies
  <2>2. Written(u)'
      BY <2>1, WrittenStays DEF Untouched
  <2> QED
      BY <2>1, <2>2, LatestStays DEF Untouched
<1> QED
    BY <1>1, <1>2 DEF Copies

LEMMA CopiesSame ==
    ASSUME Types, Copies, UNCHANGED <<disk, trans, version, epochTime, clock, aborted>>,
           \A u \in Server : currentDB'[u] \subseteq currentDB[u],
           \A u \in Server : known'[u] = known[u] \/ ~Leader(u)
    PROVE  Copies'
<1>1. SameVersionSameData' /\ AbortedNowhere'
    BY DEF Copies, SameVersionSameData, AbortedNowhere
<1>2. ASSUME NEW u \in Server PROVE Written(u)' /\ (Leader(u)' => Latest(u)')
  <2>1. Written(u) /\ (Leader(u) => Latest(u)) /\ (Leader(u)' <=> Leader(u))
      BY DEF Copies, Leader
  <2>2. Written(u)'
      BY <2>1, WrittenStays
  <2> QED
      BY <2>1, <2>2, LatestStays DEF Untouched
<1> QED
    BY <1>1, <1>2 DEF Copies

\* One more transaction that no copy has anything of is given up.
LEMMA AbortedGrows ==
    ASSUME AbortedNowhere, disk' = disk, NEW s \in Server, Written(s), Active(s),
           trans[s].phase \notin {"release", "commit"},
           aborted' \subseteq aborted \cup {trans[s].tid}
    PROVE  AbortedNowhere'
<1>1. \A u \in Server : disk[u].data \cap Parts(trans[s].tid) = {}
    BY DEF Written, Pending
<1> QED
    BY <1>1 DEF AbortedNowhere

\* One copy is written.
LEMMA OneCopy ==
    ASSUME SameVersionSameData, NEW d \in Server, \A w \in Server : w # d => disk'[w] = disk[w],
           \A u \in Server : u # d /\ disk[u].label = disk'[d].label /\ disk'[d].label # Zero =>
                                 disk[u] = disk'[d]
    PROVE  SameVersionSameData'
BY DEF SameVersionSameData

LEMMA OneNowhere ==
    ASSUME AbortedNowhere, NEW d \in Server, \A w \in Server : w # d => disk'[w] = disk[w],
           aborted' = aborted,
           \A x \in aborted : disk'[d].data \cap Parts(x) = {}
    PROVE  AbortedNowhere'
BY DEF AbortedNowhere

\* A transaction that is not in its commit sees a copy written.
LEMMA WrittenElsewhere ==
    ASSUME NEW u \in Server, NEW d \in Server, Written(u), trans[u].phase # "commit",
           trans'[u].phase = trans[u].phase, trans'[u].tid = trans[u].tid,
               trans'[u].ok = trans[u].ok,
           \A w \in Server : w # d => disk'[w] = disk[w],
           disk'[d].data \cap Parts(trans[u].tid) # {} =>
               \E w \in Server : disk[w].data \cap Parts(trans[u].tid) # {},
           u = d => trans[u].phase # "release" \/ disk[u].data \subseteq disk'[u].data
    PROVE  Written(u)'
<1>1. \A w \in Server : disk[w].data \cap Parts(trans[u].tid) # {}
          /\ Active(u) => trans[u].phase = "release"
    BY DEF Written, Pending
<1>2. Active(u)' <=> Active(u)
    BY DEF Active
<1>3. ASSUME Active(u), NEW w \in Server, disk'[w].data \cap Parts(trans[u].tid) # {}
      PROVE  trans[u].phase = "release"
  <2>1. \E v \in Server : disk[v].data \cap Parts(trans[u].tid) # {}
      BY <1>3
  <2> QED
      BY <1>1, <1>3, <2>1
<1>4. trans[u].phase = "release" /\ u \in trans[u].ok => Parts(trans[u].tid) \subseteq disk'[u].data
  <2>1. trans[u].phase = "release"
            /\ u \in trans[u].ok => Parts(trans[u].tid) \subseteq disk[u].data
      BY DEF Written
  <2> QED
      BY <2>1
<1> QED
    BY <1>2, <1>3, <1>4 DEF Written

\* A transaction before its commit goes on.
LEMMA WrittenGoesOn ==
    ASSUME NEW s \in Server, Written(s), Active(s), disk' = disk, trans'[s].tid = trans[s].tid,
           trans[s].phase \notin {"commit", "release"},
           trans'[s].phase \in {"commit", "release"} => s \notin trans'[s].ok
    PROVE  Written(s)'
<1>1. \A u \in Server : disk[u].data \cap Parts(trans[s].tid) = {}
    BY DEF Written, Pending
<1> QED
    BY <1>1 DEF Written

LEMMA WrittenOver ==
    ASSUME NEW s \in Server, trans'[s] = NoTrans PROVE Written(s)'
BY DEF Written, Active, NoTrans

\* Outside of commits, the phase does not matter.
LEMMA LatestGoesOn ==
    ASSUME NEW s \in Server, Latest(s), UNCHANGED <<disk, clock>>,
           version'[s] = version[s], known'[s] = known[s], currentDB'[s] \subseteq currentDB[s],
           trans[s].phase # "commit", trans'[s].phase # "commit"
    PROVE  Latest(s)'
BY DEF Latest, Pending

LEMMA GarbageIsNothing == ASSUME NEW x PROVE Garbage \cap Parts(x) = {}
BY ReplicaAssumption DEF Garbage, Parts

LEMMA PartsDisjoint == ASSUME NEW x, NEW y, x # y PROVE Parts(x) \cap Parts(y) = {}
BY DEF Parts

LEMMA PartsNotEmpty == ASSUME NEW x PROVE <<x, 1>> \in Parts(x)
BY ReplicaAssumption DEF Parts

-----------------------------------------------------------------------------
(* Copies: the election, restarts and the first half of recovery.          *)

LEMMA CopiesElection ==
    ASSUME Types, Control, Copies, NEW s \in Server, Election(s) PROVE Copies'
<1>1. ASSUME NEW t \in Server, Beacon(s, t) PROVE Copies'
  <2>1. UNCHANGED <<disk, trans, version, known, currentDB, epochTime, clock, aborted>>
      BY <1>1 DEF Beacon, dbVars, recVars, tidVars, clientVars
  <2> QED
      BY <2>1, CopiesSame
<1>2. CASE Elect(s)
  <2>1. UNCHANGED <<disk, trans, version, epochTime, aborted>> /\ clock' = clock + 1
      BY <1>2 DEF Elect, Elected, dbVars, clientVars
  <2>2. \A u \in Server : ~Leader(u)'
    <3>1. \A u \in Server : epochTime[u] <= clock
        BY DEF Control, ActsOK
    <3> QED
        BY <2>1, <3>1, Times DEF Leader
  <2>3. SameVersionSameData' /\ AbortedNowhere'
      BY <2>1 DEF Copies, SameVersionSameData, AbortedNowhere
  <2>4. \A u \in Server : Written(u)'
      BY <2>1, WrittenStays DEF Copies
  <2> QED
      BY <2>2, <2>3, <2>4 DEF Copies
<1> QED
    BY <1>1, <1>2 DEF Election

LEMMA CopiesRestart ==
    ASSUME Types, Transactions, Copies, NEW s \in Server, Restart(s) PROVE Copies'
<1>1. /\ trans'[s] = NoTrans /\ clock' = clock /\ disk' = disk
      /\ epochTime'[s] = 0
      /\ \A u \in Server : u # s => Untouched(u)
  <2>1. /\ trans'[s] = NoTrans /\ clock' = clock /\ disk' = disk
        /\ epochTime'[s] = 0
        /\ \A u \in Server : u # s => /\ trans'[u] = trans[u] /\ version'[u] = version[u]
                                      /\ known'[u] = known[u]
        /\ \A u \in Server : u # s => currentDB'[u] = currentDB[u] /\ epochTime'[u] = epochTime[u]
      BY DEF Restart, Types
  <2> QED
      BY <2>1 DEF Untouched, Leader
<1>2. ~Leader(s)'
    BY <1>1, Times DEF Leader
<1>3. aborted' = IF trans[s].phase \in {"open", "update", "undo", "abort"}
                 THEN aborted \cup {trans[s].tid} ELSE aborted
    BY DEF Restart
<1>4. AbortedNowhere'
  <2>1. CASE trans[s].phase \in {"open", "update", "undo", "abort"}
      BY <1>1, <1>3, <2>1, AbortedGrows DEF Copies, Active
  <2>2. CASE trans[s].phase \notin {"open", "update", "undo", "abort"}
      BY <1>1, <1>3, <2>2 DEF Copies, AbortedNowhere
  <2> QED
      BY <2>1, <2>2
<1>5. Written(s)'
    BY <1>1, WrittenOver
<1> QED
    BY <1>1, <1>2, <1>4, <1>5, CopiesFrame

LEMMA CopiesCheck ==
    ASSUME Types, Control, Labels, Copies, NEW s \in Server, NEW t \in Server, Check(s, t)
    PROVE  Copies'
<1>1. /\ VersionFree(s) /\ AllBetter(s) /\ t # s
      /\ UNCHANGED <<disk, trans, version, epochTime, clock, aborted>>
      /\ known' = [known EXCEPT ![s][t] = disk[t].label]
      /\ currentDB' = [currentDB EXCEPT ![s] = @ \ {t}]
    BY DEF Check, dbVars, tidVars, clientVars
<1>2. /\ known'[s][t] = disk[t].label
      /\ \A w \in Server : w # t => known'[s][w] = known[s][w]
      /\ \A u \in Server : u # s => known'[u] = known[u]
  <2>1. known \in [Server -> [Server -> Version]]
      BY DEF Types
  <2> QED
      BY <1>1, <2>1
<1>3. /\ \A u \in Server : u # s => currentDB'[u] = currentDB[u]
      /\ currentDB'[s] \subseteq currentDB[s]
    BY <1>1 DEF Types
<1>4. \A u \in Server : u # s => Untouched(u)
    BY <1>1, <1>2, <1>3 DEF Untouched, Leader
<1>5. Leader(s) /\ Latest(s) /\ disk[s].label = version[s] /\ trans[s].phase # "commit"
  <2>1. Leader(s)
      BY <1>1 DEF AllBetter, Control, ActsOK
  <2> QED
      BY <1>1, <2>1, FreeLabel DEF Copies, VersionFree
<1>6. ASSUME NEW w \in Server, known'[s][w].epoch = clock
      PROVE  /\ known'[s][w].counter <= version[s].counter
             /\ known'[s][w] = version[s] => disk[w] = disk[s]
  <2>1. CASE w # t
      BY <1>2, <1>5, <1>6, <2>1 DEF Latest, Pending
  <2>2. CASE w = t
    <3>1. disk[t].label.counter <= disk[s].label.counter
        BY <1>2, <1>5, <1>6, <2>2 DEF Latest, Pending
    <3>2. disk[t].label # Zero
        BY <1>2, <1>6, <2>2, Times DEF Zero
    <3> QED
        BY <1>2, <1>5, <2>2, <3>1, <3>2 DEF Copies, SameVersionSameData
  <2> QED
      BY <2>1, <2>2
<1>7. ~Pending(s) /\ ~Pending(s)'
    BY <1>1, <1>5 DEF Pending
<1>8. Latest(s)'
    BY <1>1, <1>3, <1>5, <1>6, <1>7 DEF Latest
<1>9. Written(s)' /\ AbortedNowhere'
  <2>1. Written(s)'
      BY <1>1, WrittenStays DEF Copies
  <2> QED
      BY <1>1, <2>1 DEF Copies, AbortedNowhere
<1> QED
    BY <1>1, <1>4, <1>8, <1>9, CopiesFrame

LEMMA CopiesFetchStart ==
    ASSUME Types, Control, Transactions, Copies, NEW s \in Server, FetchStart(s) PROVE Copies'
<1>1. /\ thread[s].at = "fetch" /\ VersionFree(s)
      /\ TransIs(s, trans[s].phase, trans[s].sent, trans[s].todo, trans[s].ok, TRUE)
      /\ disk' = [disk EXCEPT ![s] = [label |-> Zero, data |-> Garbage]]
      /\ UNCHANGED <<epochTime, clock, aborted>>
    BY FetchStartDoes
<1>2. disk'[s] = [label |-> Zero, data |-> Garbage] /\ \A w \in Server : w # s => disk'[w] = disk[w]
    BY <1>1 DEF Types
<1>3. \A u \in Server : ~Leader(u) /\ trans[u].phase # "commit"
  <2>1. Acts(s) /\ ~Leader(s)
      BY <1>1 DEF Acts, Control, ActsOK
  <2> QED
      BY <2>1, OnlyOneLeads DEF Transactions, CommitOK
<1>4. SameVersionSameData'
    BY <1>2, OneCopy DEF Copies
<1>5. AbortedNowhere'
    BY <1>1, <1>2, GarbageIsNothing, OneNowhere DEF Copies
<1>6. ASSUME NEW u \in Server PROVE Written(u)'
  <2>1. trans'[u].phase = trans[u].phase /\ trans'[u].tid = trans[u].tid
            /\ trans'[u].ok = trans[u].ok
      BY <1>1 DEF TransIs
  <2>2. disk'[s].data \cap Parts(trans[u].tid) = {}
      BY <1>2, GarbageIsNothing
  <2>3. u = s => trans[u].phase # "release"
      BY <1>1 DEF VersionFree
  <2> QED
      BY <1>2, <1>3, <2>1, <2>2, <2>3, WrittenElsewhere DEF Copies
<1>7. \A u \in Server : ~Leader(u)'
    BY <1>1, <1>3 DEF Leader
<1> QED
    BY <1>4, <1>5, <1>6, <1>7 DEF Copies

LEMMA CopiesFetchEnd ==
    ASSUME Types, Control, Transactions, Labels, Copies, NEW s \in Server, FetchEnd(s) PROVE Copies'
<1> DEFINE b == thread[s].best
<1>1. /\ thread[s].at = "fetching"
      /\ disk' = [disk EXCEPT ![s] = disk[b]]
      /\ UNCHANGED <<trans, epochTime, clock, aborted>>
    BY FetchEndDoes
<1>2. b \in Server
    BY <1>1 DEF Control, LoopsOK, Others
<1> HIDE DEF b
<1>3. disk'[s] = disk[b] /\ \A w \in Server : w # s => disk'[w] = disk[w]
    BY <1>1 DEF Types
<1>4. \A u \in Server : ~Leader(u) /\ trans[u].phase # "commit"
  <2>1. Acts(s) /\ ~Leader(s)
      BY <1>1 DEF Acts, Control, ActsOK
  <2> QED
      BY <2>1, OnlyOneLeads DEF Transactions, CommitOK
<1>5. SameVersionSameData'
    BY <1>2, <1>3, OneCopy DEF Copies, SameVersionSameData
<1>6. AbortedNowhere'
    BY <1>1, <1>2, <1>3, OneNowhere DEF Copies, AbortedNowhere
<1>7. trans[s].phase = "release" => s \notin trans[s].ok
  <2>1. disk[s].data = Garbage
      BY <1>1 DEF Labels
  <2>2. trans[s].phase = "release"
            /\ s \in trans[s].ok => Parts(trans[s].tid) \subseteq disk[s].data
      BY DEF Copies, Written
  <2> QED
      BY <2>1, <2>2, GarbageIsNothing, PartsNotEmpty
<1>8. ASSUME NEW u \in Server PROVE Written(u)'
  <2>1. CASE u = s /\ trans[s].phase = "release"
      BY <1>1, <1>7, <2>1 DEF Written
  <2>2. CASE ~(u = s /\ trans[s].phase = "release")
      BY <1>1, <1>2, <1>3, <1>4, <2>2, WrittenElsewhere DEF Copies
  <2> QED
      BY <2>1, <2>2
<1>9. \A u \in Server : ~Leader(u)'
    BY <1>1, <1>4 DEF Leader
<1> QED
    BY <1>5, <1>6, <1>8, <1>9 DEF Copies

LEMMA CopiesLabel ==
    ASSUME Types, Control, Control', Transactions, Labels, Copies, NEW s \in Server, Label(s)
    PROVE  Copies'
<1> DEFINE new == [epoch |-> clock, counter |-> 1]
<1>1. /\ thread[s].at = "label" /\ VersionFree(s)
      /\ TransIs(s, trans[s].phase, trans[s].sent, trans[s].todo, trans[s].ok, TRUE)
      /\ disk' = [disk EXCEPT ![s] = [label |-> new, data |-> disk[s].data]]
      /\ epochTime' = [epochTime EXCEPT ![s] = clock]
      /\ UNCHANGED <<known, currentDB, clock, aborted>>
    BY LabelDoes
<1>2. disk'[s] = [label |-> new,
          data |-> disk[s].data] /\ \A w \in Server : w # s => disk'[w] = disk[w]
    BY <1>1 DEF Types
<1>3. Unlabelled(s)
    BY <1>1 DEF Unlabelled, Acts, Control, ActsOK
<1>4. \A u \in Server : ~Leader(u) /\ trans[u].phase # "commit"
    BY <1>3, OnlyOneLeads DEF Unlabelled, Transactions, CommitOK
<1>5. \A u \in Server : disk[u].label.epoch # clock
  <2>1. ASSUME NEW u \in Server PROVE disk[u].label.epoch # clock
    <3>1. version[u].epoch < clock /\ version[u].epoch \in Nat /\ clock \in Nat /\ clock # 0
        BY <1>3, Times DEF Labels, LabelOK, Types, Version
    <3>2. disk[u].label = version[u] \/ disk[u].label.epoch = 0
        BY DEF Labels, Zero
    <3> QED
        BY <3>1, <3>2
  <2> QED
      BY <2>1
<1>6. SameVersionSameData'
    BY <1>2, <1>5, OneCopy DEF Copies
<1>7. AbortedNowhere'
    BY <1>1, <1>2, OneNowhere DEF Copies, AbortedNowhere
<1>8. ASSUME NEW u \in Server PROVE Written(u)'
  <2>1. trans'[u].phase = trans[u].phase /\ trans'[u].tid = trans[u].tid
            /\ trans'[u].ok = trans[u].ok
      BY <1>1 DEF TransIs
  <2> QED
      BY <1>2, <1>4, <2>1, WrittenElsewhere DEF Copies
<1>9. \A u \in Server : u # s => ~Leader(u)'
  <2>1. epochTime \in [Server -> 0 .. MaxEpoch]
      BY DEF Types
  <2> QED
      BY <1>1, <1>4, <2>1 DEF Leader
<1>10. Latest(s)'
  <2>1. currentDB'[s] = {}
      BY <1>1, <1>3 DEF Control, ActsOK
  <2>2. \A t \in Server : known'[s][t].epoch # clock
    <3>1. ASSUME NEW t \in Server PROVE known[s][t].epoch # clock
      <4>1. known[s][t].epoch < clock /\ known[s][t].epoch \in Nat /\ clock \in Nat
          BY <1>3, Times, ThreadFacts DEF Labels, LabelOK, Version
      <4> QED
          BY <4>1
    <3> QED
        BY <1>1, <3>1
  <2>3. disk'[s].label.epoch = clock /\ disk'[s].label.counter <= disk'[s].label.counter
      BY <1>2
  <2>4. \A u \in Server : disk'[u].label.epoch = clock => u = s
      BY <1>2, <1>5
  <2> QED
      BY <1>1, <2>1, <2>2, <2>3, <2>4 DEF Latest
<1> QED
    BY <1>6, <1>7, <1>8, <1>9, <1>10 DEF Copies

-----------------------------------------------------------------------------
(* Copies: sending databases, and transactions before their commit.        *)

LEMMA CopiesSend ==
    ASSUME Types, Control, Transactions, Labels, Copies,
           NEW s \in Server, NEW t \in Server, Send(s, t)
    PROVE  Copies'
<1>1. /\ thread[s].at = "sending" /\ t \in thread[s].todo
      /\ UNCHANGED <<epochTime, clock, aborted>>
    BY SendDoes
<1>2. /\ Sent(s, t) \/ UNCHANGED <<disk, version, trans>>
      /\ \/ UNCHANGED <<known, currentDB>>
         \/ /\ known' = [known EXCEPT ![s][t] = version[s]]
            /\ currentDB' = [currentDB EXCEPT ![s] = @ \cup {t}]
            /\ known[s][t] = version[s] \/ Sent(s, t)
    BY SendDoes, Zenon
<1>3. /\ Leader(s) /\ Acts(s) /\ t # s /\ trans[s].phase = "none"
      /\ disk[s].label = version[s] /\ Latest(s)
  <2>1. Leader(s) /\ Acts(s) /\ t # s
      BY <1>1 DEF Acts, Control, ActsOK, LoopsOK, Others
  <2>2. trans[s].phase = "none"
      BY <1>1 DEF Transactions, TransOK, Active
  <2> QED
      BY <1>1, <2>1, <2>2 DEF Labels, Copies
<1>4. /\ \A w \in Server : w # t => disk'[w] = disk[w]
      /\ disk'[t] = disk[t] \/ (disk'[t] = disk[s] /\ VersionFree(t))
      /\ Sent(s, t) => disk'[t] = disk[s]
      /\ \A w \in Server : w # t => version'[w] = version[w]
  <2>1. CASE Sent(s, t)
    <3>1. [label |-> version[s], data |-> disk[s].data] = disk[s]
        BY <1>3 DEF Types
    <3> QED
        BY <2>1, <3>1 DEF Sent, Types
  <2>2. CASE UNCHANGED <<disk, version, trans>> /\ ~Sent(s, t)
      BY <2>2
  <2> QED
      BY <1>2, <2>1, <2>2
<1>5. \A u \in Server : /\ trans'[u].phase = trans[u].phase /\ trans'[u].tid = trans[u].tid
                        /\ trans'[u].ok = trans[u].ok
    BY <1>2 DEF Sent, TransIs
<1>6. \A u \in Server : trans[u].phase # "commit"
    BY <1>3, OnlyOneLeads
<1>7. SameVersionSameData'
    BY <1>4, OneCopy DEF Copies, SameVersionSameData
<1>8. AbortedNowhere'
    BY <1>1, <1>4, OneNowhere DEF Copies, AbortedNowhere
<1>9. ASSUME NEW u \in Server PROVE Written(u)'
  <2>1. u = t => trans[u].phase # "release" \/ disk'[u] = disk[u]
      BY <1>4 DEF VersionFree
  <2>2. disk'[t].data \cap Parts(trans[u].tid) # {} =>
            \E w \in Server : disk[w].data \cap Parts(trans[u].tid) # {}
      BY <1>4
  <2> QED
      BY <1>4, <1>5, <1>6, <2>1, <2>2, WrittenElsewhere DEF Copies
<1>10. \A u \in Server : u # s => ~Leader(u)'
    BY <1>1, <1>3, OnlyOneLeads DEF Leader
<1>11. Latest(s)'
  <2>1. ~Pending(s) /\ ~Pending(s)' /\ trans'[s].phase # "commit"
      BY <1>3, <1>5 DEF Pending
  <2>2. disk'[s] = disk[s] /\ version'[s] = version[s]
      BY <1>3, <1>4
  <2>3. disk[s].label.epoch = clock /\ disk[s].label.counter <= disk[s].label.counter
    <3>1. disk[s].label.counter \in Nat
        BY DEF Types, Version
    <3> QED
        BY <1>3, <3>1 DEF Latest
  <2>4. ASSUME NEW u \in Server, disk'[u].label.epoch = clock
        PROVE  disk'[u].label.counter <= disk[s].label.counter
      BY <1>3, <1>4, <2>1, <2>3, <2>4 DEF Latest
  <2>5. known[s][t] = version[s] => disk[t] = disk[s]
      BY <1>3, <2>1, <2>3 DEF Latest
  <2>6. ASSUME NEW w \in currentDB'[s] PROVE disk'[w] = disk[s]
    <3>1. w \in currentDB[s] => disk[w] = disk[s]
        BY <1>3 DEF Latest
    <3>2. w \in currentDB[s] \/ (w = t /\ (known[s][t] = version[s] \/ Sent(s, t)))
        BY <1>2, <2>6 DEF Types
    <3>3. w \in Server
        BY <3>2, TypeFacts
    <3> QED
        BY <1>4, <2>5, <3>1, <3>2, <3>3
  <2>7. ASSUME NEW w \in Server, known'[s][w].epoch = clock
        PROVE  known'[s][w].counter <= version[s].counter
               /\ (known'[s][w] = version[s] => disk'[w] = disk[s])
    <3>1. CASE known'[s][w] = known[s][w]
        BY <1>3, <1>4, <2>1, <2>7, <3>1 DEF Latest
    <3>2. CASE known'[s][w] # known[s][w]
      <4>1. known \in [Server -> [Server -> Version]]
          BY DEF Types
      <4>2. w = t /\ known'[s][w] = version[s] /\ (known[s][t] = version[s] \/ Sent(s, t))
          BY <1>2, <3>2, <4>1
      <4> QED
          BY <1>3, <1>4, <2>3, <2>5, <4>2
    <3> QED
        BY <3>1, <3>2
  <2> QED
      BY <1>1, <2>1, <2>2, <2>3, <2>4, <2>6, <2>7 DEF Latest
<1> QED
    BY <1>7, <1>8, <1>9, <1>10, <1>11 DEF Copies

LEMMA CopiesRecovery ==
    ASSUME Types, Control, Control', Transactions, Labels, Copies, NEW s \in Server, Recovery(s)
    PROVE  Copies'
<1>1. ASSUME UNCHANGED <<disk, trans, version, known, currentDB, epochTime, clock, aborted>>
      PROVE  Copies'
    BY <1>1, CopiesSame
<1>2. CASE Wake(s) \/ FindEnd(s) \/ SendStart(s) \/ SendEnd(s)
    BY <1>1, <1>2, WakeDoes, FindEndDoes, SendStartDoes, SendEndDoes
<1>3. ASSUME NEW t \in Server, Find(s, t) PROVE Copies'
  <2>1. /\ UNCHANGED <<disk, trans, version, currentDB, epochTime, clock, aborted>>
        /\ thread[s].at = "find" /\ known' \in [Server -> [Server -> Version]]
        /\ \A u, w \in Server : u # s \/ w # t => known'[u][w] = known[u][w]
      BY <1>3, FindDoes
  <2>2. ~Leader(s)
      BY <2>1 DEF Control, ActsOK
  <2>3. ASSUME NEW u \in Server, u # s PROVE known'[u] = known[u]
    <3>1. known[u] \in [Server -> Version] /\ known'[u] \in [Server -> Version]
        BY <2>1 DEF Types
    <3>2. \A w \in Server : known'[u][w] = known[u][w]
        BY <2>1, <2>3
    <3> QED
        BY <3>1, <3>2
  <2>4. \A u \in Server : known'[u] = known[u] \/ ~Leader(u)
      BY <2>2, <2>3
  <2> QED
      BY <2>1, <2>4, CopiesSame
<1> QED
    BY <1>2, <1>3, CopiesCheck, CopiesFetchStart, CopiesFetchEnd, CopiesLabel, CopiesSend
       DEF Recovery

LEMMA CopiesBegin ==
    ASSUME Types, Control, Transactions, Tids, Copies, NEW s \in Server, Begin(s) PROVE Copies'
<1>1. /\ Leader(s) /\ trans'[s].phase = "open" /\ trans[s] = NoTrans
      /\ trans'[s].tid = [epoch |-> epochTime[s], counter |-> tidCounter[s] + 2]
      /\ UNCHANGED <<disk, version, known, epochTime, clock, currentDB, aborted>>
      /\ \A u \in Server : u # s => trans'[u] = trans[u]
    BY TransBegin, BeginDoes
<1>2. \A u \in Server : disk[u].data \cap Parts(trans'[s].tid) = {}
  <2>1. ASSUME NEW u \in Server, NEW d \in disk[u].data, d \in Parts(trans'[s].tid) PROVE FALSE
    <3>1. d[1] = trans'[s].tid
        BY <2>1 DEF Parts
    <3>2. TidOK(d[1])
        BY DEF Tids
    <3>3. d[1].counter <= tidCounter[s] /\ d[1].counter = tidCounter[s] + 2 /\ tidCounter[s] \in Nat
        BY <1>1, <3>1, <3>2, Times DEF TidOK, Leader
    <3> QED
        BY <3>3
  <2> QED
      BY <2>1
<1>3. Written(s)'
    BY <1>1, <1>2 DEF Written
<1>4. Latest(s)'
    BY <1>1, LatestGoesOn DEF Copies, NoTrans
<1>5. AbortedNowhere'
    BY <1>1 DEF Copies, AbortedNowhere
<1> QED
    BY <1>1, <1>3, <1>4, <1>5, CopiesFrame DEF Untouched, Leader

\* A transaction takes a step that writes nothing.
LEMMA CopiesGoOn ==
    ASSUME Types, Copies, NEW s \in Server,
           UNCHANGED <<disk, version, known, currentDB, epochTime, clock>>,
           \A u \in Server : u # s => trans'[u] = trans[u],
           trans'[s].tid = trans[s].tid \/ trans'[s] = NoTrans, Active(s),
           trans[s].phase \notin {"commit", "release"},
               trans'[s].phase \notin {"commit", "release"},
           aborted' \subseteq aborted \cup {trans[s].tid}
    PROVE  Copies'
<1>1. Written(s)'
    BY WrittenGoesOn, WrittenOver DEF Copies
<1>2. Leader(s)' => Latest(s)'
    BY LatestGoesOn DEF Copies, Leader
<1>3. AbortedNowhere'
    BY AbortedGrows DEF Copies
<1> QED
    BY <1>1, <1>2, <1>3, CopiesFrame DEF Untouched, Leader

LEMMA CopiesGiven ==
    ASSUME Types, Copies, NEW s \in Server, Given(s),
           UNCHANGED <<disk, version, known, currentDB, epochTime, clock>>
    PROVE  Copies'
<1>1. trans'[s] = NoTrans /\ \A u \in Server : u # s => trans'[u] = trans[u]
    BY DEF Given, Types
<1> QED
    BY <1>1, CopiesGoOn DEF Given, Active, NoTrans

LEMMA CopiesEndTrans ==
    ASSUME Types, Copies, NEW s \in Server, EndTrans(s) PROVE Copies'
<1>1. /\ trans[s].phase = "open"
      /\ UNCHANGED <<disk, version, known, currentDB, epochTime, clock>>
    BY EndTransDoes
<1>2. CASE Given(s)
    BY <1>1, <1>2, CopiesGiven
<1>3. CASE /\ TransIs(s, "commit", trans[s].sent, currentDB[s] \cup {s}, {}, trans[s].done)
           /\ UNCHANGED aborted
  <2>1. Written(s)'
      BY <1>1, <1>3, WrittenGoesOn DEF Copies, TransIs, Active
  <2>2. ASSUME Leader(s) PROVE Latest(s)'
    <3>1. Latest(s) /\ ~Pending(s)
        BY <1>1, <2>2 DEF Copies, Pending
    <3>2. currentDB'[s] \subseteq trans'[s].todo /\ trans'[s].ok = {}
        BY <1>1, <1>3 DEF TransIs
    <3> QED
        BY <1>1, <3>1, <3>2 DEF Latest
  <2>3. AbortedNowhere'
      BY <1>1, <1>3 DEF Copies, AbortedNowhere
  <2>4. \A u \in Server : u # s => Untouched(u)
      BY <1>1, <1>3 DEF Untouched, Leader, TransIs
  <2> QED
      BY <1>1, <2>1, <2>2, <2>3, <2>4, CopiesFrame DEF Leader
<1> QED
    BY <1>2, <1>3, EndTransDoes

-----------------------------------------------------------------------------
(* Copies: the commit at the sync site, and its end.                       *)

LEMMA CopiesLocalCommit ==
    ASSUME Types, Control, Transactions, Tids, Labels, Copies, NEW s \in Server, LocalCommit(s)
    PROVE  Copies'
<1>1. /\ trans[s].phase = "commit" /\ s \in trans[s].todo
      /\ UNCHANGED <<known, currentDB, epochTime, clock, aborted>>
    BY LocalCommitDoes
<1>2. Leader(s) /\ Latest(s) /\ Written(s) /\ disk[s].label = version[s] /\ Acts(s)
  <2>1. Leader(s)
      BY <1>1 DEF Transactions, CommitOK
  <2>2. thread[s].at # "fetching"
      BY <2>1 DEF Control, ActsOK
  <2> QED
      BY <2>1, <2>2 DEF Copies, Labels, Acts
<1>3. CASE /\ trans[s].done
           /\ TransIs(s, "commit", trans[s].sent, trans[s].todo \ {s}, trans[s].ok, TRUE)
           /\ UNCHANGED <<disk, version>>
  <2>1. ~Pending(s) /\ ~Pending(s)'
      BY <1>3 DEF Pending, TransIs
  <2>2. Written(s)'
      BY <1>1, <1>2, <1>3, <2>1 DEF Written, TransIs, Active
  <2>3. \A t \in currentDB[s] : t # s
      BY DEF Transactions, TransOK, Others
  <2>4. Latest(s)'
      BY <1>1, <1>2, <1>3, <2>1, <2>3 DEF Latest, TransIs
  <2>5. AbortedNowhere'
      BY <1>1, <1>3 DEF Copies, AbortedNowhere
  <2>6. \A u \in Server : u # s => Untouched(u)
      BY <1>1, <1>3 DEF Untouched, Leader, TransIs
  <2> QED
      BY <1>1, <1>3, <2>2, <2>4, <2>5, <2>6, CopiesFrame
<1>4. CASE /\ ~trans[s].done
           /\ TransIs(s, "commit", trans[s].sent, trans[s].todo \ {s},
                            trans[s].ok \cup {s}, TRUE)
           /\ version' = [version EXCEPT ![s] = [epoch |-> version[s].epoch,
                                                      counter |-> version[s].counter + 1]]
           /\ disk' = [disk EXCEPT ![s] =
                  [label |-> [epoch |-> version[s].epoch, counter |-> version[s].counter + 1],
                   data |-> disk[s].data \cup Parts(trans[s].tid)]]
  <2>1. /\ disk'[s] = After(s) /\ \A w \in Server : w # s => disk'[w] = disk[w]
        /\ version'[s] = After(s).label
      BY <1>2, <1>4 DEF Types, After, Raised
  <2>2. /\ trans'[s].phase = "commit" /\ trans'[s].tid = trans[s].tid
        /\ trans'[s].todo = trans[s].todo \ {s} /\ trans'[s].ok = trans[s].ok \cup {s}
        /\ trans'[s].done = TRUE
        /\ \A u \in Server : u # s => trans'[u] = trans[u]
      BY <1>4 DEF TransIs
  <2>3. Pending(s) /\ ~Pending(s)' /\ s \notin trans[s].ok
      BY <1>1, <1>4, <2>2 DEF Pending, Transactions, CommitOK
  <2>4. /\ disk[s].label.epoch = clock /\ clock > 0 /\ disk[s].label.counter \in Nat
        /\ After(s).label.epoch = clock /\ After(s).label.counter = disk[s].label.counter + 1
        /\ After(s).data = disk[s].data \cup Parts(trans[s].tid)
      BY <1>2, Times DEF Latest, After, Raised, Types, Version
  <2>5. ASSUME NEW u \in Server, disk[u].label.epoch = clock
        PROVE  disk[u].label.counter <= disk[s].label.counter \/ disk[u] = After(s)
      BY <1>2, <2>5 DEF Latest
  <2>6. SameVersionSameData'
    <3>1. ASSUME NEW u \in Server, disk[u].label = After(s).label PROVE disk[u] = After(s)
        BY <2>4, <2>5, <3>1
    <3> QED
        BY <2>1, <3>1, OneCopy DEF Copies
  <2>7. AbortedNowhere'
    <3>1. trans[s].tid \notin aborted
        BY <1>1 DEF Tids, Active
    <3>2. \A x \in aborted : disk[s].data \cap Parts(x) = {}
        BY DEF Copies, AbortedNowhere
    <3>3. \A x \in aborted : disk'[s].data \cap Parts(x) = {}
        BY <2>1, <2>4, <3>1, <3>2, PartsDisjoint
    <3> QED
        BY <1>1, <2>1, <3>3, OneNowhere DEF Copies
  <2>8. ASSUME NEW u \in Server, u # s PROVE Written(u)'
    <3>1. trans[u].phase # "commit" /\ trans'[u] = trans[u]
        BY <1>2, <2>2, <2>8, OnlyOneLeads
    <3>2. CASE Active(u)
      <4>1. trans[u].tid # trans[s].tid
          BY <1>1, <2>8, <3>2 DEF Transactions, Distinct, Active
      <4>2. Parts(trans[u].tid) \cap Parts(trans[s].tid) = {}
          BY <4>1, PartsDisjoint
      <4>3. disk'[s].data \cap Parts(trans[u].tid) # {} =>
                \E w \in Server : disk[w].data \cap Parts(trans[u].tid) # {}
          BY <2>1, <2>4, <4>2
      <4> QED
          BY <2>1, <2>8, <3>1, <4>3, WrittenElsewhere DEF Copies
    <3>3. CASE ~Active(u)
        BY <3>1, <3>3 DEF Written, Active
    <3> QED
        BY <3>2, <3>3
  <2>9. Written(s)'
    <3>1. ASSUME NEW w \in Server, disk'[w].data \cap Parts(trans[s].tid) # {}
          PROVE  disk'[w] = disk'[s]
      <4>1. w = s \/ (Pending(s) /\ disk[w] = After(s))
          BY <1>1, <1>2, <2>1, <2>3, <3>1 DEF Written, Active
      <4> QED
          BY <2>1, <4>1
    <3>2. Parts(trans[s].tid) \subseteq disk'[s].data
        BY <2>1, <2>4
    <3> QED
        BY <2>2, <3>1, <3>2 DEF Written
  <2>10. Latest(s)'
    <3>1. ASSUME NEW u \in Server, disk'[u].label.epoch = clock
          PROVE  disk'[u].label.counter <= disk'[s].label.counter
      <4>1. disk'[u] = After(s)
                \/ (disk[u].label.counter <= disk[s].label.counter /\ disk'[u] = disk[u])
          BY <2>1, <2>5, <3>1
      <4>2. disk[u].label.counter \in Nat
          BY DEF Types, Version
      <4> QED
          BY <2>1, <2>4, <4>1, <4>2
    <3>2. ASSUME NEW w \in currentDB[s] PROVE w # s /\ w \in Server
        BY DEF Transactions, TransOK, Others
    <3>3. ASSUME NEW w \in currentDB[s]
          PROVE  IF w \in trans'[s].todo THEN disk'[s] = Raised(disk'[w], trans[s].tid)
                                         ELSE disk'[w] = disk'[s]
      <4>1. CASE w \in trans[s].todo
        <5>1. disk[w] = disk[s]
            BY <1>1, <1>2, <2>3, <4>1 DEF Latest
        <5> QED
            BY <2>1, <2>2, <3>2, <4>1, <5>1 DEF After
      <4>2. CASE w \notin trans[s].todo
        <5>1. disk[w] = After(s)
            BY <1>1, <1>2, <2>3, <4>2 DEF Latest
        <5> QED
            BY <2>1, <2>2, <3>2, <4>2, <5>1
      <4> QED
          BY <4>1, <4>2
    <3>4. ASSUME NEW t \in Server, known[s][t].epoch = clock
          PROVE  known[s][t].counter <= version'[s].counter /\ known[s][t] # version'[s]
      <4>1. known[s][t].counter <= version[s].counter
          BY <1>2, <3>4 DEF Latest
      <4>2. version[s].counter \in Nat /\ version'[s].counter = version[s].counter + 1
          BY <1>2, <2>1, <2>4
      <4>3. known[s][t].counter \in Nat
          BY ThreadFacts DEF Version
      <4> QED
          BY <4>1, <4>2, <4>3
    <3> QED
        BY <1>1, <2>1, <2>2, <2>3, <2>4, <3>1, <3>3, <3>4 DEF Latest
  <2>11. \A u \in Server : u # s => ~Leader(u)'
      BY <1>1, <1>2, OnlyOneLeads DEF Leader
  <2> QED
      BY <2>6, <2>7, <2>8, <2>9, <2>10, <2>11 DEF Copies
<1> QED
    BY <1>1, <1>3, <1>4, LocalCommitDoes

LEMMA CopiesCommitEnd ==
    ASSUME Types, Transactions, Copies, NEW s \in Server, CommitEnd(s) PROVE Copies'
<1>1. /\ trans[s].phase = "commit" /\ trans[s].todo = {}
      /\ UNCHANGED <<disk, version, currentDB, epochTime, clock, aborted>>
      /\ trans'[s].phase = "release" /\ trans'[s].tid = trans[s].tid /\ trans'[s].ok = trans[s].ok
      /\ \A u \in Server : u # s => trans'[u] = trans[u] /\ known'[u] = known[u]
      /\ \A t \in Server : \/ t \in trans[s].ok \ {s} /\ known'[s][t] = version[s]
                           \/ known'[s][t] = known[s][t]
    BY CommitEndDoes DEF TransIs
<1>2. ~Pending(s)
    BY <1>1 DEF Pending
<1>3. Leader(s) /\ Latest(s)
    BY <1>1 DEF Transactions, CommitOK, Copies
<1>4. Written(s)'
    BY <1>1 DEF Copies, Written
<1>5. \A t \in currentDB[s] : disk[t] = disk[s]
    BY <1>1, <1>2, <1>3 DEF Latest
<1>6. Latest(s)'
  <2>1. ASSUME NEW t \in Server, known'[s][t].epoch = clock
        PROVE  known'[s][t].counter <= version[s].counter
               /\ (known'[s][t] = version[s] => disk[t] = disk[s])
    <3>1. CASE known'[s][t] = known[s][t]
        BY <1>2, <1>3, <2>1, <3>1 DEF Latest
    <3>2. CASE t \in trans[s].ok \ {s} /\ known'[s][t] = version[s]
      <4>1. t \in currentDB[s]
          BY <1>1, <3>2 DEF Transactions, CommitOK
      <4>2. version[s].counter <= version[s].counter
          BY DEF Types, Version
      <4> QED
          BY <1>5, <3>2, <4>1, <4>2
    <3> QED
        BY <1>1, <3>1, <3>2
  <2>2. \A u \in Server : disk[u].label.epoch = clock
            => disk[u].label.counter <= disk[s].label.counter
      BY <1>2, <1>3 DEF Latest
  <2>3. disk[s].label.epoch = clock
      BY <1>3 DEF Latest
  <2> QED
      BY <1>1, <1>5, <2>1, <2>2, <2>3 DEF Latest
<1>7. AbortedNowhere'
    BY <1>1 DEF Copies, AbortedNowhere
<1> QED
    BY <1>1, <1>4, <1>6, <1>7, CopiesFrame DEF Untouched, Leader

LEMMA CopiesReleaseEnd ==
    ASSUME Types, Copies, NEW s \in Server, ReleaseEnd(s) PROVE Copies'
<1>1. /\ trans[s].phase = "release" /\ trans' = [trans EXCEPT ![s] = NoTrans]
      /\ UNCHANGED <<disk, version, known, currentDB, epochTime, clock, aborted>>
    BY ReleaseEndDoes
<1>2. trans'[s] = NoTrans /\ \A u \in Server : u # s => trans'[u] = trans[u]
    BY <1>1 DEF Types
<1>3. Written(s)'
    BY <1>2, WrittenOver
<1>4. Leader(s)' => Latest(s)'
    BY <1>1, <1>2, LatestGoesOn DEF Copies, Leader, NoTrans
<1>5. AbortedNowhere'
    BY <1>1 DEF Copies, AbortedNowhere
<1> QED
    BY <1>1, <1>2, <1>3, <1>4, <1>5, CopiesFrame DEF Untouched, Leader

-----------------------------------------------------------------------------
(* Copies: the remote calls.                                               *)

\* What a call for the transaction of s leaves of the records that s keeps.
Answered(s, t) ==
    /\ t \in trans[s].todo /\ t # s /\ t \in Server /\ Active(s)
    /\ UNCHANGED <<known, epochTime, clock, aborted>>
    /\ trans'[s].tid = trans[s].tid /\ trans'[s].phase = trans[s].phase
    /\ trans'[s].todo = trans[s].todo \ {t} /\ trans'[s].done = trans[s].done
    /\ s \in trans'[s].ok <=> s \in trans[s].ok
    /\ \A u \in Server : u # s => trans'[u] = trans[u] /\ currentDB'[u] = currentDB[u]
    /\ currentDB'[s] \subseteq currentDB[s]

LEMMA ContactAnswered ==
    ASSUME Types, Transactions, Tids, NEW s \in Server, NEW t \in Server, Contact(s, t)
    PROVE  /\ Answered(s, t)
           /\ \/ Installed(s, t)
              \/ /\ UNCHANGED <<disk, version>>
                 /\ trans[s].phase = "commit" => t \notin currentDB'[s]
<1>1. /\ t \in trans[s].todo /\ t # s /\ Active(s)
      /\ UNCHANGED <<known, epochTime, clock, aborted>>
    BY ContactLast, ContactDoes
<1>2. PICK good \in BOOLEAN, ok \in SUBSET Server : Called(s, t, good, ok)
    BY ContactLast, ContactDoes
<1>3. /\ trans'[s].tid = trans[s].tid /\ trans'[s].phase = trans[s].phase
      /\ trans'[s].todo = trans[s].todo \ {t}
      /\ trans'[s].ok = ok /\ trans'[s].done = trans[s].done
      /\ \A u \in Server : u # s => trans'[u] = trans[u]
    BY <1>2 DEF Called, TransIs
<1>4. /\ \A u \in Server : u # s => currentDB'[u] = currentDB[u]
      /\ currentDB'[s] \subseteq currentDB[s]
      /\ ~good => t \notin currentDB'[s]
  <2>1. currentDB' = IF good THEN currentDB ELSE [currentDB EXCEPT ![s] = @ \ {t}]
      BY <1>2 DEF Called
  <2> QED
      BY <2>1 DEF Types
<1>5. ok = IF good /\ trans[s].phase \in {"update", "commit"}
           THEN trans[s].ok \cup {t} ELSE trans[s].ok
    BY <1>2 DEF Called
<1>6. Answered(s, t)
    BY <1>1, <1>3, <1>4, <1>5 DEF Answered
<1>7. \/ Installed(s, t)
      \/ /\ UNCHANGED <<disk, version>>
         /\ good => trans[s].phase # "commit"
    BY <1>2 DEF Called, Stored
<1> QED
    BY <1>4, <1>6, <1>7

LEMMA CopiesAnswered ==
    ASSUME Types, Transactions, Copies, NEW s \in Server, NEW t \in Server,
           Answered(s, t), UNCHANGED <<disk, version>>,
           trans[s].phase = "commit" => t \notin currentDB'[s]
    PROVE  Copies'
<1>1. /\ Pending(s)' <=> Pending(s)
      /\ After(s)' = After(s)
      /\ Active(s)' <=> Active(s)
    BY DEF Pending, After, Active, Answered
<1>2. Written(s)'
    BY <1>1 DEF Copies, Written, Answered
<1>3. Leader(s)' => Latest(s)'
    BY <1>1 DEF Copies, Latest, Answered, Leader
<1>4. AbortedNowhere'
    BY DEF Copies, AbortedNowhere, Answered
<1>5. \A u \in Server : u # s => Untouched(u)
    BY DEF Untouched, Leader, Answered
<1> QED
    BY <1>2, <1>3, <1>4, <1>5, CopiesFrame DEF Answered

LEMMA CopiesInstalled ==
    ASSUME Types, Control, Transactions, Tids, Labels, Calls, Copies,
           NEW s \in Server, NEW t \in Server, Answered(s, t), Installed(s, t)
    PROVE  Copies'
<1> DEFINE x == trans[s].tid
           new == Raised(disk[t], x)
<1>1. /\ Leader(s) /\ t \in currentDB[s] /\ t # s /\ t \in trans[s].todo
      /\ s \in trans[s].ok \/ ~trans[s].done
      /\ trans[s].phase = "commit" /\ VersionFree(t)
    BY InstalledData DEF Answered, Installed
<1>2. Acts(s) /\ Latest(s) /\ Written(s)
    BY <1>1 DEF Acts, Copies
<1>3. disk[t].label = version[t]
    BY <1>1, FreeLabel
<1>4. /\ disk'[t] = new /\ \A w \in Server : w # t => disk'[w] = disk[w]
      /\ version'[s] = version[s]
  <2>1. version[t] = [epoch |-> version[t].epoch, counter |-> version[t].counter]
      BY DEF Types, Version
  <2>2. current[t].data = Parts(x)
      BY InstalledData DEF Answered
  <2>3. version' = [version EXCEPT ![t] = [epoch |-> version[t].epoch,
                                          counter |-> version[t].counter + 1]]
      BY DEF Installed
  <2>4. disk' = [disk EXCEPT ![t] = [label |-> version'[t],
            data |-> disk[t].data \cup current[t].data]]
      BY DEF Installed
  <2>5. version'[t] = [epoch |-> version[t].epoch, counter |-> version[t].counter + 1]
      BY <2>3 DEF Types
  <2>6. disk'[t] = [label |-> version'[t], data |-> disk[t].data \cup current[t].data]
        /\ \A w \in Server : w # t => disk'[w] = disk[w]
      BY <2>4 DEF Types
  <2>7. version'[s] = version[s]
      BY <1>1, <2>3 DEF Types
  <2> QED
      BY <1>3, <2>2, <2>5, <2>6, <2>7 DEF Raised
<1>5. /\ Pending(s)' <=> Pending(s)
      /\ After(s)' = After(s)
      /\ Active(s)' /\ Active(s)
    BY <1>1, <1>4 DEF Pending, After, Active, Answered
<1>6. \/ s \in trans[s].ok /\ new = disk[s] /\ ~Pending(s)
      \/ s \notin trans[s].ok /\ Pending(s) /\ new = After(s)
  <2>1. CASE s \in trans[s].ok
    <3>1. disk[s] = new
        BY <1>1, <1>2, <2>1 DEF Latest
    <3>2. ~Pending(s)
        BY <1>1, <2>1 DEF Transactions, CommitOK, Pending
    <3> QED
        BY <2>1, <3>1, <3>2
  <2>2. CASE s \notin trans[s].ok
    <3>1. disk[t] = disk[s]
        BY <1>1, <1>2, <2>2 DEF Latest
    <3>2. Pending(s)
        BY <1>1, <2>2 DEF Transactions, CommitOK, Pending
    <3> QED
        BY <2>2, <3>1, <3>2 DEF After
  <2> QED
      BY <2>1, <2>2
<1>7. new.data = disk[t].data \cup Parts(x) /\ new.label # Zero
  <2>1. version[t].counter \in Nat
      BY DEF Types, Version
  <2> QED
      BY <1>3, <2>1 DEF Raised, Zero
<1> HIDE DEF new
<1>8. disk[s].label.epoch = clock /\ disk[s].label.counter \in Nat
    BY <1>2 DEF Latest, Types, Version
<1>9. SameVersionSameData'
  <2>1. ASSUME NEW u \in Server, u # t, disk[u].label = new.label PROVE disk[u] = new
    <3>1. CASE new = disk[s]
        BY <1>7, <2>1, <3>1 DEF Copies, SameVersionSameData
    <3>2. CASE new = After(s)
      <4>1. new.label.epoch = clock /\ new.label.counter = disk[s].label.counter + 1
          BY <1>8, <3>2 DEF After, Raised
      <4>2. disk[u].label.counter <= disk[s].label.counter \/ disk[u] = After(s)
          BY <1>2, <2>1, <4>1 DEF Latest
      <4> QED
          BY <1>8, <2>1, <3>2, <4>1, <4>2
    <3> QED
        BY <1>6, <3>1, <3>2
  <2> QED
      BY <1>4, <2>1, OneCopy DEF Copies
<1>10. AbortedNowhere'
  <2>1. x \notin aborted
      BY <1>5 DEF Tids
  <2>2. \A y \in aborted : disk[t].data \cap Parts(y) = {}
      BY DEF Copies, AbortedNowhere
  <2>3. \A y \in aborted : disk'[t].data \cap Parts(y) = {}
      BY <1>4, <1>7, <2>1, <2>2, PartsDisjoint
  <2> QED
      BY <1>4, <2>3, OneNowhere DEF Copies, Answered
<1>11. ASSUME NEW u \in Server, u # s PROVE Written(u)'
  <2>1. trans[u].phase # "commit" /\ trans'[u] = trans[u]
      BY <1>2, <1>11, OnlyOneLeads DEF Answered
  <2>2. CASE Active(u)
    <3>1. trans[u].tid # x
        BY <1>5, <1>11, <2>2 DEF Transactions, Distinct
    <3>2. Parts(trans[u].tid) \cap Parts(x) = {}
        BY <3>1, PartsDisjoint
    <3>3. disk'[t].data \cap Parts(trans[u].tid) # {} =>
              \E w \in Server : disk[w].data \cap Parts(trans[u].tid) # {}
        BY <1>4, <1>7, <3>2
    <3>4. u = t => trans[u].phase # "release"
        BY <1>1 DEF VersionFree
    <3> QED
        BY <1>4, <2>1, <3>3, <3>4, WrittenElsewhere DEF Copies
  <2>3. CASE ~Active(u)
      BY <2>1, <2>3 DEF Written, Active
  <2> QED
      BY <2>2, <2>3
<1>12. Written(s)'
  <2>1. ASSUME NEW w \in Server, disk'[w].data \cap Parts(x) # {}
        PROVE  (Pending(s) /\ disk'[w] = After(s)) \/ (s \in trans[s].ok /\ disk'[w] = disk[s])
    <3>1. CASE w = t
        BY <1>4, <1>6, <3>1
    <3>2. CASE w # t
        BY <1>1, <1>2, <1>4, <1>5, <2>1, <3>2 DEF Written
    <3> QED
        BY <3>1, <3>2
  <2>2. s \in trans[s].ok => Parts(x) \subseteq disk'[s].data
      BY <1>1, <1>2, <1>4 DEF Written
  <2>3. trans'[s].tid = x /\ trans'[s].phase = "commit" /\ disk'[s] = disk[s]
        /\ (s \in trans'[s].ok <=> s \in trans[s].ok)
      BY <1>1, <1>4 DEF Answered
  <2> HIDE DEF x
  <2> QED
      BY <1>5, <2>1, <2>2, <2>3 DEF Written
<1>13. Latest(s)'
  <2>1. ASSUME NEW u \in Server, disk'[u].label.epoch = clock
        PROVE  disk'[u].label.counter <= disk[s].label.counter
               \/ (Pending(s) /\ disk'[u] = After(s))
    <3>1. CASE u = t
        BY <1>4, <1>6, <1>8, <3>1
    <3>2. CASE u # t
        BY <1>2, <1>4, <2>1, <3>2 DEF Latest
    <3> QED
        BY <3>1, <3>2
  <2>2. ASSUME NEW w \in currentDB'[s]
        PROVE  IF w \in trans'[s].todo
               THEN IF s \in trans[s].ok THEN disk[s] = Raised(disk'[w], x) ELSE disk'[w] = disk[s]
               ELSE disk'[w] = IF Pending(s) THEN After(s) ELSE disk[s]
    <3>1. w \in currentDB[s] /\ w \in Server /\ trans'[s].todo = trans[s].todo \ {t}
        BY <2>2, TypeFacts DEF Answered
    <3>2. CASE w = t
        BY <1>4, <1>6, <3>1, <3>2
    <3>3. CASE w # t
      <4>1. disk'[w] = disk[w] /\ (w \in trans'[s].todo <=> w \in trans[s].todo)
          BY <1>4, <3>1, <3>3
      <4> QED
          BY <1>1, <1>2, <3>1, <4>1 DEF Latest
    <3> QED
        BY <3>2, <3>3
  <2>3. ASSUME NEW w \in Server, known[s][w].epoch = clock
        PROVE  known[s][w].counter <= version[s].counter /\
               (known[s][w] = version[s] => disk'[w] = disk[s] \/ Pending(s))
      BY <1>2, <1>4, <1>6, <2>3 DEF Latest
  <2>4. /\ trans'[s].tid = x /\ trans'[s].phase = "commit" /\ disk'[s] = disk[s]
        /\ (s \in trans'[s].ok <=> s \in trans[s].ok) /\ known' = known /\ clock' = clock
      BY <1>1, <1>4 DEF Answered
  <2> HIDE DEF x
  <2> QED
      BY <1>4, <1>5, <1>8, <2>1, <2>2, <2>3, <2>4 DEF Latest
<1>14. \A u \in Server : u # s => ~Leader(u)'
    BY <1>2, OnlyOneLeads DEF Leader, Answered
<1> QED
    BY <1>9, <1>10, <1>11, <1>12, <1>13, <1>14 DEF Copies

LEMMA CopiesTransact ==
    ASSUME Types, Control, Transactions, Tids, Labels, Calls, Copies, NEW s \in Server, Transact(s)
    PROVE  Copies'
<1>1. CASE Update(s) \/ UpdateEnd(s) \/ UndoEnd(s)
  <2>1. /\ UNCHANGED <<disk, version, known, currentDB, epochTime, clock, aborted>>
        /\ trans[s].phase \in {"open", "update", "undo"}
        /\ trans'[s].phase \in {"open", "update", "undo"}
        /\ trans'[s].tid = trans[s].tid /\ \A u \in Server : u # s => trans'[u] = trans[u]
    <3>1. CASE Update(s)
        BY <3>1, UpdateDoes DEF TransIs
    <3>2. CASE UpdateEnd(s)
      <4>1. \/ TransIs(s, "open", trans[s].sent + 1, trans[s].todo, {}, trans[s].done)
            \/ TransIs(s, "undo", trans[s].sent + 1, currentDB[s], {}, TRUE)
          BY <3>2, UpdateEndDoes
      <4> QED
          BY <3>2, <4>1, UpdateEndDoes DEF TransIs
    <3>3. CASE UndoEnd(s)
        BY <3>3, UndoEndDoes DEF TransIs
    <3> QED
        BY <1>1, <3>1, <3>2, <3>3
  <2> QED
      BY <2>1, CopiesGoOn DEF Active
<1>2. CASE AbortTrans(s)
  <2>1. CASE Given(s)
      BY <1>2, <2>1, AbortTransDoes, CopiesGiven
  <2>2. CASE TransIs(s, "abort", trans[s].sent, currentDB[s], {}, trans[s].done)
             /\ UNCHANGED aborted
    <3>1. /\ UNCHANGED <<disk, version, known, currentDB, epochTime, clock, aborted>>
          /\ trans[s].phase = "open"
        BY <1>2, <2>2, AbortTransDoes
    <3> QED
        BY <2>2, <3>1, CopiesGoOn DEF Active, TransIs
  <2> QED
      BY <1>2, <2>1, <2>2, AbortTransDoes
<1>3. CASE AbortEnd(s)
    BY <1>3, AbortEndDoes, CopiesGiven
<1>4. ASSUME NEW t \in Server, Contact(s, t) PROVE Copies'
    BY <1>4, ContactAnswered, CopiesAnswered, CopiesInstalled
<1> QED
    BY <1>1, <1>2, <1>3, <1>4, CopiesBegin, CopiesEndTrans, CopiesLocalCommit, CopiesCommitEnd,
       CopiesReleaseEnd DEF Transact

\* No step gives two copies one version and different data.
LEMMA CopiesStep ==
    ASSUME Types, Control, Control', Transactions, Tids, Labels, Calls, Copies, [Next]_vars
    PROVE  Copies'
<1>1. CASE UNCHANGED vars \/ Lapse
  <2>1. UNCHANGED <<disk, trans, version, known, currentDB, epochTime, clock, aborted>>
    <3>1. CASE UNCHANGED vars
        BY <3>1 DEF vars, dbVars, recVars, tidVars, clientVars
    <3>2. CASE Lapse
        BY <3>2 DEF Lapse, dbVars, tidVars, clientVars
    <3> QED
        BY <1>1, <3>1, <3>2
  <2> QED
      BY <2>1, CopiesSame
<1>2. ASSUME NEW s \in Server, Election(s) \/ Recovery(s) \/ Transact(s) \/ Restart(s) PROVE Copies'
    BY <1>2, CopiesElection, CopiesRecovery, CopiesTransact, CopiesRestart
<1> QED
    BY <1>1, <1>2 DEF Next

-----------------------------------------------------------------------------
(* Promises: what steps leave alone, and how copies are replaced.          *)

LEMMA NewerOrder ==
    ASSUME NEW a \in Version, NEW b \in Version, NEW c \in Version
    PROVE  /\ ~Newer(a, b) /\ ~Newer(b, c) => ~Newer(a, c)
           /\ Newer(a, b) => ~Newer(b, a)
           /\ ~Newer(a, a)
<1>1. /\ a.epoch \in Nat /\ a.counter \in Nat /\ b.epoch \in Nat /\ b.counter \in Nat
      /\ c.epoch \in Nat /\ c.counter \in Nat
    BY DEF Version
<1> QED
    BY <1>1 DEF Newer

LEMMA KeptStays ==
    ASSUME Kept, Promised' \subseteq Promised, \A u \in Server : Source(u)' = Source(u)
    PROVE  Kept'
<1>1. ASSUME NEW x \in Promised'
      PROVE  /\ IsQuorum({u \in Server : Has(u, x)'}, Magic)
             /\ \A u, v \in Server :
                   Has(v, x)' /\ ~Newer(Source(v)'.label, Source(u)'.label) => Has(u, x)'
  <2>1. \A u \in Server : Has(u, x)' <=> Has(u, x)
      BY DEF Has
  <2>2. {u \in Server : Has(u, x)'} = {u \in Server : Has(u, x)}
      BY <2>1
  <2>3. x \in Promised
      BY <1>1
  <2> QED
      BY <2>1, <2>2, <2>3 DEF Kept
<1> QED
    BY <1>1 DEF Kept

\* One copy is replaced by a full one that is beaten only by full ones.
LEMMA KeptGrows ==
    ASSUME Kept, Promised' \subseteq Promised, NEW d \in Server,
           \A u \in Server : u # d => Source(u)' = Source(u),
           \A x \in Promised : Has(d, x)',
           \A u \in Server : u # d /\ ~Newer(Source(d)'.label, Source(u).label) => Full(u)
    PROVE  Kept'
<1>1. ASSUME NEW x \in Promised'
      PROVE  /\ IsQuorum({u \in Server : Has(u, x)'}, Magic)
             /\ \A u, v \in Server :
                   Has(v, x)' /\ ~Newer(Source(v)'.label, Source(u)'.label) => Has(u, x)'
  <2>1. x \in Promised /\ Has(d, x)'
      BY <1>1
  <2>2. \A u \in Server : u # d => (Has(u, x)' <=> Has(u, x))
      BY DEF Has
  <2>3. IsQuorum({u \in Server : Has(u, x)'}, Magic)
    <3>1. {u \in Server : Has(u, x)} \subseteq {u \in Server : Has(u, x)'}
        BY <2>1, <2>2
    <3>2. IsQuorum({u \in Server : Has(u, x)}, Magic)
        BY <2>1 DEF Kept
    <3> QED
        BY <3>1, <3>2, QuorumGrows
  <2>4. ASSUME NEW u \in Server, NEW v \in Server, Has(v, x)',
               ~Newer(Source(v)'.label, Source(u)'.label)
        PROVE  Has(u, x)'
    <3>1. CASE u = d
        BY <2>1, <3>1
    <3>2. CASE u # d /\ v = d
        BY <2>1, <2>2, <2>4, <3>2 DEF Full
    <3>3. CASE u # d /\ v # d
        BY <2>1, <2>2, <2>4, <3>3 DEF Kept
    <3> QED
        BY <3>1, <3>2, <3>3
  <2> QED
      BY <2>3, <2>4
<1> QED
    BY <1>1 DEF Kept

\* The copy of a full server goes to d.
LEMMA KeptCopied ==
    ASSUME Kept, Promised' \subseteq Promised, NEW d \in Server, NEW b \in Server,
           \A u \in Server : u # d => Source(u)' = Source(u), Source(d)' = Source(b), Full(b)
    PROVE  Kept' /\ \A x \in Promised : Has(d, x)'
<1>1. \A x \in Promised : Has(d, x)'
    BY DEF Full, Has
<1>2. ASSUME NEW u \in Server, ~Newer(Source(d)'.label, Source(u).label) PROVE Full(u)
  <2>1. ~Newer(Source(b).label, Source(u).label)
      BY <1>2
  <2> QED
      BY <2>1 DEF Kept, Full
<1> QED
    BY <1>1, <1>2, KeptGrows

LEMMA FoundStays ==
    ASSUME NEW u \in Server, Found(u), thread'[u] = thread[u], known'[u] = known[u],
           disk' = disk, thread' = thread, Promised' \subseteq Promised, Leader(u)' => Leader(u)
    PROVE  Found(u)'
<1>1. BestVersion(u)' = BestVersion(u)
    BY DEF BestVersion
<1>2. \A w, x : Has(w, x)' <=> Has(w, x)
    BY DEF Has, Source
<1>3. \A w : Full(w) => Full(w)'
    BY <1>2 DEF Full
<1> QED
    BY <1>1, <1>3 DEF Found

LEMMA FoundIdle ==
    ASSUME Control, NEW s \in Server, Acts(s), NEW u \in Server, u # s,
           thread'[u] = thread[u], Leader(u)' => Leader(u)
    PROVE  Found(u)'
<1>1. thread[u].at = "asleep" /\ ~Leader(u)
    BY DEF Control, OneActs, Acts
<1> QED
    BY <1>1 DEF Found

LEMMA PromisesNext == Promises' <=> Kept' /\ \A u \in Server : Found(u)'
BY DEF Promises

LEMMA PromisesSame ==
    ASSUME Promises, UNCHANGED <<disk, thread, known>>, Promised' \subseteq Promised,
           \A u \in Server : Leader(u)' => Leader(u)
    PROVE  Promises'
<1>1. Kept'
    BY KeptStays DEF Promises, Source
<1>2. \A u \in Server : Found(u)'
    BY FoundStays DEF Promises
<1> QED
    BY <1>1, <1>2, PromisesNext

\* What is promised: steps that end no transaction well promise nothing.
LEMMA NothingPromised ==
    ASSUME acked' \subseteq Promised,
           \A u \in Server : trans'[u].phase = "release" /\ IsQuorum(trans'[u].ok, Magic) =>
               trans'[u].tid \in Promised
    PROVE  Promised' \subseteq Promised
BY DEF Promised

LEMMA PromisedSame ==
    ASSUME acked' = acked,
           \A u \in Server : trans'[u].phase = "release" =>
               trans[u].phase = "release" /\ trans'[u].ok = trans[u].ok
                   /\ trans'[u].tid = trans[u].tid
    PROVE  Promised' \subseteq Promised
<1>1. acked' \subseteq Promised
    BY DEF Promised
<1>2. ASSUME NEW u \in Server, trans'[u].phase = "release", IsQuorum(trans'[u].ok, Magic)
      PROVE  trans'[u].tid \in Promised
    BY <1>2 DEF Promised
<1> QED
    BY <1>1, <1>2, NothingPromised

\* The pass of recovery of s takes a step that writes no database.
LEMMA PromisesPass ==
    ASSUME Control, Promises, NEW s \in Server, Acts(s),
           UNCHANGED <<disk, trans, acked, epochTime, clock>>,
           \A u \in Server : u # s => thread'[u] = thread[u],
           thread[s].at # "fetching", thread'[s].at # "fetching",
           Found(s)'
    PROVE  Promises'
<1>1. Promised' \subseteq Promised
    BY PromisedSame
<1>2. \A u \in Server : u # s => thread[u].at = "asleep"
    BY DEF Control, OneActs, Acts
<1>3. \A u \in Server : Source(u)' = Source(u)
    BY <1>2 DEF Source
<1>4. \A u \in Server : u # s => Found(u)'
    BY FoundIdle DEF Leader
<1> QED
    BY <1>1, <1>3, <1>4, KeptStays, PromisesNext DEF Promises

\* The pass of recovery of s writes the database of d.
LEMMA PromisesWritten ==
    ASSUME Control, Promises, NEW s \in Server, Acts(s), Promised' \subseteq Promised, Kept',
           UNCHANGED clock,
               \A u \in Server : u # s => epochTime'[u] = epochTime[u] /\ thread'[u] = thread[u],
           Found(s)'
    PROVE  Promises'
<1>1. \A u \in Server : u # s => Found(u)'
    BY FoundIdle DEF Leader
<1> QED
    BY <1>1, PromisesNext

-----------------------------------------------------------------------------
(* Promises: the election, restarts, and the search for the newest copy.   *)

LEMMA PromisesElection ==
    ASSUME Types, Control, Promises, NEW s \in Server, Election(s) PROVE Promises'
<1>1. UNCHANGED <<disk, thread, known, trans, acked, epochTime>>
    BY DEF Election, Elect, Elected, Beacon, dbVars, recVars, tidVars, clientVars
<1>2. \A u \in Server : Leader(u)' => Leader(u)
  <2>1. clock' = clock \/ clock' = clock + 1
      BY DEF Election, Elect, Elected, Beacon, tidVars
  <2>2. \A u \in Server : epochTime[u] <= clock
      BY DEF Control, ActsOK
  <2> QED
      BY <1>1, <2>1, <2>2, Times DEF Leader
<1>3. Promised' \subseteq Promised
    BY <1>1, PromisedSame
<1> QED
    BY <1>1, <1>2, <1>3, PromisesSame

LEMMA PromisesRestart ==
    ASSUME Types, Control, Promises, NEW s \in Server, Restart(s) PROVE Promises'
<1>1. /\ trans'[s] = NoTrans /\ clock' = clock /\ UNCHANGED <<disk, acked>>
      /\ epochTime'[s] = 0 /\ thread'[s] = Asleep /\ thread[s].at # "fetching"
      /\ \A u \in Server : u # s => /\ trans'[u] = trans[u] /\ thread'[u] = thread[u]
                                    /\ known'[u] = known[u] /\ epochTime'[u] = epochTime[u]
    BY DEF Restart, Types
<1>2. Promised' \subseteq Promised
    BY <1>1, PromisedSame DEF NoTrans
<1>3. \A u \in Server : Source(u)' = Source(u)
    BY <1>1 DEF Source, Asleep
<1>4. Kept'
    BY <1>2, <1>3, KeptStays DEF Promises
<1>5. Found(s)'
    BY <1>1, Times DEF Found, Leader, Asleep
<1>6. ASSUME NEW u \in Server, u # s PROVE Found(u)'
  <2>1. \A x : \A w \in Server : Has(w, x)' <=> Has(w, x)
      BY <1>3 DEF Has
  <2>2. \A w \in Server : Full(w) => Full(w)'
      BY <1>2, <2>1 DEF Full
  <2>3. BestVersion(u)' = BestVersion(u) /\ Found(u)
      BY <1>1, <1>6 DEF BestVersion, Promises
  <2>4. thread[u].at = "fetch" => thread[u].best \in Server
      BY DEF Control, LoopsOK, Others
  <2>5. thread'[u] = thread[u] /\ known'[u] = known[u] /\ disk' = disk /\ (Leader(u)' <=> Leader(u))
      BY <1>1, <1>6 DEF Leader
  <2>6. thread[u].at = "fetch" => Full(thread[u].best)'
      BY <2>2, <2>3, <2>4, <2>5 DEF Found
  <2> QED
      BY <2>2, <2>3, <2>5, <2>6 DEF Found
<1> QED
    BY <1>4, <1>5, <1>6, PromisesNext

LEMMA PromisesFind ==
    ASSUME Types, Control, Promises, NEW s \in Server, NEW t \in Server, Find(s, t) PROVE Promises'
<1>1. /\ thread[s].at = "find" /\ t \in thread[s].todo
      /\ \A u, w \in Server : u # s \/ w # t => known'[u][w] = known[u][w]
      /\ UNCHANGED <<disk, trans, acked, epochTime, clock>>
    BY FindDoes
<1>2. /\ thread[s].heard \subseteq Others(s) /\ t \notin thread[s].heard
      /\ thread[s].best \in thread[s].heard \cup {NoOne} /\ ~Leader(s)
      /\ t \in Server /\ Others(s) \subseteq Server /\ NoOne \notin Server
    BY <1>1, ReplicaAssumption DEF Control, LoopsOK, ActsOK, Others
<1>3. \A h \in thread[s].heard : /\ known'[s][h] = known[s][h] /\ known'[s][h] = disk[h].label
                                 /\ ~Newer(known[s][h], BestVersion(s))
    BY <1>1, <1>2 DEF Promises, Found
<1>4. /\ BestVersion(s) = IF thread[s].best = NoOne THEN Zero ELSE known'[s][thread[s].best]
      /\ BestVersion(s) \in Version
    BY <1>2, <1>3, ThreadFacts, Constants DEF BestVersion
<1>5. \A h \in Server : disk[h].label \in Version
    BY DEF Types
<1>6. CASE /\ known'[s][t] = disk[t].label
           /\ ThreadIs(s, "find", thread[s].todo \ {t}, thread[s].heard \cup {t},
                       IF Newer(disk[t].label, BestVersion(s)) THEN t ELSE thread[s].best)
  <2>1. BestVersion(s)' = IF Newer(disk[t].label, BestVersion(s)) THEN disk[t].label
            ELSE BestVersion(s)
      BY <1>2, <1>4, <1>6 DEF BestVersion, ThreadIs
  <2>2. ASSUME NEW h \in thread[s].heard \cup {t}
        PROVE  known'[s][h] = disk[h].label /\ ~Newer(known'[s][h], BestVersion(s)')
    <3>1. disk[h].label \in Version /\ disk[t].label \in Version
        BY <1>2, <1>5, <2>2
    <3>2. h = t \/ ~Newer(disk[h].label, BestVersion(s))
        BY <1>3, <2>2
    <3> QED
        BY <1>3, <1>4, <1>6, <2>1, <2>2, <3>1, <3>2, NewerOrder
  <2>3. Found(s)'
      BY <1>1, <1>2, <1>6, <2>2 DEF Found, ThreadIs, Leader
  <2> QED
      BY <1>1, <1>6, <2>3, PromisesPass DEF ThreadIs, Acts
<1>7. CASE ThreadIs(s, "find", thread[s].todo \ {t}, thread[s].heard, thread[s].best)
  <2>1. BestVersion(s)' = BestVersion(s)
      BY <1>2, <1>4, <1>7 DEF BestVersion, ThreadIs
  <2>2. Found(s)'
      BY <1>1, <1>2, <1>3, <1>7, <2>1 DEF Found, ThreadIs, Leader
  <2> QED
      BY <1>1, <1>7, <2>2, PromisesPass DEF ThreadIs, Acts
<1> QED
    BY <1>6, <1>7, FindDoes

LEMMA PromisesFindEnd ==
    ASSUME Types, Control, Labels, Promises, NEW s \in Server, FindEnd(s) PROVE Promises'
<1>1. /\ thread[s].at = "find"
      /\ UNCHANGED <<disk, trans, known, acked, epochTime, clock>>
    BY FindEndDoes
<1>2. /\ thread[s].heard \subseteq Others(s) /\ ~Leader(s) /\ Acts(s)
      /\ thread[s].best \in thread[s].heard \cup {NoOne}
      /\ disk[s].label = version[s]
    BY <1>1 DEF Control, LoopsOK, ActsOK, Acts, Labels
<1>3. \A u \in Server : Source(u) = disk[u]
    BY <1>1, <1>2 DEF Control, OneActs, Acts, Source
<1>4. Promised' \subseteq Promised
    BY <1>1, PromisedSame
<1>5. \A h \in thread[s].heard : known[s][h] = disk[h].label /\ ~Newer(disk[h].label,
          BestVersion(s))
    BY <1>1 DEF Promises, Found
<1>6. BestVersion(s) \in Version /\ \A h \in Server : disk[h].label \in Version
    BY <1>2, ThreadFacts, Constants DEF BestVersion, Types
<1>7. ASSUME NEW x \in Promised, IsQuorum(thread[s].heard \cup {s}, Magic)
      PROVE  \E h \in thread[s].heard \cup {s} : h \in Server /\ Has(h, x)
  <2>1. IsQuorum({u \in Server : Has(u, x)}, Magic)
      BY <1>7 DEF Promises, Kept
  <2>2. thread[s].heard \cup {s} \in SUBSET Server /\ {u \in Server : Has(u, x)} \in SUBSET Server
      BY <1>2 DEF Others
  <2> HIDE <1>2
  <2> QED
      BY <1>7, <2>1, <2>2, QuorumsMeet
<1>8. CASE ThreadIs(s, "asleep", {}, {}, NoOne)
  <2>1. Found(s)'
      BY <1>1, <1>2, <1>8 DEF Found, ThreadIs, Leader
  <2> QED
      BY <1>1, <1>2, <1>8, <2>1, PromisesPass DEF ThreadIs
<1>9. CASE /\ IsQuorum(thread[s].heard \cup {s}, Magic) /\ Newer(BestVersion(s), version[s])
           /\ ThreadIs(s, "fetch", {}, {}, thread[s].best)
  <2>1. PICK b \in thread[s].heard : b = thread[s].best /\ b \in Server
      BY <1>2, <1>9, BestIsSomebody DEF Others
  <2>2. BestVersion(s) = disk[b].label
      BY <1>5, <2>1, ReplicaAssumption DEF BestVersion
  <2>3. ASSUME NEW x \in Promised PROVE Has(b, x)
    <3>1. PICK h \in thread[s].heard \cup {s} : h \in Server /\ Has(h, x)
        BY <1>7, <1>9, <2>3
    <3>2. ~Newer(disk[h].label, disk[b].label)
        BY <1>2, <1>5, <1>6, <1>9, <2>2, <3>1, NewerOrder
    <3> QED
        BY <1>3, <2>1, <2>3, <3>1, <3>2 DEF Promises, Kept
  <2>4. \A x \in Promised : Has(b, x)'
    <3>1. Source(b)' = Source(b)
      <4>1. thread'[b].at # "fetching"
        <5>1. b # s
            BY <1>2, <2>1 DEF Others
        <5>2. thread'[b] = thread[b] /\ thread[b].at = "asleep"
            BY <1>2, <1>9, <2>1, <5>1 DEF ThreadIs, Control, OneActs, Acts
        <5> QED
            BY <5>2
      <4> QED
          BY <1>1, <1>3, <2>1, <4>1 DEF Source
    <3> QED
        BY <2>3, <3>1 DEF Has
  <2>5. Full(thread[s].best)'
    <3>1. thread'[s].best = b
        BY <1>9, <2>1 DEF ThreadIs
    <3>2. \A x \in Promised' : Has(b, x)'
        BY <1>4, <2>4
    <3> QED
        BY <3>1, <3>2 DEF Full, Has, Source
  <2>6. Found(s)'
      BY <1>1, <1>2, <1>9, <2>5 DEF Found, ThreadIs, Leader
  <2> QED
      BY <1>1, <1>2, <1>9, <2>6, PromisesPass DEF ThreadIs
<1>10. CASE /\ IsQuorum(thread[s].heard \cup {s}, Magic) /\ ~Newer(BestVersion(s), version[s])
            /\ ThreadIs(s, "label", {}, {}, NoOne)
  <2>1. ASSUME NEW x \in Promised PROVE Has(s, x)
    <3>1. PICK h \in thread[s].heard \cup {s} : h \in Server /\ Has(h, x)
        BY <1>7, <1>10, <2>1
    <3>2. ~Newer(disk[h].label, disk[s].label)
        BY <1>2, <1>5, <1>6, <1>10, <3>1, NewerOrder
    <3> QED
        BY <1>3, <2>1, <3>1, <3>2 DEF Promises, Kept
  <2>2. Source(s)' = Source(s)
      BY <1>1, <1>3, <1>10 DEF Source, ThreadIs
  <2>3. Full(s)'
      BY <1>4, <2>1, <2>2 DEF Full, Has
  <2>4. Found(s)'
      BY <1>1, <1>2, <1>10, <2>3 DEF Found, ThreadIs, Leader
  <2> QED
      BY <1>1, <1>2, <1>10, <2>4, PromisesPass DEF ThreadIs
<1> QED
    BY <1>8, <1>9, <1>10, FindEndDoes

-----------------------------------------------------------------------------
(* Promises: fetching, labelling and sending.                              *)

\* While s is in a pass, or leads, every other server is as it is on its disk.
LEMMA SourceOfOthers ==
    ASSUME Control, NEW s \in Server, Acts(s), NEW u \in Server, u # s \/ thread[s].at # "fetching"
    PROVE  Source(u) = disk[u]
BY DEF Control, OneActs, Acts, Source

\* What s found or is given stays what it needs while it labels and sends.
LEMMA FullStays ==
    ASSUME NEW s \in Server, Full(s), Source(s)' = Source(s), Promised' \subseteq Promised
    PROVE  Full(s)'
BY DEF Full, Has

LEMMA PromisesWake ==
    ASSUME Types, Control, Promises, NEW s \in Server, Wake(s) PROVE Promises'
<1>1. /\ thread[s].at = "asleep" /\ Acts(s)
      /\ UNCHANGED <<disk, trans, known, acked, epochTime, clock>>
    BY WakeDoes DEF Acts
<1>2. \/ ThreadIs(s, "find", Others(s), {}, NoOne)
      \/ ThreadIs(s, "send", {}, {}, NoOne)
    BY ControlWake, WakeDoes
<1>3. Promised' \subseteq Promised
    BY <1>1, PromisedSame
<1>4. thread'[s].at \in {"find", "send"} /\ (thread'[s].at = "find" => thread'[s].heard = {})
      /\ \A u \in Server : u # s => thread'[u] = thread[u]
    BY <1>2 DEF ThreadIs
<1>5. Source(s)' = Source(s)
    BY <1>1, <1>4 DEF Source
<1>6. Found(s)'
  <2>1. Leader(s)' => Full(s)'
      BY <1>1, <1>3, <1>5, FullStays DEF Promises, Found, Leader
  <2> QED
      BY <1>4, <2>1 DEF Found
<1> QED
    BY <1>1, <1>4, <1>6, PromisesPass

LEMMA PromisesSendPass ==
    ASSUME Types, Control, Promises, NEW s \in Server, SendStart(s) \/ SendEnd(s) PROVE Promises'
<1>1. /\ Acts(s) /\ Leader(s) /\ thread[s].at # "fetching"
      /\ UNCHANGED <<disk, trans, known, acked, epochTime, clock>>
      /\ \A u \in Server : u # s => thread'[u] = thread[u]
      /\ thread'[s].at \in {"sending", "asleep"}
    BY SendStartDoes, SendEndDoes DEF ThreadIs, Acts, Control, ActsOK
<1>2. Promised' \subseteq Promised
    BY <1>1, PromisedSame
<1>3. Source(s)' = Source(s)
    BY <1>1 DEF Source
<1>4. Found(s)'
    BY <1>1, <1>2, <1>3, FullStays DEF Found, Promises
<1> QED
    BY <1>1, <1>4, PromisesPass

LEMMA PromisesCheck ==
    ASSUME Types, Control, Promises, NEW s \in Server, NEW t \in Server, Check(s, t) PROVE Promises'
<1>1. /\ thread[s].at = "asleep" /\ site = s
      /\ UNCHANGED <<disk, trans, thread, acked, epochTime, clock>>
    BY DEF Check, AllBetter, dbVars, tidVars, clientVars
<1>2. Promised' \subseteq Promised
    BY <1>1, PromisedSame
<1>3. Source(s)' = Source(s)
    BY <1>1 DEF Source
<1>4. Found(s)'
    BY <1>1, <1>2, <1>3, FullStays DEF Found, Promises, Leader
<1> QED
    BY <1>1, <1>4, PromisesPass DEF Acts

LEMMA PromisesFetchStart ==
    ASSUME Types, Control, Promises, NEW s \in Server, FetchStart(s) PROVE Promises'
<1>1. /\ thread[s].at = "fetch"
      /\ TransIs(s, trans[s].phase, trans[s].sent, trans[s].todo, trans[s].ok, TRUE)
      /\ disk' = [disk EXCEPT ![s] = [label |-> Zero, data |-> Garbage]]
      /\ ThreadIs(s, "fetching", {}, {}, thread[s].best)
      /\ UNCHANGED <<epochTime, clock, acked>>
    BY FetchStartDoes
<1>2. Acts(s) /\ ~Leader(s)
    BY <1>1 DEF Acts, Control, ActsOK
<1>3. PICK b \in Server : b = thread[s].best /\ b # s
    BY <1>1 DEF Control, LoopsOK, Others
<1>4. \A w \in Server : w # s => disk'[w] = disk[w] /\ thread'[w] = thread[w]
    BY <1>1 DEF Types, ThreadIs
<1>5. \A u \in Server : u # s => Source(u)' = Source(u)
  <2>1. \A u \in Server : u # s => thread[u].at = "asleep"
      BY <1>2 DEF Control, OneActs, Acts
  <2> QED
      BY <1>4, <2>1 DEF Source
<1>6. Source(s)' = Source(b)
  <2>1. Source(b) = disk[b]
      BY <1>2, <1>3, SourceOfOthers
  <2>2. Source(s)' = disk'[b]
      BY <1>1, <1>3 DEF Source, ThreadIs
  <2> QED
      BY <1>3, <1>4, <2>1, <2>2
<1>7. Promised' \subseteq Promised
    BY <1>1, PromisedSame DEF TransIs
<1>8. Full(b)
    BY <1>1, <1>3 DEF Promises, Found
<1>9. Kept' /\ \A x \in Promised : Has(s, x)'
    BY <1>5, <1>6, <1>7, <1>8, KeptCopied DEF Promises
<1>10. Full(s)'
    BY <1>7, <1>9 DEF Full
<1>11. Found(s)'
    BY <1>1, <1>2, <1>10 DEF Found, Leader, ThreadIs
<1> QED
    BY <1>1, <1>2, <1>4, <1>7, <1>9, <1>11, PromisesWritten

LEMMA PromisesFetchEnd ==
    ASSUME Types, Control, Promises, NEW s \in Server, FetchEnd(s) PROVE Promises'
<1>1. /\ thread[s].at = "fetching"
      /\ disk' = [disk EXCEPT ![s] = disk[thread[s].best]]
      /\ ThreadIs(s, "label", {}, {}, NoOne)
      /\ UNCHANGED <<trans, epochTime, clock, acked>>
    BY FetchEndDoes
<1>2. Acts(s) /\ ~Leader(s)
    BY <1>1 DEF Acts, Control, ActsOK
<1>3. \A u \in Server : Source(u)' = Source(u)
  <2>1. \A u \in Server : u # s => thread[u].at = "asleep"
      BY <1>2 DEF Control, OneActs, Acts
  <2>2. \A w \in Server : w # s => disk'[w] = disk[w] /\ thread'[w] = thread[w]
      BY <1>1 DEF Types, ThreadIs
  <2>3. Source(s)' = Source(s)
      BY <1>1 DEF Source, ThreadIs, Types
  <2> QED
      BY <2>1, <2>2, <2>3 DEF Source
<1>4. Promised' \subseteq Promised
    BY <1>1, PromisedSame
<1>5. Kept'
    BY <1>3, <1>4, KeptStays DEF Promises
<1>6. Full(s)'
    BY <1>1, <1>3, <1>4, FullStays DEF Promises, Found
<1>7. Found(s)'
    BY <1>1, <1>2, <1>6 DEF Found, Leader, ThreadIs
<1> QED
    BY <1>1, <1>2, <1>4, <1>5, <1>7, PromisesWritten DEF ThreadIs

LEMMA PromisesLabel ==
    ASSUME Types, Control, Labels, Promises, NEW s \in Server, Label(s) PROVE Promises'
<1>1. /\ thread[s].at = "label"
      /\ TransIs(s, trans[s].phase, trans[s].sent, trans[s].todo, trans[s].ok, TRUE)
      /\ disk' = [disk EXCEPT ![s] = [label |-> [epoch |-> clock, counter |-> 1],
             data |-> disk[s].data]]
      /\ epochTime' = [epochTime EXCEPT ![s] = clock]
      /\ ThreadIs(s, "send", {}, {}, NoOne)
      /\ UNCHANGED <<clock, acked>>
    BY LabelDoes
<1>2. Unlabelled(s) /\ Acts(s)
    BY <1>1 DEF Unlabelled, Acts, Control, ActsOK
<1>3. /\ \A w \in Server : w # s => disk'[w] = disk[w] /\ thread'[w] = thread[w]
      /\ disk'[s] = [label |-> [epoch |-> clock, counter |-> 1], data |-> disk[s].data]
    BY <1>1 DEF Types, ThreadIs
<1>4. /\ \A u \in Server : u # s => Source(u)' = Source(u) /\ Source(u) = disk[u]
             /\ disk[u].label = version[u]
      /\ Source(s) = disk[s] /\ Source(s)' = disk'[s]
  <2>1. \A u \in Server : u # s => thread[u].at = "asleep"
      BY <1>2 DEF Control, OneActs, Acts
  <2> QED
      BY <1>1, <1>3, <2>1 DEF Source, ThreadIs, Labels
<1>5. Promised' \subseteq Promised
    BY <1>1, PromisedSame DEF TransIs
<1>6. \A x \in Promised : Has(s, x)'
  <2>1. \A x \in Promised : Has(s, x)
      BY <1>1 DEF Promises, Found, Full
  <2> QED
      BY <1>3, <1>4, <2>1 DEF Has
<1>7. ASSUME NEW u \in Server, u # s PROVE Newer(Source(s)'.label, Source(u).label)
  <2>1. version[u].epoch < clock /\ version[u].epoch \in Nat /\ clock \in Nat
      BY <1>2, Times DEF Labels, LabelOK, Types, Version
  <2> QED
      BY <1>3, <1>4, <1>7, <2>1 DEF Newer
<1>8. Kept'
    BY <1>4, <1>5, <1>6, <1>7, KeptGrows DEF Promises
<1>9. Full(s)'
    BY <1>5, <1>6 DEF Full
<1>10. Found(s)'
    BY <1>1, <1>9 DEF Found, ThreadIs
<1>11. \A u \in Server : u # s => epochTime'[u] = epochTime[u]
  <2>1. epochTime \in [Server -> 0 .. MaxEpoch]
      BY DEF Types
  <2> QED
      BY <1>1, <2>1
<1> QED
    BY <1>1, <1>2, <1>3, <1>5, <1>8, <1>10, <1>11, PromisesWritten

LEMMA PromisesSend ==
    ASSUME Types, Control, Labels, Promises, NEW s \in Server, NEW t \in Server, Send(s, t)
    PROVE  Promises'
<1>1. /\ thread[s].at = "sending" /\ t \in thread[s].todo
      /\ UNCHANGED <<epochTime, clock, acked>>
      /\ \A u \in Server : u # s => thread'[u] = thread[u]
      /\ thread'[s].at = "sending"
      /\ Sent(s, t) \/ UNCHANGED <<disk, version, trans>>
  <2>1. \E heard : ThreadIs(s, "sending", thread[s].todo \ {t}, heard, thread[s].best)
      BY SendDoes, Zenon
  <2>2. /\ thread[s].at = "sending" /\ t \in thread[s].todo
        /\ UNCHANGED <<epochTime, clock, acked>>
      BY SendDoes
  <2>3. Sent(s, t) \/ UNCHANGED <<disk, version, trans>>
      BY SendDoes, Zenon
  <2> QED
      BY <2>1, <2>2, <2>3 DEF ThreadIs
<1>2. Acts(s) /\ Leader(s) /\ t # s /\ disk[s].label = version[s]
    BY <1>1 DEF Acts, Control, ActsOK, LoopsOK, Others, Labels
<1>3. \A u \in Server : thread[u].at # "fetching" /\ thread'[u].at # "fetching"
  <2>1. \A u \in Server : u # s => thread[u].at = "asleep"
      BY <1>2 DEF Control, OneActs, Acts
  <2> QED
      BY <1>1, <2>1
<1>4. \A u \in Server : Source(u) = disk[u] /\ Source(u)' = disk'[u]
    BY <1>3 DEF Source
<1>5. Promised' \subseteq Promised
  <2>1. \A u \in Server : /\ trans'[u].phase = trans[u].phase /\ trans'[u].tid = trans[u].tid
                          /\ trans'[u].ok = trans[u].ok
      BY <1>1 DEF Sent, TransIs
  <2> QED
      BY <1>1, <2>1, PromisedSame
<1>6. Full(s)
    BY <1>2 DEF Promises, Found
<1>7. Kept'
  <2>1. CASE Sent(s, t)
    <3>1. [label |-> version[s], data |-> disk[s].data] = disk[s]
        BY <1>2 DEF Types
    <3>2. disk'[t] = disk[s] /\ \A w \in Server : w # t => disk'[w] = disk[w]
        BY <2>1, <3>1 DEF Sent, Types
    <3> QED
        BY <1>4, <1>5, <1>6, <3>2, KeptCopied DEF Promises
  <2>2. CASE UNCHANGED disk
      BY <1>4, <1>5, <2>2, KeptStays DEF Promises
  <2> QED
      BY <1>1, <2>1, <2>2
<1>8. Source(s)' = Source(s)
    BY <1>1, <1>2, <1>4 DEF Sent, Types
<1>9. Found(s)'
    BY <1>1, <1>5, <1>6, <1>8, FullStays DEF Found
<1> QED
    BY <1>1, <1>2, <1>5, <1>7, <1>9, PromisesWritten

LEMMA PromisesRecovery ==
    ASSUME Types, Control, Labels, Promises, NEW s \in Server, Recovery(s) PROVE Promises'
BY PromisesWake, PromisesFindEnd, PromisesFetchStart, PromisesFetchEnd, PromisesLabel,
   PromisesSendPass, PromisesCheck, PromisesFind, PromisesSend DEF Recovery

-----------------------------------------------------------------------------
(* Promises: commits.                                                      *)

\* A commit writes the newest copy, or the leader's own, over that of d.
LEMMA KeptCommit ==
    ASSUME Types, Control, Transactions, Labels, Copies, Promises, NEW s \in Server,
           NEW d \in Server,
           Leader(s), Pending(s), disk'[d] = After(s),
               \A w \in Server : w # d => disk'[w] = disk[w],
           UNCHANGED thread, Promised' \subseteq Promised
    PROVE  Kept'
<1>1. \A u \in Server : thread[u].at # "fetching"
    BY DEF Control, OneActs, ActsOK, Acts
<1>2. \A u \in Server : Source(u) = disk[u] /\ Source(u)' = disk'[u]
    BY <1>1 DEF Source
<1>3. Full(s) /\ Latest(s)
    BY DEF Promises, Found, Copies
<1>4. \A x \in Promised : Parts(x) \subseteq After(s).data
    BY <1>2, <1>3 DEF Full, Has, After, Raised
<1>5. \A x \in Promised : Has(d, x)'
    BY <1>2, <1>4 DEF Has
<1>6. ASSUME NEW u \in Server, u # d, ~Newer(After(s).label, disk[u].label) PROVE Full(u)
  <2>1. /\ disk[s].label.epoch = clock /\ disk[s].label.counter \in Nat /\ clock \in Nat
        /\ disk[u].label.epoch \in Nat /\ disk[u].label.counter \in Nat
      BY <1>3, Times DEF Latest, Types, Version
  <2>2. disk[u].label = version[u] /\ version[u].epoch <= clock
      BY <1>1 DEF Labels, LabelOK
  <2>3. disk[u].label.epoch = clock /\ disk[u].label.counter >= disk[s].label.counter + 1
      BY <1>6, <2>1, <2>2 DEF After, Raised, Newer
  <2>4. disk[u] = After(s)
      BY <1>3, <2>1, <2>3 DEF Latest
  <2> QED
      BY <1>2, <1>4, <2>4 DEF Full, Has
<1> QED
    BY <1>2, <1>5, <1>6, KeptGrows DEF Promises

LEMMA PromisesLocalCommit ==
    ASSUME Types, Control, Transactions, Labels, Copies, Promises, NEW s \in Server, LocalCommit(s)
    PROVE  Promises'
<1>1. /\ trans[s].phase = "commit" /\ s \in trans[s].todo
      /\ UNCHANGED <<thread, known, epochTime, clock, acked>>
    BY LocalCommitDoes
<1>2. Leader(s) /\ disk[s].label = version[s] /\ Acts(s) /\ thread[s].at # "fetching"
  <2>1. Leader(s)
      BY <1>1 DEF Transactions, CommitOK
  <2>2. thread[s].at # "fetching"
      BY <2>1 DEF Control, ActsOK
  <2> QED
      BY <2>1, <2>2 DEF Labels, Acts
<1>3. trans'[s].phase = "commit" /\ \A u \in Server : u # s => trans'[u] = trans[u]
  <2>1. \E ok, todo : TransIs(s, "commit", trans[s].sent, todo, ok, TRUE)
      BY LocalCommitDoes, Zenon
  <2> QED
      BY <2>1 DEF TransIs
<1>4. Promised' \subseteq Promised
    BY <1>1, <1>3, PromisedSame
<1>5. CASE UNCHANGED disk
    BY <1>1, <1>4, <1>5, PromisesSame DEF Leader
<1>6. CASE /\ ~trans[s].done
           /\ disk' = [disk EXCEPT ![s] =
                  [label |-> [epoch |-> version[s].epoch, counter |-> version[s].counter + 1],
                   data |-> disk[s].data \cup Parts(trans[s].tid)]]
  <2>1. disk'[s] = After(s) /\ \A w \in Server : w # s => disk'[w] = disk[w]
      BY <1>2, <1>6 DEF Types, After, Raised
  <2>2. Pending(s)
      BY <1>1, <1>6 DEF Pending
  <2>3. Kept'
      BY <1>1, <1>2, <1>4, <2>1, <2>2, KeptCommit
  <2>4. \A x \in Promised : Has(s, x)'
    <3>1. Source(s) = disk[s] /\ Source(s)' = disk'[s]
        BY <1>1, <1>2 DEF Source
    <3> QED
        BY <1>2, <2>1, <3>1 DEF Promises, Found, Full, Has, After, Raised
  <2>5. Full(s)'
      BY <1>4, <2>4 DEF Full
  <2>6. Found(s)'
      BY <1>1, <1>2, <2>5 DEF Found, Control, ActsOK
  <2> QED
      BY <1>1, <1>2, <1>4, <2>3, <2>6, PromisesWritten
<1> QED
    BY <1>5, <1>6, LocalCommitDoes

LEMMA PromisesContact ==
    ASSUME Types, Control, Transactions, Tids, Labels, Calls, Copies, Promises,
           NEW s \in Server, NEW t \in Server, Contact(s, t)
    PROVE  Promises'
<1>1. Answered(s, t) /\ UNCHANGED <<thread, known, epochTime, clock, acked>>
    BY ContactAnswered, ContactLast, ContactDoes
<1>2. Promised' \subseteq Promised
  <2>1. PICK good \in BOOLEAN, ok \in SUBSET Server : Called(s, t, good, ok)
      BY ContactLast, ContactDoes
  <2>2. trans[s].phase = "release" => trans'[s].ok = trans[s].ok
      BY <2>1 DEF Called, TransIs
  <2> QED
      BY <1>1, <2>2, PromisedSame DEF Answered
<1>3. CASE UNCHANGED disk
    BY <1>1, <1>2, <1>3, PromisesSame DEF Leader
<1>4. CASE Installed(s, t)
  <2>1. /\ Leader(s) /\ t \in currentDB[s] /\ t # s /\ t \in trans[s].todo
               /\ current[t].data = Parts(trans[s].tid)
        /\ s \in trans[s].ok \/ ~trans[s].done
        /\ trans[s].phase = "commit" /\ VersionFree(t)
      BY <1>1, <1>4, InstalledData DEF Answered, Installed
  <2>2. Latest(s) /\ Acts(s) /\ disk[t].label = version[t]
      BY <2>1, FreeLabel DEF Copies, Acts
  <2>3. /\ disk'[t] = Raised(disk[t], trans[s].tid) /\ \A w \in Server : w # t => disk'[w] = disk[w]
    <3>1. version' = [version EXCEPT ![t] = [epoch |-> version[t].epoch,
                                            counter |-> version[t].counter + 1]]
        BY <1>4 DEF Installed
    <3>2. disk' = [disk EXCEPT ![t] = [label |-> version'[t],
              data |-> disk[t].data \cup current[t].data]]
        BY <1>4 DEF Installed
    <3>3. version'[t] = [epoch |-> version[t].epoch, counter |-> version[t].counter + 1]
        BY <3>1 DEF Types
    <3>4. disk'[t] = [label |-> version'[t], data |-> disk[t].data \cup current[t].data]
          /\ \A w \in Server : w # t => disk'[w] = disk[w]
        BY <3>2 DEF Types
    <3> QED
        BY <2>1, <2>2, <3>3, <3>4 DEF Raised
  <2>4. \A u \in Server : thread[u].at # "fetching"
      BY <2>1 DEF Control, OneActs, ActsOK, Acts
  <2>5. \A u \in Server : Source(u) = disk[u] /\ Source(u)' = disk'[u]
      BY <1>1, <2>4 DEF Source
  <2>6. Full(s)
      BY <2>1 DEF Promises, Found
  <2>7. Kept'
    <3>1. CASE s \in trans[s].ok
      <4>1. disk'[t] = disk[s]
          BY <2>1, <2>2, <2>3, <3>1 DEF Latest
      <4> QED
          BY <1>2, <2>3, <2>5, <2>6, <4>1, KeptCopied DEF Promises
    <3>2. CASE s \notin trans[s].ok
      <4>1. disk'[t] = After(s)
          BY <2>1, <2>2, <2>3, <3>2 DEF Latest, After
      <4>2. Pending(s)
          BY <2>1, <3>2 DEF Transactions, CommitOK, Pending
      <4> QED
          BY <1>1, <1>2, <2>1, <2>3, <4>1, <4>2, KeptCommit
    <3> QED
        BY <3>1, <3>2
  <2>8. Full(s)'
      BY <1>2, <2>1, <2>3, <2>5, <2>6, FullStays
  <2>9. Found(s)'
      BY <1>1, <2>1, <2>8 DEF Found, Control, ActsOK
  <2> QED
      BY <1>1, <1>2, <2>2, <2>7, <2>9, PromisesWritten
<1> QED
    BY <1>3, <1>4, ContactAnswered

LEMMA PromisesCommitEnd ==
    ASSUME Types, Control, Transactions, Calls, Labels, Copies, Promises, NEW s \in Server,
           CommitEnd(s)
    PROVE  Promises'
<1>1. /\ trans[s].phase = "commit" /\ trans[s].todo = {}
      /\ UNCHANGED <<disk, version, thread, currentDB, epochTime, clock, acked>>
      /\ trans'[s].phase = "release" /\ trans'[s].tid = trans[s].tid /\ trans'[s].ok = trans[s].ok
      /\ \A u \in Server : u # s => trans'[u] = trans[u]
    BY CommitEndDoes DEF TransIs
<1>2. Leader(s) /\ Latest(s) /\ Written(s) /\ ~Pending(s) /\ Acts(s)
    BY <1>1 DEF Transactions, CommitOK, Copies, Pending, Acts
<1>3. \A u \in Server : thread[u].at # "fetching"
    BY <1>2 DEF Control, OneActs, ActsOK, Acts
<1>4. \A u \in Server : Source(u) = disk[u] /\ Source(u)' = Source(u)
    BY <1>1, <1>3 DEF Source
<1>5. Full(s)
    BY <1>2 DEF Promises, Found
<1>6. CASE ~IsQuorum(trans[s].ok, Magic)
  <2>1. Promised' \subseteq Promised
    <3>1. acked' \subseteq Promised
        BY <1>1 DEF Promised
    <3>2. ASSUME NEW u \in Server, trans'[u].phase = "release", IsQuorum(trans'[u].ok, Magic)
          PROVE  trans'[u].tid \in Promised
        BY <1>1, <1>6, <3>2 DEF Promised
    <3> QED
        BY <3>1, <3>2, NothingPromised
  <2>2. Kept'
      BY <1>4, <2>1, KeptStays DEF Promises
  <2>3. Found(s)'
      BY <1>1, <1>2, <1>4, <1>5, <2>1, FullStays DEF Found, Control, ActsOK
  <2> QED
      BY <1>1, <1>2, <2>1, <2>2, <2>3, PromisesWritten
<1>7. CASE IsQuorum(trans[s].ok, Magic)
  <2>1. PICK x \in Tid : x = trans[s].tid
      BY TypeFacts
  <2>2. Promised' \subseteq Promised \cup {x}
    <3>1. ASSUME NEW y \in Promised' PROVE y \in Promised \cup {x}
      <4>1. y \in acked \/ \E u \in Server : /\ trans'[u].phase = "release" /\ IsQuorum(trans'[u].ok, Magic)
                                             /\ y = trans'[u].tid
          BY <1>1, <3>1 DEF Promised
      <4> QED
          BY <1>1, <2>1, <4>1 DEF Promised
    <3> QED
        BY <3>1
  <2>3. s \in trans[s].ok /\ Parts(x) \subseteq disk[s].data
    <3>1. \E v \in Server : v \in trans[s].ok
      <4>1. trans[s].ok \in SUBSET Server
          BY TypeFacts
      <4> QED
          BY <1>7, <4>1, QuorumsMeet
    <3>2. s \in trans[s].ok
        BY <1>1, <1>2, <3>1 DEF Calls
    <3> QED
        BY <1>1, <1>2, <2>1, <3>2 DEF Written
  <2>4. ASSUME NEW u \in trans[s].ok PROVE disk[u] = disk[s]
    <3>1. u = s \/ u \in currentDB[s]
        BY <1>1, <2>4 DEF Transactions, CommitOK
    <3> QED
        BY <1>1, <1>2, <3>1 DEF Latest
  <2>5. IsQuorum({u \in Server : Has(u, x)}, Magic)
    <3>1. trans[s].ok \subseteq {u \in Server : Has(u, x)}
        BY <1>4, <2>3, <2>4, TypeFacts DEF Has
    <3> QED
        BY <1>7, <3>1, TypeFacts, QuorumGrows
  <2>6. ASSUME NEW u \in Server, NEW v \in Server, Has(v, x), ~Newer(disk[v].label, disk[u].label)
        PROVE  Has(u, x)
    <3>1. disk[v].data \cap Parts(x) # {}
      <4>1. Parts(x) \subseteq disk[v].data
          BY <1>4, <2>6 DEF Has
      <4> QED
          BY <4>1, PartsNotEmpty
    <3>2. disk[v] = disk[s]
        BY <1>1, <1>2, <2>1, <3>1 DEF Written, Active
    <3>3. disk[s].label.epoch = clock /\ clock \in Nat \ {0}
        BY <1>2, Times DEF Latest
    <3>4. disk[u].label = version[u] /\ version[u].epoch <= clock
        BY <1>3 DEF Labels, LabelOK
    <3>5. disk[u].label \in Version /\ disk[s].label \in Version
        BY DEF Types
    <3>6. disk[u].label.epoch = clock /\ disk[u].label.counter >= disk[s].label.counter
        BY <2>6, <3>2, <3>3, <3>4, <3>5 DEF Newer, Version
    <3>7. disk[u].label.counter <= disk[s].label.counter
        BY <1>2, <3>6 DEF Latest
    <3>8. disk[u].label = disk[s].label
        BY <3>3, <3>5, <3>6, <3>7 DEF Version
    <3>9. disk[s].label # Zero
        BY <3>3 DEF Zero
    <3>10. disk[u] = disk[s]
        BY <3>8, <3>9 DEF Copies, SameVersionSameData
    <3> QED
        BY <1>4, <2>3, <3>10 DEF Has
  <2>7. ASSUME NEW y \in Promised'
        PROVE  /\ IsQuorum({u \in Server : Has(u, y)'}, Magic)
               /\ \A u, v \in Server :
                     Has(v, y)' /\ ~Newer(Source(v)'.label, Source(u)'.label) => Has(u, y)'
    <3>1. \A u \in Server : Has(u, y)' <=> Has(u, y)
        BY <1>4 DEF Has
    <3>2. {u \in Server : Has(u, y)'} = {u \in Server : Has(u, y)}
        BY <3>1
    <3>3. CASE y = x
        BY <1>4, <2>5, <2>6, <3>1, <3>2, <3>3
    <3>4. CASE y \in Promised
        BY <1>4, <3>1, <3>2, <3>4 DEF Promises, Kept
    <3> QED
        BY <2>2, <2>7, <3>3, <3>4
  <2>8. Kept'
      BY <2>7 DEF Kept
  <2>9. Full(s)'
    <3>1. Source(s)' = Source(s) /\ Source(s) = disk[s]
        BY <1>4
    <3> QED
        BY <1>5, <2>2, <2>3, <3>1 DEF Full, Has
  <2>10. Found(s)'
      BY <1>1, <1>2, <2>9 DEF Found, Control, ActsOK
  <2>11. \A u \in Server : u # s => Found(u)'
      BY <1>1, <1>2, FoundIdle DEF Leader
  <2> QED
      BY <2>8, <2>10, <2>11, PromisesNext
<1> QED
    BY <1>6, <1>7

-----------------------------------------------------------------------------
(* The invariant holds initially and is kept, and what follows from it.    *)

\* A step of a transaction that writes nothing and promises nothing new.
LEMMA PromisesGoOn ==
    ASSUME Types, Promises, NEW s \in Server,
           UNCHANGED <<disk, thread, known, epochTime, clock, acked>>,
           \A u \in Server : u # s => trans'[u] = trans[u], trans'[s].phase # "release"
    PROVE  Promises'
<1>1. Promised' \subseteq Promised
    BY PromisedSame
<1> QED
    BY <1>1, PromisesSame DEF Leader

LEMMA PromisesReleaseEnd ==
    ASSUME Types, Promises, NEW s \in Server, ReleaseEnd(s) PROVE Promises'
<1>1. /\ trans[s].phase = "release" /\ trans' = [trans EXCEPT ![s] = NoTrans]
      /\ acked' = IF IsQuorum(trans[s].ok, Magic) THEN acked \cup {trans[s].tid} ELSE acked
      /\ UNCHANGED <<disk, thread, known, epochTime, clock>>
    BY ReleaseEndDoes
<1>2. trans'[s].phase = "none" /\ \A u \in Server : u # s => trans'[u] = trans[u]
    BY <1>1 DEF Types, NoTrans
<1>3. Promised' \subseteq Promised
  <2>1. acked' \subseteq Promised
      BY <1>1 DEF Promised
  <2>2. ASSUME NEW u \in Server, trans'[u].phase = "release", IsQuorum(trans'[u].ok, Magic)
        PROVE  trans'[u].tid \in Promised
    <3>1. trans'[u] = trans[u]
        BY <1>2, <2>2
    <3> QED
        BY <2>2, <3>1 DEF Promised
  <2> QED
      BY <2>1, <2>2, NothingPromised
<1> QED
    BY <1>1, <1>3, PromisesSame DEF Leader

LEMMA PromisesTransact ==
    ASSUME Types, Control, Transactions, Tids, Labels, Calls, Copies, Promises, NEW s \in Server,
           Transact(s)
    PROVE  Promises'
<1>1. CASE Begin(s)
    BY <1>1, BeginDoes, PromisesGoOn
<1>2. CASE Update(s)
    BY <1>2, UpdateDoes, PromisesGoOn DEF TransIs
<1>3. CASE UpdateEnd(s)
  <2>1. \/ TransIs(s, "open", trans[s].sent + 1, trans[s].todo, {}, trans[s].done)
        \/ TransIs(s, "undo", trans[s].sent + 1, currentDB[s], {}, TRUE)
      BY <1>3, UpdateEndDoes
  <2>2. trans'[s].phase # "release" /\ \A u \in Server : u # s => trans'[u] = trans[u]
      BY <2>1 DEF TransIs
  <2> QED
      BY <1>3, <2>2, UpdateEndDoes, PromisesGoOn
<1>4. CASE UndoEnd(s)
    BY <1>4, UndoEndDoes, PromisesGoOn DEF TransIs
<1>5. ASSUME Given(s)
      PROVE  trans'[s].phase # "release" /\ \A u \in Server : u # s => trans'[u] = trans[u]
    BY <1>5 DEF Given, Types, NoTrans
<1>6. CASE AbortTrans(s)
  <2>1. Given(s) \/ TransIs(s, "abort", trans[s].sent, currentDB[s], {}, trans[s].done)
      BY <1>6, AbortTransDoes
  <2>2. trans'[s].phase # "release" /\ \A u \in Server : u # s => trans'[u] = trans[u]
      BY <1>5, <2>1 DEF TransIs
  <2> QED
      BY <1>6, <2>2, AbortTransDoes, PromisesGoOn
<1>7. CASE AbortEnd(s)
    BY <1>5, <1>7, AbortEndDoes, PromisesGoOn
<1>8. CASE EndTrans(s)
  <2>1. Given(s) \/ TransIs(s, "commit", trans[s].sent, currentDB[s] \cup {s}, {}, trans[s].done)
      BY <1>8, EndTransDoes
  <2>2. trans'[s].phase # "release" /\ \A u \in Server : u # s => trans'[u] = trans[u]
      BY <1>5, <2>1 DEF TransIs
  <2> QED
      BY <1>8, <2>2, EndTransDoes, PromisesGoOn
<1>9. CASE LocalCommit(s)
    BY <1>9, PromisesLocalCommit
<1>10. CASE CommitEnd(s)
    BY <1>10, PromisesCommitEnd
<1>11. CASE ReleaseEnd(s)
    BY <1>11, PromisesReleaseEnd
<1>12. ASSUME NEW t \in Server, Contact(s, t) PROVE Promises'
    BY <1>12, PromisesContact
<1> QED
    BY <1>1, <1>2, <1>3, <1>4, <1>6, <1>7, <1>8, <1>9, <1>10, <1>11, <1>12 DEF Transact

\* No step loses what was promised.
LEMMA PromisesStep ==
    ASSUME Types, Control, Transactions, Tids, Labels, Calls, Copies, Promises, [Next]_vars
    PROVE  Promises'
<1>1. CASE UNCHANGED vars \/ Lapse
  <2>1. UNCHANGED <<disk, thread, known, trans, acked, epochTime, clock>>
    <3>1. CASE UNCHANGED vars
        BY <3>1 DEF vars, dbVars, recVars, tidVars, clientVars
    <3>2. CASE Lapse
        BY <3>2 DEF Lapse, dbVars, tidVars, clientVars
    <3> QED
        BY <1>1, <3>1, <3>2
  <2>2. Promised' \subseteq Promised
      BY <2>1, PromisedSame
  <2> QED
      BY <2>1, <2>2, PromisesSame DEF Leader
<1>2. ASSUME NEW s \in Server, Election(s) \/ Recovery(s) \/ Transact(s) \/ Restart(s)
      PROVE  Promises'
    BY <1>2, PromisesElection, PromisesRecovery, PromisesTransact, PromisesRestart
<1> QED
    BY <1>1, <1>2 DEF Next
-----------------------------------------------------------------------------

\* The inductive invariant.
ReplicaInv ==
    /\ Types /\ Control /\ Transactions /\ Tids /\ Labels /\ Calls
    /\ Copies /\ Promises

\* Initially nothing goes on.
LEMMA InitIdle ==
    ASSUME Init, NEW s \in Server
    PROVE  /\ trans[s] = NoTrans /\ current[s] = NoCurrent /\ thread[s] = Asleep
           /\ state[s] = {} /\ currentDB[s] = {} /\ epochTime[s] = 0 /\ clock = 1 /\ site = NoOne
           /\ version[s] = [epoch |-> 1, counter |-> 1]
           /\ disk[s] = [label |-> [epoch |-> 1, counter |-> 1], data |-> {}]
           /\ \A t \in Server : known[s][t] = Zero
           /\ ~Acts(s) /\ ~Leader(s) /\ ~Active(s) /\ ~Pending(s)
BY ReplicaAssumption DEF Init, NoTrans, Asleep, Acts, Leader, Active, Pending

\* It holds initially.
LEMMA InitInv == Init => ReplicaInv
<1> SUFFICES ASSUME Init PROVE ReplicaInv
    OBVIOUS
<1>1. Types
    BY InitTypes
<1>2. clock = 1 /\ acked = {} /\ aborted = {}
    BY DEF Init
<1>3. Control
    BY InitIdle, ReplicaAssumption
       DEF Control, OneActs, ActsOK, StateOK, LoopsOK, Asleep, Unlabelled
<1>4. Transactions
  <2>1. ASSUME NEW s \in Server PROVE TransOK(s) /\ CommitOK(s)
    <3>1. trans[s] = NoTrans /\ currentDB[s] = {} /\ ~Active(s)
        BY InitIdle, Zenon
    <3>2. trans[s].phase = "none"
        BY <3>1 DEF NoTrans
    <3> QED
        BY <3>1, <3>2 DEF TransOK, CommitOK
  <2>2. Distinct
      BY InitIdle DEF Distinct
  <2> QED
      BY <2>1, <2>2 DEF Transactions
<1>5. Tids
  <2>1. TidOK(Zero)
      BY <1>1, ZeroOK
  <2> QED
      BY <1>2, <2>1, InitIdle DEF Tids, NoTrans, NoCurrent
<1>6. Labels
    BY <1>2, InitIdle DEF Labels, LabelOK, Unlabelled, Asleep, Zero
<1>7. Calls
    BY InitIdle DEF Calls, NoTrans
<1>8. Copies
  <2>1. \A s \in Server : Written(s) /\ ~Leader(s)
      BY InitIdle DEF Written, NoTrans
  <2>2. SameVersionSameData /\ AbortedNowhere
      BY <1>2, InitIdle DEF SameVersionSameData, AbortedNowhere
  <2> QED
      BY <2>1, <2>2 DEF Copies
<1>9. Promises
  <2>1. Promised = {}
      BY <1>2, InitIdle DEF Promised, NoTrans
  <2>2. \A s \in Server : Found(s)
      BY InitIdle DEF Found, Asleep
  <2> QED
      BY <2>1, <2>2 DEF Promises, Kept
<1> QED
    BY <1>1, <1>3, <1>4, <1>5, <1>6, <1>7, <1>8, <1>9 DEF ReplicaInv

\* It is kept by every step.
LEMMA StepInv == ReplicaInv /\ [Next]_vars => ReplicaInv'
<1> SUFFICES ASSUME ReplicaInv, [Next]_vars PROVE ReplicaInv'
    OBVIOUS
<1>0. Types /\ Control /\ Transactions /\ Tids /\ Labels /\ Calls /\ Copies /\ Promises
    BY DEF ReplicaInv
<1>1. Types' /\ Control' /\ Transactions'
    BY <1>0, TypesStep, ControlStep, TransactionsStep
<1>2. Tids' /\ Labels' /\ Calls'
    BY <1>0, <1>1, TidsStep, LabelsStep, CallsStep
<1>3. Copies' /\ Promises'
    BY <1>0, <1>1, CopiesStep, PromisesStep
<1> QED
    BY <1>1, <1>2, <1>3 DEF ReplicaInv

\* It holds in every state that the specification reaches.
LEMMA Invariance == Spec => []ReplicaInv
BY InitInv, StepInv, PTL DEF Spec

\* Every variable has its type, whatever recovery, transactions, beacons and restarts do:
\* transactions have an epoch, and the loops of a pass are over other servers.
THEOREM TypesHold == Spec => []ReplicaTypeOK
<1>1. ReplicaInv => ReplicaTypeOK
  <2> SUFFICES ASSUME ReplicaInv PROVE ReplicaTypeOK
      OBVIOUS
  <2>1. Types /\ Control
      BY DEF ReplicaInv
  <2>2. ASSUME NEW s \in Server
        PROVE  \A d \in disk[s].data \cup current[s].data : d \in Garbage
               \cup (Tid \X (1 .. Updates))
      BY <2>1, TypeFacts DEF Items
  <2>3. ASSUME NEW s \in Server
        PROVE  /\ disk[s].label \in Version /\ version[s] \in Version
               /\ current[s].tid \in Tid /\ trans[s].tid \in Tid
               /\ trans[s].phase \in {"none", "open", "update", "undo", "abort", "commit",
                                      "release"}
               /\ trans[s].sent \in 0 .. Updates
               /\ trans[s].todo \cup trans[s].ok \cup currentDB[s] \subseteq Server
      BY <2>1, TypeFacts DEF Phases
  <2>4. ASSUME NEW s \in Server
        PROVE  /\ state[s] \subseteq {"FOUNDDB", "HAVEDB", "LABELDB", "SENTDB"}
               /\ thread[s].at \in {"asleep", "find", "fetch", "fetching", "label",
                                    "send", "sending"}
               /\ thread[s].todo \cup thread[s].heard \subseteq Others(s)
               /\ thread[s].best \in Others(s) \cup {NoOne}
               /\ \A t \in Server : known[s][t] \in Version
    <3>1. LoopsOK(s)
        BY <2>1 DEF Control
    <3>2. thread[s].at \in Stations /\ state[s] \in SUBSET Flags
        BY <2>1, ThreadFacts
    <3>3. \A t \in Server : known[s][t] \in Version
        BY <2>1, ThreadFacts
    <3> QED
        BY <3>1, <3>2, <3>3 DEF LoopsOK, Stations, Flags
  <2>5. \A s \in Server : epochTime[s] \in Nat /\ tidCounter[s] \in Nat
      BY <2>1, Times
  <2>6. site \in Server \cup {NoOne} /\ acked \cup aborted \subseteq Tid
      BY <2>1 DEF Types
  <2> QED
      BY <2>2, <2>3, <2>4, <2>5, <2>6 DEF ReplicaTypeOK
<1> QED
    BY <1>1, Invariance, PTL

\* Two copies with one version have the same data.  urecovery_Interact compares versions
\* only (recovery.c:866) and does not send a database to a server whose version is equal.
THEOREM VersionTells == Spec => []SameVersionSameData
<1>1. ReplicaInv => SameVersionSameData
    BY DEF ReplicaInv, Copies
<1> QED
    BY <1>1, Invariance, PTL

\* Of a transaction that udisk_abort or ubik_EndTrans gave up, no copy has anything, now
\* or after any election, fetch or restart.
THEOREM GivenUpIsGone == Spec => []AbortedNowhere
<1>1. ReplicaInv => AbortedNowhere
    BY DEF ReplicaInv, Copies
<1> QED
    BY <1>1, Invariance, PTL

\* Outside of commits, every server that the sync site has marked current has the very
\* database of the sync site, so that ubik_write may leave out all the others.
THEOREM CurrentTellsTruth == Spec => []CurrentIsCurrent
<1>1. ReplicaInv => CurrentIsCurrent
  <2> SUFFICES ASSUME ReplicaInv, NEW s \in Server, AllBetter(s), trans[s].phase # "commit",
                      NEW t \in currentDB[s]
               PROVE  disk[t] = disk[s]
      BY DEF CurrentIsCurrent
  <2>1. Leader(s)
      BY DEF ReplicaInv, Control, ActsOK, AllBetter
  <2>2. Latest(s)
      BY <2>1 DEF ReplicaInv, Copies
  <2> QED
      BY <2>2 DEF Latest
<1> QED
    BY <1>1, Invariance, PTL

\* A sync site that serves write transactions has every transaction of which a client was
\* told by ubik_EndTrans that it is committed, through any restarts and changes of mandate.
THEOREM CommitsSurvive == Spec => []CommittedSurvives
<1>1. ReplicaInv => CommittedSurvives
  <2> SUFFICES ASSUME ReplicaInv, NEW s \in Server, AllBetter(s), NEW tid \in acked
               PROVE  Parts(tid) \subseteq disk[s].data
      BY DEF CommittedSurvives
  <2>1. Leader(s) /\ thread[s].at # "fetching"
      BY DEF ReplicaInv, Control, ActsOK, AllBetter
  <2>2. Full(s) /\ Source(s) = disk[s]
      BY <2>1 DEF ReplicaInv, Promises, Found, Source
  <2>3. tid \in Promised
      BY DEF Promised
  <2> QED
      BY <2>2, <2>3 DEF Full, Has
<1> QED
    BY <1>1, Invariance, PTL

-----------------------------------------------------------------------------
(* The abstract store: the copies that a quorum would elect.               *)

\* Some quorum would elect a server and then find the copy of u the best.
Electable(u) ==
    IsQuorum({w \in Server : ~Newer(Source(w).label, Source(u).label)}, Magic)

\* The outcomes are the data of such copies.
OutcomesElectable == Outcomes = {Source(u).data : u \in {v \in Server : Electable(v)}}

LEMMA OutcomesAre == OutcomesElectable
<1> DEFINE copies == {[host |-> s, db |-> Source(s)] : s \in Server}
           NotBeaten(c) == {d \in copies : ~Newer(d.db.label, c.db.label)}
           Hosts(c) == {d.host : d \in NotBeaten(c)}
           Best == {c \in copies : IsQuorum(Hosts(c), Magic)}
<1>1. Outcomes = {c.db.data : c \in Best}
    BY DEF Outcomes
<1>2. ASSUME NEW u \in Server
      PROVE  Hosts([host |-> u, db |-> Source(u)]) =
                 {w \in Server : ~Newer(Source(w).label, Source(u).label)}
  <2> DEFINE c == [host |-> u, db |-> Source(u)]
  <2>1. ASSUME NEW w \in Server, ~Newer(Source(w).label, Source(u).label) PROVE w \in Hosts(c)
    <3>1. [host |-> w, db |-> Source(w)] \in NotBeaten(c)
        BY <2>1
    <3> QED
        BY <3>1
  <2>2. ASSUME NEW w \in Hosts(c)
        PROVE  w \in Server /\ ~Newer(Source(w).label, Source(u).label)
    <3>1. PICK d \in NotBeaten(c) : d.host = w
        BY <2>2
    <3>2. PICK v \in Server : d = [host |-> v, db |-> Source(v)]
        BY <3>1
    <3>3. ~Newer(d.db.label, c.db.label)
        BY <3>1
    <3> QED
        BY <3>1, <3>2, <3>3
  <2> QED
      BY <2>1, <2>2
<1> HIDE DEF Hosts
<1>3. \A u \in Server : [host |-> u, db |-> Source(u)] \in Best <=> Electable(u)
    BY <1>2 DEF Electable
<1>4. ASSUME NEW c \in Best PROVE \E u \in Server : Electable(u) /\ c.db.data = Source(u).data
  <2>1. PICK u \in Server : c = [host |-> u, db |-> Source(u)]
      OBVIOUS
  <2>2. Electable(u)
      BY <1>3, <2>1
  <2> QED
      BY <2>1, <2>2
<1>5. ASSUME NEW u \in Server, Electable(u) PROVE \E c \in Best : c.db.data = Source(u).data
  <2>1. [host |-> u, db |-> Source(u)] \in Best
      BY <1>3, <1>5
  <2> QED
      BY <2>1
<1> HIDE DEF Best
<1> QED
    BY <1>1, <1>4, <1>5 DEF OutcomesElectable

LEMMA OutcomesNext == Outcomes' = {Source(u)'.data : u \in {v \in Server : Electable(v)'}}
<1>1. OutcomesElectable'
    BY OutcomesAre, PTL
<1> QED
    BY <1>1 DEF OutcomesElectable

\* All servers together are a quorum: so what is newest of all is electable.
LEMMA EveryoneIsQuorum == IsQuorum(Server, Magic)
<1>1. Cardinality(Server) \in Nat /\ Cardinality(Server) # 0 /\ ubik_nServers = Cardinality(Server)
    BY ServerAssumption, FS_EmptySet, VoteWeight DEF ubik_nServers
<1>2. yesVotes(Server, Magic) \in {2 * Cardinality(Server), 2 * Cardinality(Server) + 1}
    BY VoteWeight
<1> QED
    BY <1>1, <1>2 DEF IsQuorum

\* Among finitely many versions there is a newest: a smallest set of servers without
\* one would have one without any of its members.
LEMMA SomeNewest ==
    ASSUME NEW f \in [Server -> Version]
    PROVE  \E m \in Server : \A u \in Server : ~Newer(f[u], f[m])
<1> DEFINE Newest(T) == \E m \in T : \A u \in T : ~Newer(f[u], f[m])
           Bad == {T \in SUBSET Server : T # {} /\ ~Newest(T)}
<1>1. ASSUME NEW T \in SUBSET Server PROVE IsFiniteSet(T) /\ Cardinality(T) \in Nat
    BY ServerAssumption, FS_Subset, FS_CardinalityType
<1>2. Bad = {}
  <2> SUFFICES ASSUME Bad # {} PROVE FALSE
      OBVIOUS
  <2>1. PICK T \in Bad : \A S \in Bad : Cardinality(T) <= Cardinality(S)
    <3> DEFINE sizes == {Cardinality(S) : S \in Bad}
    <3>1. sizes \in SUBSET Nat /\ sizes # {}
        BY <1>1
    <3> HIDE DEF Bad
    <3>2. PICK m \in sizes : \A n \in sizes : m <= n
        BY <3>1, OldestTime
    <3> QED
        BY <3>2
  <2>2. PICK x \in T : x \in Server
      OBVIOUS
  <2> DEFINE R == T \ {x}
  <2>3. R \in SUBSET Server /\ Cardinality(R) < Cardinality(T)
    <3>1. IsFiniteSet(T) /\ Cardinality(T) \in Nat /\ Cardinality(R) = Cardinality(T) - 1
        BY <1>1, <2>2, FS_RemoveElement
    <3> QED
        BY <3>1
  <2>4. R \notin Bad
    <3>1. Cardinality(R) \in Nat /\ Cardinality(T) \in Nat
        BY <1>1, <2>3
    <3> HIDE DEF Bad, R
    <3> QED
        BY <2>1, <2>3, <3>1
  <2>5. ~Newer(f[x], f[x])
      BY <2>2, NewerOrder
  <2>6. CASE R = {}
    <3>1. T = {x}
        BY <2>2, <2>6
    <3> QED
        BY <2>5, <3>1
  <2>7. CASE R # {}
    <3>1. PICK m \in R : \A u \in R : ~Newer(f[u], f[m])
        BY <2>3, <2>4, <2>7
    <3>2. m \in Server /\ m \in T /\ f[m] \in Version /\ f[x] \in Version
        BY <2>2, <3>1
    <3>3. CASE Newer(f[x], f[m])
      <4>1. ASSUME NEW u \in T PROVE ~Newer(f[u], f[x])
        <5>1. CASE u = x
            BY <2>5, <5>1
        <5>2. CASE u # x
          <6>1. f[u] \in Version /\ ~Newer(f[u], f[m])
              BY <3>1, <4>1, <5>2
          <6> QED
              BY <3>2, <3>3, <6>1, NewerOrder
        <5> QED
            BY <5>1, <5>2
      <4> QED
          BY <2>2, <4>1
    <3>4. CASE ~Newer(f[x], f[m])
        BY <3>1, <3>2, <3>4
    <3> QED
        BY <3>3, <3>4
  <2> QED
      BY <2>6, <2>7
<1>3. Server \notin Bad /\ Server # {}
    BY <1>2, ServerAssumption
<1> QED
    BY <1>3

LEMMA SourceLabels ==
    ASSUME Types, Control, NEW u \in Server PROVE Source(u).label \in Version
<1>1. thread[u].at = "fetching" => thread[u].best \in Server
    BY DEF Control, LoopsOK, Others
<1> QED
    BY <1>1 DEF Types, Source

\* There always is a database to start from.
LEMMA OutcomesExist == ASSUME Types, Control PROVE Outcomes # {}
<1> DEFINE f == [u \in Server |-> Source(u).label]
<1>1. f \in [Server -> Version]
    BY SourceLabels
<1>2. PICK m \in Server : \A u \in Server : ~Newer(f[u], f[m])
  <2> HIDE DEF f
  <2> QED
      BY <1>1, SomeNewest
<1>3. {u \in Server : ~Newer(Source(u).label, Source(m).label)} = Server
    BY <1>2
<1>4. Electable(m)
    BY <1>3, EveryoneIsQuorum DEF Electable
<1> QED
    BY <1>4, OutcomesAre DEF OutcomesElectable

-----------------------------------------------------------------------------
(* What writing over one copy does to the outcomes, and what a pass has chosen. *)

LEMMA SourceLabelsNext ==
    ASSUME Types', Control', NEW u \in Server PROVE Source(u)'.label \in Version
<1>1. thread'[u].at = "fetching" => thread'[u].best \in Server
    BY DEF Control, LoopsOK, Others
<1> QED
    BY <1>1 DEF Types, Source

LEMMA OutcomesSame ==
    ASSUME \A u \in Server : Source(u)' = Source(u) PROVE Outcomes' = Outcomes
<1>1. \A u \in Server : {w \in Server : ~Newer(Source(w)'.label, Source(u)'.label)} =
                        {w \in Server : ~Newer(Source(w).label, Source(u).label)}
    OBVIOUS
<1>2. \A u \in Server : Electable(u)' <=> Electable(u)
    BY <1>1 DEF Electable
<1> QED
    BY <1>2, OutcomesAre, OutcomesNext DEF OutcomesElectable

\* When the copy of d is replaced by one that is not older, nothing else gets better.
LEMMA ElectableBefore ==
    ASSUME Types, Types', Control, Control', NEW d \in Server,
           \A u \in Server : u # d => Source(u)' = Source(u),
           ~Newer(Source(d).label, Source(d)'.label),
           NEW c \in Server, c # d, Electable(c)'
    PROVE  Electable(c)
<1>1. Source(d).label \in Version /\ Source(d)'.label \in Version /\ Source(c).label \in Version
    BY SourceLabels, SourceLabelsNext
<1>2. {w \in Server : ~Newer(Source(w)'.label, Source(c)'.label)} \subseteq
      {w \in Server : ~Newer(Source(w).label, Source(c).label)}
  <2> SUFFICES ASSUME NEW w \in Server, ~Newer(Source(w)'.label, Source(c)'.label)
               PROVE  ~Newer(Source(w).label, Source(c).label)
      OBVIOUS
  <2>1. CASE w = d
      BY <1>1, <2>1, NewerOrder
  <2>2. CASE w # d
      BY <2>2
  <2> QED
      BY <2>1, <2>2
<1> QED
    BY <1>2, QuorumGrows DEF Electable

\* Such a step adds one outcome at most.
LEMMA OutcomesGrow ==
    ASSUME Types, Types', Control, Control', NEW d \in Server,
           \A u \in Server : u # d => Source(u)' = Source(u),
           ~Newer(Source(d).label, Source(d)'.label)
    PROVE  Outcomes' \subseteq Outcomes \cup {Source(d)'.data}
<1>1. ASSUME NEW c \in Server, Electable(c)', c # d PROVE Source(c)'.data \in Outcomes
    BY <1>1, ElectableBefore, OutcomesAre DEF OutcomesElectable
<1> QED
    BY <1>1, OutcomesNext

\* It adds none when the new copy of d is one that another server has.
LEMMA OutcomesCopied ==
    ASSUME Types, Types', Control, Control', NEW d \in Server, NEW b \in Server, b # d,
           \A u \in Server : u # d => Source(u)' = Source(u), Source(d)' = Source(b),
           ~Newer(Source(d).label, Source(b).label)
    PROVE  Outcomes' \subseteq Outcomes
<1>1. Outcomes' \subseteq Outcomes \cup {Source(d)'.data}
    BY OutcomesGrow
<1>2. ASSUME NEW c \in Server, Electable(c)', c # d PROVE Source(c)'.data \in Outcomes
    BY <1>2, ElectableBefore, OutcomesAre DEF OutcomesElectable
<1>3. ASSUME Electable(d)' PROVE Source(d)'.data \in Outcomes
  <2>1. Electable(b)'
      BY <1>3 DEF Electable
  <2> QED
      BY <1>2, <2>1
<1> QED
    BY <1>2, <1>3, OutcomesNext

LEMMA ElectableSame ==
    ASSUME \A u \in Server : Source(u)' = Source(u), NEW c \in Server, Electable(c)
    PROVE  Electable(c)'
<1>1. {w \in Server : ~Newer(Source(w)'.label, Source(c)'.label)} =
                        {w \in Server : ~Newer(Source(w).label, Source(c).label)}
    OBVIOUS
<1> QED
    BY <1>1 DEF Electable

LEMMA ElectableData ==
    ASSUME NEW c \in Server, Electable(c) PROVE Source(c).data \in Outcomes
BY OutcomesAre DEF OutcomesElectable

LEMMA NewestElectable ==
    ASSUME NEW c \in Server, \A u \in Server : ~Newer(Source(u).label, Source(c).label)
    PROVE  Electable(c)
<1>1. {w \in Server : ~Newer(Source(w).label, Source(c).label)} = Server
    OBVIOUS
<1> QED
    BY <1>1, EveryoneIsQuorum DEF Electable

\* A quorum that s asked in its pass made the choice: what is to be fetched, is fetched or
\* gets the label is electable until then.
Chosen(s) ==
    /\ \A b \in Server : thread[s].at = "fetch" /\ thread[s].best = b =>
           Electable(b) /\ ~Newer(Source(s).label, Source(b).label)
    /\ thread[s].at \in {"fetching", "label"} => Electable(s)

LEMMA ChosenKept ==
    ASSUME NEW s \in Server, Chosen(s), \A u \in Server : Source(u)' = Source(u),
           thread'[s] = thread[s] \/ thread'[s].at \notin {"fetch", "fetching", "label"}
    PROVE  Chosen(s)'
<1>2. CASE thread'[s] = thread[s]
    BY <1>2, ElectableSame DEF Chosen
<1>3. CASE thread'[s].at \notin {"fetch", "fetching", "label"}
    BY <1>3 DEF Chosen
<1> QED
    BY <1>2, <1>3

\* When a server leads, nobody is looking for the best database.
LEMMA ChosenLed ==
    ASSUME Control', NEW l \in Server, Leader(l)', NEW s \in Server PROVE Chosen(s)'
<1>1. thread'[s].at \notin {"fetch", "fetching", "label"}
  <2>1. CASE s = l
      BY <2>1 DEF Control, ActsOK
  <2>2. CASE s # l
      BY <2>2 DEF Control, OneActs, Acts
  <2> QED
      BY <2>1, <2>2
<1> QED
    BY <1>1 DEF Chosen

-----------------------------------------------------------------------------
(* The abstract store: the election, restarts and the search narrow at most. *)

\* So it is in every pass.
AllChosen == \A s \in Server : Chosen(s)

\* The abstract step Decide, or none.
Narrows == Outcomes' \subseteq Outcomes /\ acked' = acked

LEMMA ChosenNext == AllChosen' <=> \A u \in Server : Chosen(u)'
BY DEF AllChosen

\* A step that leaves the copies alone, and finds nothing, narrows at most.
LEMMA StoreSame ==
    ASSUME AllChosen, acked' = acked, \A u \in Server : Source(u)' = Source(u),
           \A u \in Server : thread'[u] = thread[u]
               \/ thread'[u].at \notin {"fetch", "fetching", "label"}
    PROVE  Narrows /\ AllChosen'
<1>1. Outcomes' = Outcomes
    BY OutcomesSame
<1>2. \A u \in Server : Chosen(u)'
    BY ChosenKept DEF AllChosen
<1> QED
    BY <1>1, <1>2, ChosenNext DEF Narrows

LEMMA SourcesKept ==
    ASSUME NEW s \in Server, disk' = disk, \A u \in Server : u # s => thread'[u] = thread[u],
           thread[s].at # "fetching", thread'[s].at # "fetching"
    PROVE  \A u \in Server : Source(u)' = Source(u)
BY DEF Source

LEMMA StoreRestart ==
    ASSUME Types, AllChosen, NEW s \in Server, Restart(s) PROVE Narrows /\ AllChosen'
<1>1. /\ UNCHANGED <<disk, acked>> /\ thread'[s] = Asleep /\ thread[s].at # "fetching"
      /\ \A u \in Server : u # s => thread'[u] = thread[u]
    BY DEF Restart, Types, clientVars
<1>2. \A u \in Server : Source(u)' = Source(u)
    BY <1>1, SourcesKept DEF Asleep
<1> QED
    BY <1>1, <1>2, StoreSame DEF Asleep

LEMMA StoreElection ==
    ASSUME AllChosen, NEW s \in Server, Election(s) \/ Lapse \/ UNCHANGED vars
    PROVE  Narrows /\ AllChosen'
<1>1. UNCHANGED <<disk, thread, acked>>
    BY DEF Election, Elect, Elected, Beacon, Lapse, vars, dbVars, recVars, tidVars, clientVars
<1>2. \A u \in Server : Source(u)' = Source(u)
    BY <1>1 DEF Source
<1> QED
    BY <1>1, <1>2, StoreSame

LEMMA StorePass ==
    ASSUME Types, Control, AllChosen, NEW s \in Server, Wake(s) \/ SendStart(s) \/ SendEnd(s)
    PROVE  Narrows /\ AllChosen'
<1>1. /\ UNCHANGED <<disk, acked>> /\ thread[s].at # "fetching"
      /\ thread'[s].at \notin {"fetch", "fetching", "label"}
      /\ \A u \in Server : u # s => thread'[u] = thread[u]
  <2>1. CASE Wake(s)
    <3>1. \/ ThreadIs(s, "find", Others(s), {}, NoOne)
          \/ ThreadIs(s, "send", {}, {}, NoOne)
        BY <2>1, ControlWake, WakeDoes
    <3> QED
        BY <2>1, <3>1, WakeDoes DEF ThreadIs
  <2>2. CASE SendStart(s) \/ SendEnd(s)
      BY <2>2, SendStartDoes, SendEndDoes DEF ThreadIs
  <2> QED
      BY <2>1, <2>2
<1>2. \A u \in Server : Source(u)' = Source(u)
    BY <1>1, SourcesKept
<1> QED
    BY <1>1, <1>2, StoreSame

LEMMA StoreCheck ==
    ASSUME AllChosen, NEW s \in Server, NEW t \in Server, Check(s, t) PROVE Narrows /\ AllChosen'
<1>1. UNCHANGED <<disk, thread, acked>>
    BY DEF Check, dbVars, clientVars
<1>2. \A u \in Server : Source(u)' = Source(u)
    BY <1>1 DEF Source
<1> QED
    BY <1>1, <1>2, StoreSame

LEMMA StoreFind ==
    ASSUME Types, AllChosen, NEW s \in Server, NEW t \in Server, Find(s, t)
    PROVE  Narrows /\ AllChosen'
<1>1. /\ UNCHANGED <<disk, acked>> /\ thread[s].at = "find" /\ thread'[s].at = "find"
      /\ \A u \in Server : u # s => thread'[u] = thread[u]
  <2>1. \E heard, best : ThreadIs(s, "find", thread[s].todo \ {t}, heard, best)
      BY FindDoes, Zenon
  <2> QED
      BY <2>1, FindDoes DEF ThreadIs
<1>2. \A u \in Server : Source(u)' = Source(u)
    BY <1>1, SourcesKept
<1> QED
    BY <1>1, <1>2, StoreSame

\* A pass that asked a quorum has found the best database of that quorum.
LEMMA StoreFindEnd ==
    ASSUME Types, Control, Labels, Promises, AllChosen, NEW s \in Server, FindEnd(s)
    PROVE  Narrows /\ AllChosen'
<1>1. thread[s].at = "find" /\ UNCHANGED <<disk, acked>>
    BY FindEndDoes
<1>2. /\ thread[s].heard \subseteq Others(s) /\ Acts(s)
      /\ thread[s].best \in thread[s].heard \cup {NoOne}
      /\ disk[s].label = version[s] /\ Others(s) \subseteq Server
    BY <1>1 DEF Control, LoopsOK, Acts, Labels, Others
<1>3. \A u \in Server : Source(u) = disk[u]
    BY <1>1, <1>2 DEF Control, OneActs, Acts, Source
<1>4. \A h \in thread[s].heard : known[s][h] = disk[h].label /\ ~Newer(disk[h].label,
          BestVersion(s))
    BY <1>1 DEF Promises, Found
<1>5. BestVersion(s) \in Version /\ \A h \in Server : disk[h].label \in Version
    BY <1>2, ThreadFacts, Constants DEF BestVersion, Types
<1>6. ASSUME NEW at, NEW best, at # "fetching", ThreadIs(s, at, {}, {}, best)
      PROVE  /\ \A u \in Server : Source(u)' = Source(u)
             /\ \A u \in Server : u # s => thread'[u] = thread[u]
             /\ thread'[s].at = at /\ thread'[s].best = best
  <2>1. /\ \A u \in Server : u # s => thread'[u] = thread[u]
        /\ thread'[s].at = at /\ thread'[s].best = best
      BY <1>6 DEF ThreadIs
  <2> QED
      BY <1>1, <1>6, <2>1, SourcesKept
<1>7. ASSUME \A u \in Server : Source(u)' = Source(u),
             \A u \in Server : u # s => thread'[u] = thread[u],
             Chosen(s)'
      PROVE  Narrows /\ AllChosen'
  <2>1. Outcomes' = Outcomes
      BY <1>7, OutcomesSame
  <2>2. \A u \in Server : Chosen(u)'
      BY <1>7, ChosenKept DEF AllChosen
  <2> QED
      BY <1>1, <2>1, <2>2, ChosenNext DEF Narrows
<1>8. ASSUME NEW c \in Server, IsQuorum(thread[s].heard \cup {s}, Magic),
             \A h \in thread[s].heard \cup {s} : ~Newer(disk[h].label, disk[c].label)
      PROVE  Electable(c)
  <2> DEFINE Q == {w \in Server : ~Newer(Source(w).label, Source(c).label)}
  <2>1. thread[s].heard \cup {s} \subseteq Q
      BY <1>2, <1>3, <1>8
  <2>2. thread[s].heard \cup {s} \in SUBSET Server
      BY <1>2
  <2>3. Q \in SUBSET Server
      OBVIOUS
  <2>4. IsQuorum(Q, Magic)
    <3> HIDE DEF Q
    <3> QED
        BY <1>8, <2>1, <2>2, <2>3, QuorumGrows
  <2> QED
      BY <2>4 DEF Electable
<1>9. CASE ThreadIs(s, "asleep", {}, {}, NoOne)
    BY <1>6, <1>7, <1>9 DEF Chosen
<1>10. CASE /\ IsQuorum(thread[s].heard \cup {s}, Magic) /\ Newer(BestVersion(s), version[s])
            /\ ThreadIs(s, "fetch", {}, {}, thread[s].best)
  <2>1. PICK b \in thread[s].heard : b = thread[s].best /\ b \in Server
      BY <1>2, <1>10, BestIsSomebody
  <2>2. BestVersion(s) = disk[b].label
      BY <1>4, <2>1, ReplicaAssumption DEF BestVersion
  <2>3. \A h \in thread[s].heard \cup {s} : ~Newer(disk[h].label, disk[b].label)
      BY <1>2, <1>4, <1>5, <1>10, <2>2, NewerOrder
  <2>4. Electable(b)
      BY <1>8, <1>10, <2>1, <2>3
  <2>5. \A u \in Server : Source(u)' = Source(u)
      BY <1>6, <1>10
  <2>6. Electable(b)'
      BY <2>1, <2>4, <2>5, ElectableSame
  <2>7. thread'[s].at = "fetch" /\ thread'[s].best = b
      BY <1>6, <1>10, <2>1
  <2>8. ~Newer(Source(s)'.label, Source(b)'.label)
    <3>1. ~Newer(disk[s].label, disk[b].label)
        BY <2>3
    <3>2. Source(s)' = disk[s] /\ Source(b)' = disk[b]
        BY <1>3, <2>1, <2>5
    <3> QED
        BY <3>1, <3>2
  <2>9. Chosen(s)'
      BY <2>6, <2>7, <2>8 DEF Chosen
  <2> QED
      BY <1>6, <1>7, <1>10, <2>9
<1>11. CASE /\ IsQuorum(thread[s].heard \cup {s}, Magic) /\ ~Newer(BestVersion(s), version[s])
            /\ ThreadIs(s, "label", {}, {}, NoOne)
  <2>1. ~Newer(disk[s].label, disk[s].label)
      BY <1>5, NewerOrder
  <2>2. \A h \in thread[s].heard : ~Newer(disk[h].label, disk[s].label)
      BY <1>2, <1>4, <1>5, <1>11, NewerOrder
  <2>3. Electable(s)
      BY <1>8, <1>11, <2>1, <2>2
  <2>4. Electable(s)'
      BY <1>6, <1>11, <2>3, ElectableSame
  <2>5. Chosen(s)'
      BY <1>6, <1>11, <2>4 DEF Chosen
  <2> QED
      BY <1>6, <1>7, <1>11, <2>5
<1> QED
    BY <1>9, <1>10, <1>11, FindEndDoes

-----------------------------------------------------------------------------
(* Fetching, labelling and sending narrow at most.                         *)

\* What narrows under a leader keeps the choices, as there are none.
LEMMA StoreLed ==
    ASSUME Control', NEW l \in Server, Leader(l)', acked' = acked, Outcomes' \subseteq Outcomes
    PROVE  Narrows /\ AllChosen'
BY ChosenLed, ChosenNext DEF Narrows

LEMMA StoreFetchStart ==
    ASSUME Types, Types', Control, Control', AllChosen, NEW s \in Server, FetchStart(s)
    PROVE  Narrows /\ AllChosen'
<1>1. /\ thread[s].at = "fetch" /\ acked' = acked
      /\ disk' = [disk EXCEPT ![s] = [label |-> Zero, data |-> Garbage]]
      /\ ThreadIs(s, "fetching", {}, {}, thread[s].best)
    BY FetchStartDoes
<1>2. Acts(s)
    BY <1>1 DEF Acts
<1>3. PICK b \in Server : b = thread[s].best /\ b # s
    BY <1>1 DEF Control, LoopsOK, Others
<1>4. /\ \A w \in Server : w # s => disk'[w] = disk[w] /\ thread'[w] = thread[w]
      /\ thread'[s].at = "fetching" /\ thread'[s].best = b
    BY <1>1, <1>3 DEF Types, ThreadIs
<1>5. \A u \in Server : u # s => thread[u].at = "asleep"
    BY <1>2 DEF Control, OneActs, Acts
<1>6. \A u \in Server : u # s => Source(u)' = Source(u)
    BY <1>4, <1>5 DEF Source
<1>7. Source(s)' = Source(b)
    BY <1>3, <1>4, <1>5 DEF Source
<1>8. Electable(b) /\ ~Newer(Source(s).label, Source(b).label)
    BY <1>1, <1>3 DEF AllChosen, Chosen
<1>9. Outcomes' \subseteq Outcomes
    BY <1>3, <1>6, <1>7, <1>8, OutcomesCopied
<1>10. Electable(s)'
  <2>1. ~Newer(Source(b).label, Source(b).label)
      BY SourceLabels, NewerOrder
  <2>2. {w \in Server : ~Newer(Source(w).label, Source(b).label)} \subseteq
        {w \in Server : ~Newer(Source(w)'.label, Source(s)'.label)}
      BY <1>6, <1>7, <2>1
  <2> QED
      BY <1>8, <2>2, QuorumGrows DEF Electable
<1>11. \A u \in Server : Chosen(u)'
    BY <1>4, <1>5, <1>10 DEF Chosen
<1> QED
    BY <1>1, <1>9, <1>11, ChosenNext DEF Narrows

LEMMA StoreFetchEnd ==
    ASSUME Types, Control, AllChosen, NEW s \in Server, FetchEnd(s)
    PROVE  Narrows /\ AllChosen'
<1>1. /\ thread[s].at = "fetching" /\ acked' = acked
      /\ disk' = [disk EXCEPT ![s] = disk[thread[s].best]]
      /\ ThreadIs(s, "label", {}, {}, NoOne)
    BY FetchEndDoes
<1>2. Acts(s)
    BY <1>1 DEF Acts
<1>3. \A u \in Server : u # s => thread[u].at = "asleep" /\ disk'[u] = disk[u]
          /\ thread'[u] = thread[u]
    BY <1>1, <1>2 DEF Control, OneActs, Acts, Types, ThreadIs
<1>4. \A u \in Server : Source(u)' = Source(u)
  <2>1. Source(s)' = Source(s)
      BY <1>1 DEF Source, ThreadIs, Types
  <2> QED
      BY <1>3, <2>1 DEF Source
<1>5. Electable(s)'
    BY <1>1, <1>4, ElectableSame DEF AllChosen, Chosen
<1>6. \A u \in Server : Chosen(u)'
  <2>1. thread'[s].at = "label"
      BY <1>1 DEF ThreadIs
  <2> QED
      BY <1>3, <1>5, <2>1 DEF Chosen
<1> QED
    BY <1>1, <1>4, <1>6, OutcomesSame, ChosenNext DEF Narrows

\* The new label makes the copy that was chosen the best of all.
LEMMA StoreLabel ==
    ASSUME Types, Types', Control, Control', Labels, AllChosen, NEW s \in Server, Label(s)
    PROVE  Narrows /\ AllChosen'
<1>1. /\ thread[s].at = "label" /\ acked' = acked /\ clock' = clock
      /\ disk' = [disk EXCEPT ![s] = [label |-> [epoch |-> clock, counter |-> 1],
             data |-> disk[s].data]]
      /\ epochTime' = [epochTime EXCEPT ![s] = clock]
      /\ ThreadIs(s, "send", {}, {}, NoOne)
    BY LabelDoes
<1>2. Unlabelled(s) /\ Acts(s)
    BY <1>1 DEF Unlabelled, Acts, Control, ActsOK
<1>3. /\ \A w \in Server : w # s => disk'[w] = disk[w] /\ thread'[w] = thread[w]
             /\ thread[w].at = "asleep"
      /\ disk'[s] = [label |-> [epoch |-> clock, counter |-> 1], data |-> disk[s].data]
    BY <1>1, <1>2 DEF Types, ThreadIs, Control, OneActs, Acts
<1>4. /\ \A u \in Server : u # s => Source(u)' = Source(u)
      /\ Source(s) = disk[s] /\ Source(s)' = disk'[s]
    BY <1>1, <1>3 DEF Source, ThreadIs
<1>5. ~Newer(Source(s).label, Source(s)'.label)
  <2>1. /\ disk[s].label.epoch < clock /\ disk[s].label.epoch \in Nat /\ clock \in Nat
      BY <1>1, <1>2, Times DEF Labels, LabelOK, Types, Version
  <2> QED
      BY <1>3, <1>4, <2>1 DEF Newer
<1>6. Outcomes' \subseteq Outcomes \cup {Source(s)'.data}
    BY <1>4, <1>5, OutcomesGrow
<1>7. Source(s)'.data \in Outcomes
  <2>1. Electable(s)
      BY <1>1 DEF AllChosen, Chosen
  <2> QED
      BY <1>3, <1>4, <2>1, ElectableData
<1>8. Leader(s)'
    BY <1>1 DEF Leader, Types
<1> QED
    BY <1>1, <1>6, <1>7, <1>8, StoreLed

\* The leader's own copy is the newest, but for those its commit has reached before it.
LEMMA LeaderNewest ==
    ASSUME Types, Labels, Copies, NEW s \in Server, Leader(s), NEW u \in Server
    PROVE  ~Newer(disk[u].label, disk[s].label) \/ (Pending(s) /\ disk[u] = After(s))
<1>1. Latest(s)
    BY DEF Copies
<1>2. disk[u].label.epoch <= clock
  <2>1. CASE disk[u].label = version[u]
      BY <2>1 DEF Labels, LabelOK
  <2>2. CASE thread[u].at = "fetching"
      BY <2>2 DEF Labels, Zero, Types
  <2> QED
      BY <2>1, <2>2 DEF Labels
<1>3. disk[u].label \in Version /\ disk[s].label \in Version /\ clock \in Nat
    BY DEF Types
<1> QED
    BY <1>1, <1>2, <1>3 DEF Latest, Newer, Version

LEMMA StoreSend ==
    ASSUME Types, Types', Control, Control', Labels, Copies, Transactions, AllChosen,
           NEW s \in Server, NEW t \in Server, Send(s, t)
    PROVE  Narrows /\ AllChosen'
<1>1. /\ thread[s].at = "sending" /\ t \in thread[s].todo
      /\ UNCHANGED <<epochTime, clock, acked>>
      /\ \A u \in Server : u # s => thread'[u] = thread[u]
      /\ thread'[s].at = "sending"
      /\ Sent(s, t) \/ UNCHANGED <<disk, version, trans>>
  <2>1. \E heard : ThreadIs(s, "sending", thread[s].todo \ {t}, heard, thread[s].best)
      BY SendDoes, Zenon
  <2>2. /\ thread[s].at = "sending" /\ t \in thread[s].todo
        /\ UNCHANGED <<epochTime, clock, acked>>
      BY SendDoes
  <2>3. Sent(s, t) \/ UNCHANGED <<disk, version, trans>>
      BY SendDoes, Zenon
  <2> QED
      BY <2>1, <2>2, <2>3 DEF ThreadIs
<1>2. Acts(s) /\ Leader(s) /\ t # s /\ disk[s].label = version[s]
    BY <1>1 DEF Acts, Control, ActsOK, LoopsOK, Others, Labels
<1>3. \A u \in Server : thread[u].at # "fetching" /\ thread'[u].at # "fetching"
  <2>1. \A u \in Server : u # s => thread[u].at = "asleep"
      BY <1>2 DEF Control, OneActs, Acts
  <2> QED
      BY <1>1, <2>1
<1>4. \A u \in Server : Source(u) = disk[u] /\ Source(u)' = disk'[u]
    BY <1>3 DEF Source
<1>5. CASE Sent(s, t)
  <2>1. [label |-> version[s], data |-> disk[s].data] = disk[s]
      BY <1>2 DEF Types
  <2>2. disk'[t] = disk[s] /\ \A w \in Server : w # t => disk'[w] = disk[w]
      BY <1>5, <2>1 DEF Sent, Types
  <2>3. ~Newer(disk[t].label, disk[s].label)
    <3>1. ~Pending(s)
        BY <1>1 DEF Transactions, TransOK, Active, Pending
    <3> QED
        BY <1>2, <3>1, LeaderNewest
  <2>4. Outcomes' \subseteq Outcomes
      BY <1>2, <1>4, <2>2, <2>3, OutcomesCopied
  <2> QED
      BY <1>1, <1>2, <2>4, StoreLed DEF Leader
<1>6. CASE UNCHANGED disk
  <2>1. \A u \in Server : Source(u)' = Source(u)
      BY <1>4, <1>6
  <2> QED
      BY <1>1, <1>2, <2>1, OutcomesSame, StoreLed DEF Leader
<1> QED
    BY <1>1, <1>5, <1>6

-----------------------------------------------------------------------------
(* Commits offer, and the end of a transaction acknowledges.               *)

\* The abstract step Offer.
Offers ==
    /\ acked' = acked
    /\ \E db \in Outcomes, x \in Tid :
          /\ db \cup Parts(x) \in Outcomes'
          /\ Outcomes' \subseteq Outcomes \cup {db \cup Parts(x)}

\* The abstract step Acknowledge.
Acknowledges ==
    /\ Outcomes' = Outcomes
    /\ \E x \in Tid :
          acked' = acked \cup {x} /\ \A db \in Outcomes : Parts(x) \subseteq db

\* A commit writes the leader's next database over the copy of d.  It offers it if it is
\* the first to write it, and narrows if some server has it.
LEMMA StoreCommit ==
    ASSUME Types, Types', Control, Control', Labels, Copies,
           NEW s \in Server, NEW d \in Server, Leader(s), Leader(s)', Pending(s),
           disk'[d] = After(s), \A w \in Server : w # d => disk'[w] = disk[w],
           thread' = thread, acked' = acked
    PROVE  (Narrows \/ Offers) /\ AllChosen'
<1>1. \A u \in Server : thread[u].at # "fetching"
    BY DEF Control, OneActs, ActsOK, Acts
<1>2. \A u \in Server : Source(u) = disk[u] /\ Source(u)' = disk'[u]
    BY <1>1 DEF Source
<1>3. AllChosen'
    BY ChosenLed, ChosenNext
<1>4. \A u \in Server : ~Newer(disk[u].label, disk[s].label) \/ disk[u] = After(s)
    BY LeaderNewest
<1>5. /\ disk[s].label \in Version /\ After(s).label \in Version
      /\ Newer(After(s).label, disk[s].label) /\ ~Newer(After(s).label, After(s).label)
  <2>1. disk[s].label \in Version
      BY DEF Types
  <2> QED
      BY <2>1 DEF After, Raised, Version, Newer
<1>6. \A u \in Server : ~Newer(disk[u].label, After(s).label)
  <2>1. \A u \in Server : disk[u].label \in Version
      BY DEF Types
  <2> QED
      BY <1>4, <1>5, <2>1, NewerOrder
<1>7. \A u \in Server : u # d => Source(u)' = Source(u)
    BY <1>2
<1>8. Source(d)' = After(s) /\ ~Newer(Source(d).label, Source(d)'.label)
    BY <1>2, <1>6
<1>9. CASE disk[d] = After(s)
  <2>1. \A u \in Server : Source(u)' = Source(u)
      BY <1>2, <1>7, <1>9
  <2> QED
      BY <1>3, <2>1, OutcomesSame DEF Narrows
<1>10. ASSUME NEW b \in Server, b # d, disk[b] = After(s) PROVE Narrows
  <2>1. Source(d)' = Source(b) /\ ~Newer(Source(d).label, Source(b).label)
      BY <1>2, <1>8, <1>10
  <2> QED
      BY <1>7, <1>10, <2>1, OutcomesCopied DEF Narrows
<1>11. CASE \A u \in Server : disk[u] # After(s)
  <2>1. Electable(s)
    <3>1. \A u \in Server : ~Newer(Source(u).label, Source(s).label)
        BY <1>2, <1>4, <1>11
    <3> QED
        BY <3>1, NewestElectable
  <2>2. disk[s].data \in Outcomes
    <3>1. Source(s).data \in Outcomes
        BY <2>1, ElectableData
    <3> QED
        BY <1>2, <3>1
  <2>3. PICK x \in Tid : After(s).data = disk[s].data \cup Parts(x)
      BY TypeFacts DEF After, Raised
  <2>4. Outcomes' \subseteq Outcomes \cup {After(s).data}
    <3>1. Outcomes' \subseteq Outcomes \cup {Source(d)'.data}
        BY <1>7, <1>8, OutcomesGrow
    <3> QED
        BY <1>8, <3>1
  <2>5. After(s).data \in Outcomes'
    <3>1. \A u \in Server : ~Newer(Source(u)'.label, Source(d)'.label)
      <4>1. ASSUME NEW u \in Server PROVE ~Newer(Source(u)'.label, After(s).label)
        <5>1. disk'[u] = disk[u] \/ disk'[u] = After(s)
            OBVIOUS
        <5>2. ~Newer(disk'[u].label, After(s).label)
            BY <1>5, <1>6, <5>1
        <5> QED
            BY <1>2, <5>2
      <4> QED
          BY <1>8, <4>1
    <3>2. {w \in Server : ~Newer(Source(w)'.label, Source(d)'.label)} = Server
        BY <3>1
    <3>3. Electable(d)'
        BY <3>2, EveryoneIsQuorum DEF Electable
    <3>4. Source(d)'.data \in Outcomes'
        BY <3>3, OutcomesNext
    <3> QED
        BY <1>8, <3>4
  <2>6. disk[s].data \cup Parts(x) \in Outcomes'
            /\ Outcomes' \subseteq Outcomes \cup {disk[s].data \cup Parts(x)}
      BY <2>3, <2>4, <2>5
  <2>7. Offers
      BY <2>2, <2>6 DEF Offers
  <2> QED
      BY <1>3, <2>7
<1> QED
    BY <1>3, <1>9, <1>10, <1>11

LEMMA StoreLocalCommit ==
    ASSUME Types, Types', Control, Control', Transactions, Labels, Copies, AllChosen,
           NEW s \in Server, LocalCommit(s)
    PROVE  (Narrows \/ Offers) /\ AllChosen'
<1>1. /\ trans[s].phase = "commit" /\ s \in trans[s].todo
      /\ UNCHANGED <<thread, epochTime, clock, acked>>
    BY LocalCommitDoes
<1>2. Leader(s) /\ Leader(s)' /\ disk[s].label = version[s]
  <2>1. Leader(s)
      BY <1>1 DEF Transactions, CommitOK
  <2>2. thread[s].at # "fetching"
      BY <2>1 DEF Control, ActsOK
  <2> QED
      BY <1>1, <2>1, <2>2 DEF Labels, Leader
<1>3. CASE UNCHANGED disk
  <2>1. \A u \in Server : Source(u)' = Source(u)
      BY <1>1, <1>3 DEF Source
  <2> QED
      BY <1>1, <2>1, StoreSame
<1>4. CASE /\ ~trans[s].done
           /\ disk' = [disk EXCEPT ![s] =
                  [label |-> [epoch |-> version[s].epoch, counter |-> version[s].counter + 1],
                   data |-> disk[s].data \cup Parts(trans[s].tid)]]
  <2>1. disk'[s] = After(s) /\ \A w \in Server : w # s => disk'[w] = disk[w]
      BY <1>2, <1>4 DEF Types, After, Raised
  <2>2. Pending(s)
      BY <1>1, <1>4 DEF Pending
  <2> QED
      BY <1>1, <1>2, <2>1, <2>2, StoreCommit
<1> QED
    BY <1>3, <1>4, LocalCommitDoes

LEMMA StoreContact ==
    ASSUME Types, Types', Control, Control', Transactions, Tids, Labels, Calls, Copies, AllChosen,
           NEW s \in Server, NEW t \in Server, Contact(s, t)
    PROVE  (Narrows \/ Offers) /\ AllChosen'
<1>1. Answered(s, t) /\ UNCHANGED <<thread, epochTime, clock, acked>>
    BY ContactAnswered, ContactLast, ContactDoes
<1>2. CASE UNCHANGED disk
  <2>1. \A u \in Server : Source(u)' = Source(u)
      BY <1>1, <1>2 DEF Source
  <2> QED
      BY <1>1, <2>1, StoreSame
<1>3. CASE Installed(s, t)
  <2>1. /\ Leader(s) /\ t \in currentDB[s] /\ t # s /\ t \in trans[s].todo
        /\ current[t].data = Parts(trans[s].tid)
        /\ s \in trans[s].ok \/ ~trans[s].done
        /\ trans[s].phase = "commit" /\ VersionFree(t)
      BY <1>1, <1>3, InstalledData DEF Answered, Installed
  <2>2. Latest(s) /\ disk[t].label = version[t] /\ Leader(s)'
      BY <1>1, <2>1, FreeLabel DEF Copies, Leader
  <2>3. /\ disk'[t] = Raised(disk[t], trans[s].tid) /\ \A w \in Server : w # t => disk'[w] = disk[w]
    <3>1. version' = [version EXCEPT ![t] = [epoch |-> version[t].epoch,
                                            counter |-> version[t].counter + 1]]
        BY <1>3 DEF Installed
    <3>2. disk' = [disk EXCEPT ![t] = [label |-> version'[t],
              data |-> disk[t].data \cup current[t].data]]
        BY <1>3 DEF Installed
    <3>3. version'[t] = [epoch |-> version[t].epoch, counter |-> version[t].counter + 1]
        BY <3>1 DEF Types
    <3>4. disk'[t] = [label |-> version'[t], data |-> disk[t].data \cup current[t].data]
          /\ \A w \in Server : w # t => disk'[w] = disk[w]
        BY <3>2 DEF Types
    <3> QED
        BY <2>1, <2>2, <3>3, <3>4 DEF Raised
  <2>4. CASE s \in trans[s].ok
    <3>1. disk'[t] = disk[s]
        BY <2>1, <2>2, <2>3, <2>4 DEF Latest
    <3>2. \A u \in Server : thread[u].at # "fetching"
        BY <2>1 DEF Control, OneActs, ActsOK, Acts
    <3>3. \A u \in Server : Source(u) = disk[u] /\ Source(u)' = disk'[u]
        BY <1>1, <3>2 DEF Source
    <3>4. ~Newer(disk[t].label, disk[s].label)
      <4>1. ~Pending(s)
          BY <2>4, <2>1 DEF Transactions, CommitOK, Pending
      <4> QED
          BY <2>1, <4>1, LeaderNewest
    <3>5. Outcomes' \subseteq Outcomes
        BY <2>1, <2>3, <3>1, <3>3, <3>4, OutcomesCopied
    <3> QED
        BY <1>1, <2>2, <3>5, StoreLed
  <2>5. CASE s \notin trans[s].ok
    <3>1. disk'[t] = After(s)
        BY <2>1, <2>2, <2>3, <2>5 DEF Latest, After
    <3>2. Pending(s)
        BY <2>1, <2>5 DEF Transactions, CommitOK, Pending
    <3> QED
        BY <1>1, <2>1, <2>2, <2>3, <3>1, <3>2, StoreCommit
  <2> QED
      BY <2>4, <2>5
<1> QED
    BY <1>2, <1>3, ContactAnswered

\* What a quorum has is in every database that a quorum would elect.
LEMMA StoreReleaseEnd ==
    ASSUME Types, Promises, AllChosen, NEW s \in Server, ReleaseEnd(s)
    PROVE  (Narrows \/ Acknowledges) /\ AllChosen'
<1>1. /\ trans[s].phase = "release"
      /\ acked' = IF IsQuorum(trans[s].ok, Magic) THEN acked \cup {trans[s].tid} ELSE acked
      /\ UNCHANGED <<disk, thread>>
    BY ReleaseEndDoes
<1>2. \A u \in Server : Source(u)' = Source(u)
    BY <1>1 DEF Source
<1>3. Outcomes' = Outcomes
    BY <1>2, OutcomesSame
<1>4. AllChosen'
  <2>1. \A u \in Server : Chosen(u)'
      BY <1>1, <1>2, ChosenKept DEF AllChosen
  <2> QED
      BY <2>1, ChosenNext
<1>5. CASE ~IsQuorum(trans[s].ok, Magic)
    BY <1>1, <1>3, <1>4, <1>5 DEF Narrows
<1>6. CASE IsQuorum(trans[s].ok, Magic)
  <2>1. PICK x \in Tid : x = trans[s].tid
      BY TypeFacts
  <2>2. x \in Promised
      BY <1>1, <1>6, <2>1 DEF Promised
  <2>3. /\ IsQuorum({u \in Server : Has(u, x)}, Magic)
        /\ \A u, v \in Server :
              Has(v, x) /\ ~Newer(Source(v).label, Source(u).label) => Has(u, x)
      BY <2>2 DEF Promises, Kept
  <2>4. ASSUME NEW c \in Server, Electable(c) PROVE Parts(x) \subseteq Source(c).data
    <3> DEFINE P == {u \in Server : Has(u, x)}
               Q == {w \in Server : ~Newer(Source(w).label, Source(c).label)}
    <3>1. IsQuorum(P, Magic) /\ IsQuorum(Q, Magic)
        BY <2>3, <2>4 DEF Electable
    <3>2. P \in SUBSET Server /\ Q \in SUBSET Server
        OBVIOUS
    <3>3. \E v \in Server : v \in P /\ v \in Q
      <4> HIDE DEF P, Q
      <4> QED
          BY <3>1, <3>2, QuorumsMeet
    <3>4. PICK v \in Server : Has(v, x) /\ ~Newer(Source(v).label, Source(c).label)
        BY <3>3
    <3>5. Has(c, x)
        BY <2>3, <3>4
    <3> QED
        BY <3>5 DEF Has
  <2>5. \A db \in Outcomes : Parts(x) \subseteq db
      BY <2>4, OutcomesAre DEF OutcomesElectable
  <2>6. Acknowledges
      BY <1>1, <1>3, <1>6, <2>1, <2>5 DEF Acknowledges
  <2> QED
      BY <1>4, <2>6
<1> QED
    BY <1>5, <1>6

-----------------------------------------------------------------------------
(* Every step is one of the abstract store.                                *)

\* One of the steps of the abstract store, or none.
StoreStepOK == Narrows \/ Offers \/ Acknowledges

LEMMA StoreTransact ==
    ASSUME Types, Types', Control, Control', Transactions, Tids, Labels, Calls, Copies, Promises,
           AllChosen, NEW s \in Server, Transact(s)
    PROVE  StoreStepOK /\ AllChosen'
<1>1. ASSUME UNCHANGED <<disk, thread, acked>> PROVE Narrows /\ AllChosen'
  <2>1. \A u \in Server : Source(u)' = Source(u)
      BY <1>1 DEF Source
  <2> QED
      BY <1>1, <2>1, StoreSame
<1>2. CASE \/ Begin(s) \/ Update(s) \/ UpdateEnd(s) \/ UndoEnd(s)
           \/ AbortTrans(s) \/ AbortEnd(s) \/ EndTrans(s) \/ CommitEnd(s)
  <2>1. UNCHANGED <<disk, thread, acked>>
      BY <1>2 DEF Begin, Update, UpdateEnd, UndoEnd, AbortTrans, AbortEnd, EndTrans, CommitEnd,
                  dbVars, recVars, clientVars
  <2> QED
      BY <1>1, <2>1 DEF StoreStepOK
<1>3. CASE LocalCommit(s)
    BY <1>3, StoreLocalCommit DEF StoreStepOK
<1>4. CASE ReleaseEnd(s)
    BY <1>4, StoreReleaseEnd DEF StoreStepOK
<1>5. ASSUME NEW t \in Server, Contact(s, t) PROVE StoreStepOK /\ AllChosen'
    BY <1>5, StoreContact DEF StoreStepOK
<1> QED
    BY <1>2, <1>3, <1>4, <1>5 DEF Transact

LEMMA StoreRecovery ==
    ASSUME Types, Types', Control, Control', Transactions, Labels, Copies, Promises, AllChosen,
           NEW s \in Server, Recovery(s)
    PROVE  StoreStepOK /\ AllChosen'
<1>1. Narrows /\ AllChosen'
    BY StorePass, StoreFindEnd, StoreFetchStart, StoreFetchEnd, StoreLabel,
       StoreCheck, StoreFind, StoreSend DEF Recovery
<1> QED
    BY <1>1 DEF StoreStepOK

\* The inductive invariant of the refinement.
StoreInv == ReplicaInv /\ AllChosen

\* It holds initially.
LEMMA StoreInvInit == Init => StoreInv
<1> SUFFICES ASSUME Init PROVE StoreInv
    OBVIOUS
<1>1. \A s \in Server : Chosen(s)
    BY InitIdle DEF Chosen, Asleep
<1> QED
    BY <1>1, InitInv DEF StoreInv, AllChosen

\* It is kept, and every step is one of the abstract store or none.
LEMMA StoreInvStep == StoreInv /\ [Next]_vars => StoreInv' /\ StoreStepOK
<1> SUFFICES ASSUME StoreInv, [Next]_vars PROVE StoreInv' /\ StoreStepOK
    OBVIOUS
<1>1. /\ Types /\ Control /\ Transactions /\ Tids /\ Labels /\ Calls /\ Copies /\ Promises
      /\ AllChosen /\ ReplicaInv'
    BY StepInv DEF StoreInv, ReplicaInv
<1>2. Types' /\ Control'
    BY <1>1 DEF ReplicaInv
<1>3. ASSUME NEW s \in Server, Election(s) \/ Lapse \/ UNCHANGED vars
      PROVE  StoreStepOK /\ AllChosen'
    BY <1>1, <1>3, StoreElection DEF StoreStepOK
<1>4. CASE Lapse \/ UNCHANGED vars
  <2>1. PICK s \in Server : TRUE
      BY ServerAssumption
  <2> QED
      BY <1>1, <1>3, <1>4, <2>1 DEF StoreInv
<1>5. ASSUME NEW s \in Server, Election(s) \/ Recovery(s) \/ Transact(s) \/ Restart(s)
      PROVE  StoreStepOK /\ AllChosen'
  <2>1. CASE Restart(s)
      BY <1>1, <2>1, StoreRestart DEF StoreStepOK
  <2>2. CASE Recovery(s)
      BY <1>1, <1>2, <2>2, StoreRecovery
  <2>3. CASE Transact(s)
      BY <1>1, <1>2, <2>3, StoreTransact
  <2>4. CASE Election(s)
      BY <1>3, <2>4
  <2> QED
      BY <1>5, <2>1, <2>2, <2>3, <2>4
<1> QED
    BY <1>1, <1>4, <1>5 DEF Next, StoreInv

\* What Decide must leave.
OutcomesOK == Outcomes # {}

LEMMA StoreOutcomes == StoreInv => OutcomesOK
BY OutcomesExist DEF StoreInv, ReplicaInv, OutcomesOK

\* Ubik keeps the promise of UbikStore, for any servers, mandates, lost calls and
\* restarts: a commit adds one possible database, no election, fetch, label or lost call
\* brings one back that was ruled out, and ubik_EndTrans returns 0 only when every
\* database that a later sync site may start from has the transaction.
THEOREM ReplicasImplementStore == Spec => ImplementsStore
<1>1. Init => Store!StoreInit
  <2> SUFFICES ASSUME Init PROVE Store!StoreInit
      OBVIOUS
  <2>1. \A u \in Server : Source(u).data = {}
      BY InitIdle DEF Source, Asleep
  <2>2. Outcomes \subseteq {{}}
      BY <2>1, OutcomesAre DEF OutcomesElectable
  <2>3. Outcomes # {}
      BY InitInv, OutcomesExist DEF ReplicaInv
  <2>4. acked = {}
      BY DEF Init
  <2> QED
      BY <2>2, <2>3, <2>4 DEF Store!StoreInit
<1>2. StoreInv /\ OutcomesOK' /\ StoreStepOK => [Store!StoreNext]_(Store!storeVars)
  <2> SUFFICES ASSUME StoreInv, OutcomesOK', StoreStepOK PROVE Store!StoreNext
      OBVIOUS
  <2>1. CASE Narrows
    <3>1. Store!Decide
        BY <2>1 DEF Narrows, OutcomesOK, Store!Decide
    <3> QED
        BY <3>1 DEF Store!StoreNext
  <2>2. CASE Offers
    <3>1. Store!Offer
        BY <2>2 DEF Offers, Store!Offer
    <3> QED
        BY <3>1 DEF Store!StoreNext
  <2>3. CASE Acknowledges
    <3>1. Store!Acknowledge
        BY <2>3 DEF Acknowledges, Store!Acknowledge
    <3> QED
        BY <3>1 DEF Store!StoreNext
  <2> QED
      BY <2>1, <2>2, <2>3 DEF StoreStepOK
<1> QED
    BY <1>1, <1>2, StoreInvInit, StoreInvStep, StoreOutcomes, PTL
       DEF Spec, ImplementsStore, Store!StoreSpec

=============================================================================
