-------------------------- MODULE UbikReplicaProofs --------------------------
(***************************************************************************)
(* The first half of the inductive invariant of UbikReplica: types, who    *)
(* acts for a mandate, the records of transactions, tids, labels, and what *)
(* the remote servers have of a transaction.  The second half, about the   *)
(* data of the copies, and the theorems are in UbikReplicaSafety.          *)
(*                                                                         *)
(* The argument: only one server ever acts for the mandate that was given  *)
(* last (Control), so of the transactions that are not over only one can   *)
(* still change databases (Transactions); tids and labels say of which     *)
(* mandate they are (Tids, Labels), so that a remote transaction that      *)
(* carries the tid of the leader's has exactly the updates sent so far     *)
(* (Calls). From this follows what labels say of data (Copies), and that   *)
(* every quorum has a copy of what was promised to clients, and a newer    *)
(* one only with it (Promises).                                            *)
(***************************************************************************)
EXTENDS UbikReplica, UbikServersProofs

-----------------------------------------------------------------------------
(* The inductive invariant.                                                *)

\* What the fields of the variables range over.
Phases == {"none", "open", "update", "undo", "abort", "commit", "release"}
Stations == {"asleep", "find", "fetch", "fetching", "label", "send", "sending"}
Flags == {"FOUNDDB", "HAVEDB", "LABELDB", "SENTDB"}
Items == Garbage \cup (Tid \X (1 .. Updates))

TransRecord == [tid : Tid, phase : Phases, sent : 0 .. Updates,
                todo : SUBSET Server, ok : SUBSET Server, done : BOOLEAN]
CurrentRecord == [tid : Tid, data : SUBSET Items, done : BOOLEAN]
ThreadRecord == [at : Stations, todo : SUBSET Server, heard : SUBSET Server,
                 best : Server \cup {NoOne}]

\* The variables as functions.
Types ==
    /\ site \in Server \cup {NoOne}
    /\ disk \in [Server -> [label : Version, data : SUBSET Items]]
    /\ version \in [Server -> Version]
    /\ current \in [Server -> CurrentRecord]
    /\ trans \in [Server -> TransRecord]
    /\ state \in [Server -> SUBSET Flags]
    /\ thread \in [Server -> ThreadRecord]
    /\ known \in [Server -> [Server -> Version]]
    /\ currentDB \in [Server -> SUBSET Server]
    /\ epochTime \in [Server -> 0 .. MaxEpoch] /\ tidCounter \in [Server -> 0 .. MaxTid]
    /\ clock \in Nat \ {0}
    /\ acked \subseteq Tid /\ aborted \subseteq Tid
    /\ \A s \in Server : trans[s].phase = "update" => trans[s].sent < Updates

\* s gave its database the epoch of the mandate that was given last.
Leader(s) == epochTime[s] = clock

\* s has that mandate, or had it.
Acts(s) == site = s \/ thread[s].at # "asleep" \/ Leader(s)

\* s has the mandate and has not given its database a label of it yet.
Unlabelled(s) == Acts(s) /\ ~Leader(s)

\* s has a write transaction.
Active(s) == trans[s].phase # "none"

\* Nobody else acts for the mandate that was given last: Elect waits until all that was
\* begun for earlier ones is settled.
OneActs == \A s, t \in Server : Acts(s) /\ Acts(t) => s = t

\* The clock is the epoch of the last mandate.  A pass labels before it sends, and a
\* server that has not labelled has no current servers.
ActsOK(s) ==
    /\ epochTime[s] <= clock
    /\ Acts(s) => clock \in 2 .. MaxEpoch
    /\ thread[s].at \in {"find", "fetch", "fetching", "label"} => ~Leader(s)
    /\ thread[s].at \in {"send", "sending"} \/ "LABELDB" \in state[s] => Leader(s)
    /\ Unlabelled(s) => currentDB[s] = {}

\* urecovery_state of the sync site says how far its pass has come.
StateOK(s) ==
    /\ site = s /\ Leader(s) => {"FOUNDDB", "HAVEDB"} \subseteq state[s]
    /\ site = s /\ ~Leader(s) /\ thread[s].at \in {"asleep", "find"} =>
           state[s] \cap {"FOUNDDB", "HAVEDB"} = {}
    /\ site = s /\ thread[s].at \in {"fetch", "fetching", "label"} => "FOUNDDB" \in state[s]
    /\ site = s /\ thread[s].at = "label" => "HAVEDB" \in state[s]

\* The loops over ubik_servers are about the others, and a pass that fetches has a best
\* server to fetch from.
LoopsOK(s) ==
    /\ thread[s].todo \subseteq Others(s) /\ thread[s].heard \subseteq Others(s)
    /\ thread[s].best \in Others(s) \cup {NoOne}
    /\ thread[s].at \in {"fetch", "fetching"} => thread[s].best # NoOne
    /\ thread[s].at = "find" =>
           /\ thread[s].todo \cap thread[s].heard = {}
           /\ thread[s].best \in thread[s].heard \cup {NoOne}

\* Who acts, and how far it is.
Control == OneActs /\ \A s \in Server : ActsOK(s) /\ StateOK(s) /\ LoopsOK(s)

\* A transaction of an earlier mandate can do nothing any more, and while one is going
\* on no database is being sent.
TransOK(s) ==
    /\ currentDB[s] \subseteq Others(s)
    /\ ~Active(s) => trans[s] = NoTrans
    /\ Active(s) => 0 < trans[s].tid.epoch /\ trans[s].tid.epoch <= epochTime[s]
    /\ Active(s) => thread[s].at # "sending"
    /\ Active(s) /\ Leader(s) /\ trans[s].tid.epoch # clock => trans[s].done /\ currentDB[s] = {}
    /\ trans[s].phase = "update" /\ trans[s].done /\ Leader(s) => currentDB[s] = {}

\* The servers of a commit that were called, and those that were not yet.
CommitOK(s) ==
    trans[s].phase = "commit" =>
        /\ Leader(s)
        /\ trans[s].todo \ {s} \subseteq currentDB[s]
        /\ trans[s].ok \ {s} \subseteq currentDB[s] \ trans[s].todo
        /\ currentDB[s] \ trans[s].todo \subseteq trans[s].ok
        /\ s \in trans[s].ok => trans[s].done /\ s \notin trans[s].todo
        /\ s \notin trans[s].todo => trans[s].done

\* The transactions of one mandate are those of one server.
Distinct ==
    \A s, t \in Server :
        Active(s) /\ Active(t) /\ trans[s].tid.epoch = trans[t].tid.epoch => s = t

\* The records of the write transactions.
Transactions == Distinct /\ \A s \in Server : TransOK(s) /\ CommitOK(s)

\* A tid is of a mandate that was given, by a server that labelled its database, and is
\* not ahead of the counter of that server.
TidOK(x) ==
    /\ x.epoch <= clock
    /\ \A s \in Server :
          /\ Unlabelled(s) => x.epoch < clock
          /\ Leader(s) /\ x.epoch = clock => x.counter <= tidCounter[s]

\* A label is of a mandate that was given, and labelled a database.
LabelOK(v) ==
    /\ v.epoch <= clock
    /\ \A s \in Server : Unlabelled(s) => v.epoch < clock

\* All tids there are.  No remote transaction is ahead of the one it would be part of.
Tids ==
    /\ \A s \in Server :
          /\ TidOK(trans[s].tid) /\ TidOK(current[s].tid)
          /\ \A d \in disk[s].data : TidOK(d[1])
    /\ \A x \in aborted : TidOK(x)
    /\ \A s, t \in Server :
          Active(s) /\ current[t].tid.epoch = trans[s].tid.epoch =>
              current[t].tid.counter <= trans[s].tid.counter
    /\ \A s \in Server : Active(s) => trans[s].tid \notin aborted

\* All labels there are.  The version in memory is the label on disk, except while a
\* fetched database is written, when the label is 0.0 and the data is garbage.
Labels ==
    \A s \in Server :
        /\ LabelOK(version[s])
        /\ version[s].epoch > 0
        /\ disk[s].label = version[s] \/ thread[s].at = "fetching"
        /\ thread[s].at = "fetching" => disk[s] = [label |-> Zero, data |-> Garbage]
        /\ \A t \in Server : LabelOK(known[s][t])

\* ubik_currentTrans of t is the transaction of s, and can still be committed.
Carries(s, t) == current[t].tid = trans[s].tid /\ ~current[t].done

\* The first n updates of transaction x.
First(x, n) == {x} \X (1 .. n)

\* What t has then: the updates that were sent, or all of them in a commit.  The undo and
\* commit calls go to all that carry the transaction.
Carried(s, t) ==
    /\ trans[s].phase = "open" =>
           ~trans[s].done /\ current[t].data = First(trans[s].tid, trans[s].sent)
    /\ trans[s].phase = "update" =>
           current[t].data = First(trans[s].tid,
               IF t \in trans[s].todo THEN trans[s].sent ELSE trans[s].sent + 1)
    /\ trans[s].phase = "undo" => t \in trans[s].todo
    /\ trans[s].phase = "commit" /\ t \in trans[s].todo =>
           current[t].data = Parts(trans[s].tid) /\ (s \in trans[s].ok \/ ~trans[s].done)

\* s has called udisk_commit for its own copy, which is not written yet.
Pending(s) == trans[s].phase = "commit" /\ s \in trans[s].todo /\ ~trans[s].done

\* What remote servers have of the transaction of the leader.  A commit counts the leader
\* first, or still has it to count.
Calls ==
    /\ \A s \in Server : Leader(s) /\ Active(s) =>
           \A t \in currentDB[s] : Carries(s, t) => Carried(s, t)
    /\ \A s \in Server :
          /\ trans[s].phase = "commit" /\ trans[s].ok # {} => s \in trans[s].ok \/ Pending(s)
          /\ trans[s].phase = "release" /\ trans[s].ok # {} => s \in trans[s].ok

\* A database once transaction x is committed: its data, and the next label.
Raised(db, x) ==
    [label |-> [epoch |-> db.label.epoch, counter |-> db.label.counter + 1],
     data |-> db.data \cup Parts(x)]

\* The database of s once its transaction is committed.
After(s) == Raised(disk[s], trans[s].tid)

\* The leader has the newest copy of its epoch, and so have its current servers, but for
\* a commit that is under way.
Latest(s) ==
    /\ disk[s].label.epoch = clock
    /\ \A u \in Server : disk[u].label.epoch = clock =>
           \/ disk[u].label.counter <= disk[s].label.counter
           \/ Pending(s) /\ disk[u] = After(s)
    /\ \A t \in currentDB[s] :
          /\ trans[s].phase # "commit" => disk[t] = disk[s]
          /\ trans[s].phase = "commit" /\ t \in trans[s].todo =>
                 IF s \in trans[s].ok THEN disk[s] = Raised(disk[t], trans[s].tid)
                                      ELSE disk[t] = disk[s]
          /\ trans[s].phase = "commit" /\ t \notin trans[s].todo =>
                 disk[t] = IF Pending(s) THEN After(s) ELSE disk[s]
    /\ \A t \in Server : known[s][t].epoch = clock =>
          /\ known[s][t].counter <= version[s].counter
          /\ known[s][t] = version[s] => disk[t] = disk[s] \/ Pending(s)

\* A copy has data of a transaction that is not over only once its commit has begun, and
\* then it is the copy that the commit makes.
Written(s) ==
    /\ Active(s) => \A u \in Server : disk[u].data \cap Parts(trans[s].tid) # {} =>
           \/ trans[s].phase = "release"
           \/ Pending(s) /\ disk[u] = After(s)
           \/ trans[s].phase = "commit" /\ s \in trans[s].ok /\ disk[u] = disk[s]
    /\ trans[s].phase \in {"commit", "release"} /\ s \in trans[s].ok =>
           Parts(trans[s].tid) \subseteq disk[s].data

\* Equal versions have equal data, nothing that was given up is anywhere, and the leader
\* is ahead of the others.
Copies ==
    /\ SameVersionSameData /\ AbortedNowhere
    /\ \A s \in Server : Written(s) /\ (Leader(s) => Latest(s))

\* The transactions whose client was told, or is about to be told, that they are committed.
Promised == acked \cup {trans[s].tid : s \in {u \in Server :
                            trans[u].phase = "release" /\ IsQuorum(trans[u].ok, Magic)}}

\* The copy of u has transaction x; a copy that is being replaced counts as the new one.
Has(u, x) == Parts(x) \subseteq Source(u).data

\* The copy of u has all that was promised.
Full(u) == \A x \in Promised : Has(u, x)

\* A quorum has what was promised, and a copy that lacks it is older than all that have it.
Kept ==
    \A x \in Promised :
        /\ IsQuorum({u \in Server : Has(u, x)}, Magic)
        /\ \A u, v \in Server :
              Has(v, x) /\ ~Newer(Source(v).label, Source(u).label) => Has(u, x)

\* The leader has it all, and the search for the newest copy ends at one that does.
Found(s) ==
    /\ Leader(s) \/ thread[s].at \in {"label", "fetching"} => Full(s)
    /\ thread[s].at = "fetch" => Full(thread[s].best)
    /\ thread[s].at = "find" => \A h \in thread[s].heard :
           known[s][h] = disk[h].label /\ ~Newer(known[s][h], BestVersion(s))

\* What was promised is kept, and found.
Promises == Kept /\ \A s \in Server : Found(s)

\* The initial values are of their types.
LEMMA Constants ==
    /\ Zero \in Version /\ Zero \in Tid /\ Garbage \subseteq Items
    /\ NoTrans \in TransRecord /\ NoCurrent \in CurrentRecord /\ Asleep \in ThreadRecord
<1>1. Zero \in Version /\ Zero \in Tid
    BY ReplicaAssumption DEF Zero, Version, Tid
<1>2. 0 \in 0 .. Updates
    BY ReplicaAssumption
<1> QED
    BY <1>1, <1>2, ZenonT(30)
       DEF Items, NoTrans, NoCurrent, Asleep, Phases, Stations, TransRecord, CurrentRecord,
           ThreadRecord

\* The types hold initially.
LEMMA InitTypes == Init => Types
BY Constants, ReplicaAssumption DEF Init, Types, Version, NoTrans

-----------------------------------------------------------------------------
(* What the helpers of the actions are, and what they keep of the types.   *)

LEMMA TypeFacts ==
    ASSUME Types, NEW s \in Server
    PROVE  /\ trans[s] \in TransRecord /\ current[s] \in CurrentRecord /\ thread[s] \in ThreadRecord
           /\ trans[s].tid \in Tid /\ trans[s].phase \in Phases /\ trans[s].sent \in 0 .. Updates
           /\ trans[s].todo \in SUBSET Server /\ trans[s].ok \in SUBSET Server
           /\ trans[s].done \in BOOLEAN
           /\ current[s].tid \in Tid /\ current[s].data \in SUBSET Items
           /\ current[s].done \in BOOLEAN
           /\ disk[s].label \in Version /\ disk[s].data \in SUBSET Items
           /\ version[s] \in Version
           /\ currentDB[s] \in SUBSET Server
<1>1. trans[s] \in TransRecord /\ current[s] \in CurrentRecord /\ thread[s] \in ThreadRecord
    BY DEF Types
<1>2. /\ trans[s].tid \in Tid /\ trans[s].phase \in Phases /\ trans[s].sent \in 0 .. Updates
      /\ trans[s].todo \in SUBSET Server /\ trans[s].ok \in SUBSET Server
      /\ trans[s].done \in BOOLEAN
    BY <1>1, Zenon DEF TransRecord
<1>3. /\ current[s].tid \in Tid /\ current[s].data \in SUBSET Items
      /\ current[s].done \in BOOLEAN
    BY <1>1, Zenon DEF CurrentRecord
<1>4. /\ disk[s].label \in Version /\ disk[s].data \in SUBSET Items
      /\ version[s] \in Version
      /\ currentDB[s] \in SUBSET Server
    BY DEF Types
<1> QED
    BY <1>1, <1>2, <1>3, <1>4

LEMMA CheckTidType ==
    ASSUME Types, NEW t \in Server, NEW atid
    PROVE  CheckTid(t, atid) \in CurrentRecord
BY Constants DEF Types, CheckTid

LEMMA GotoType ==
    ASSUME Types, NEW s \in Server, NEW at \in Stations
    PROVE  Goto(s, at) \in [Server -> ThreadRecord]
BY DEF Types, Goto, ThreadRecord

LEMMA LoopType ==
    ASSUME Types, NEW s \in Server, NEW at \in Stations
    PROVE  Loop(s, at) \in [Server -> ThreadRecord]
BY DEF Types, Loop, ThreadRecord, Others

LEMMA AbortAllType ==
    ASSUME Types, NEW s \in Server, AbortAll(s)
    PROVE  /\ current' \in [Server -> CurrentRecord] /\ trans' \in [Server -> TransRecord]
           /\ \A u \in Server : trans'[u].phase = trans[u].phase /\ trans'[u].sent = trans[u].sent
<1>1. [current[s] EXCEPT !.done = TRUE] \in CurrentRecord
  <2>1. current[s] \in CurrentRecord
      BY TypeFacts
  <2> QED
      BY <2>1, Zenon DEF CurrentRecord
<1>2. [trans[s] EXCEPT !.done = TRUE] \in TransRecord
  <2>1. trans[s] \in TransRecord
      BY TypeFacts
  <2> QED
      BY <2>1, Zenon DEF TransRecord
<1>3. current' \in [Server -> CurrentRecord] /\ trans' \in [Server -> TransRecord]
    BY <1>1, <1>2 DEF AbortAll, Types
<1> QED
    BY <1>3 DEF AbortAll, Types

LEMMA PartsType == ASSUME NEW x \in Tid PROVE Parts(x) \in SUBSET Items
BY DEF Parts, Items

LEMMA BulkUpdateType ==
    ASSUME Types, NEW t \in Server, NEW x \in Tid, NEW i \in 1 .. Updates, NEW r,
           r = BulkUpdate(t, x, i)
    PROVE  /\ r.current \in CurrentRecord /\ r.good \in BOOLEAN
           /\ r.counter = version[t].counter /\ r.data = disk[t].data
<1> DEFINE cur == CheckTid(t, x)
<1>1. cur \in CurrentRecord /\ NoCurrent \in CurrentRecord
    BY CheckTidType, Constants
<1>2. 1 \in 1 .. Updates /\ <<x, 1>> \in Items /\ <<x, i>> \in Items
    BY ReplicaAssumption DEF Items
<1>3. [tid |-> x, data |-> {<<x, 1>>}, done |-> FALSE] \in CurrentRecord
    BY <1>2, Zenon DEF CurrentRecord
<1>4. cur.data \in SUBSET Items
    BY <1>1, Zenon DEF CurrentRecord
<1>5. [cur EXCEPT !.data = @ \cup {<<x, i>>}] \in CurrentRecord
  <2>1. cur.data \cup {<<x, i>>} \in SUBSET Items
      BY <1>2, <1>4
  <2> QED
      BY <1>1, <2>1, Zenon DEF CurrentRecord
<1> HIDE DEF cur
<1> QED
    BY <1>1, <1>3, <1>5 DEF BulkUpdate, Unchanged, Remote, cur

LEMMA CommitType ==
    ASSUME Types, NEW t \in Server, NEW x \in Tid, NEW r, r = Commit(t, x)
    PROVE  /\ r.current \in CurrentRecord /\ r.good \in BOOLEAN
           /\ r.counter \in Nat /\ r.data \in SUBSET Items
<1> DEFINE cur == CheckTid(t, x)
<1>1. cur \in CurrentRecord
    BY CheckTidType
<1>2. cur.data \in SUBSET Items
    BY <1>1, Zenon DEF CurrentRecord
<1>3. [cur EXCEPT !.done = TRUE] \in CurrentRecord
    BY <1>1, Zenon DEF CurrentRecord
<1>4. version[t].counter \in Nat /\ disk[t].data \in SUBSET Items
    BY DEF Types, Version
<1> HIDE DEF cur
<1> QED
    BY <1>1, <1>2, <1>3, <1>4 DEF Commit, Unchanged, Remote, cur

LEMMA EndType ==
    ASSUME Types, NEW t \in Server, NEW x \in Tid, NEW r,
           r = ReleaseLocks(t, x) \/ r = Abort(t, x)
    PROVE  /\ r.current = NoCurrent /\ r.good \in BOOLEAN
           /\ r.counter = version[t].counter /\ r.data = disk[t].data
<1>1. \E good \in BOOLEAN :
          r = [current |-> NoCurrent, counter |-> version[t].counter, data |-> disk[t].data,
               good |-> good]
    BY Zenon DEF ReleaseLocks, Abort, Unchanged, Remote
<1> QED
    BY <1>1

LEMMA ExecuteType ==
    ASSUME Types, NEW s \in Server, NEW t \in Server, NEW r, r = Execute(t, trans[s])
    PROVE  /\ r.current \in CurrentRecord /\ r.good \in BOOLEAN
           /\ r.counter \in Nat /\ r.data \in SUBSET Items
<1>1. trans[s].tid \in Tid /\ trans[s].sent \in 0 .. Updates /\ Updates \in Nat
    BY TypeFacts, ReplicaAssumption
<1>2. version[t].counter \in Nat /\ disk[t].data \in SUBSET Items /\ NoCurrent \in CurrentRecord
    BY Constants DEF Types, Version
<1>3. CASE trans[s].phase = "update"
  <2>1. trans[s].sent + 1 \in 1 .. Updates
      BY <1>1, <1>3 DEF Types
  <2>2. r = BulkUpdate(t, trans[s].tid, trans[s].sent + 1)
      BY <1>3 DEF Execute
  <2> HIDE <1>3
  <2> QED
      BY <1>1, <1>2, <2>1, <2>2, BulkUpdateType
<1>4. CASE trans[s].phase = "commit"
    BY <1>1, <1>4, CommitType DEF Execute
<1>5. CASE trans[s].phase \notin {"update", "commit"}
    BY <1>1, <1>2, <1>5, EndType DEF Execute
<1> QED
    BY <1>3, <1>4, <1>5

-----------------------------------------------------------------------------
(* What the EXCEPTs on trans make of the record of one transaction.        *)

\* A step changes no transaction but that of s, and that one in what it names.
TransIs(s, phase, sent, todo, ok, done) ==
    /\ trans' \in [Server -> TransRecord]
    /\ \A u \in Server : u # s => trans'[u] = trans[u]
    /\ trans'[s].tid = trans[s].tid /\ trans'[s].phase = phase /\ trans'[s].sent = sent
    /\ trans'[s].todo = todo /\ trans'[s].ok = ok /\ trans'[s].done = done

LEMMA DoneIs ==
    ASSUME Types, NEW s \in Server,
           trans' = [trans EXCEPT ![s].done = TRUE]
    PROVE  TransIs(s, trans[s].phase, trans[s].sent, trans[s].todo, trans[s].ok, TRUE)
<1>1. trans \in [Server -> TransRecord] /\ trans[s] \in TransRecord
    BY TypeFacts DEF Types
<1>2. [trans[s] EXCEPT !.done = TRUE] \in TransRecord
    BY <1>1, Zenon DEF TransRecord, Phases
<1>3. trans' \in [Server -> TransRecord]
    BY <1>1, <1>2
<1>4. /\ \A u \in Server : u # s => trans'[u] = trans[u]
      /\ trans'[s].tid = trans[s].tid /\ trans'[s].phase = trans[s].phase
             /\ trans'[s].sent = trans[s].sent
      /\ trans'[s].todo = trans[s].todo /\ trans'[s].ok = trans[s].ok
      /\ trans'[s].done = TRUE
    BY <1>1 DEF TransRecord
<1> QED
    BY <1>3, <1>4 DEF TransIs

LEMMA ContactedIs ==
    ASSUME Types, NEW s \in Server, NEW t \in Server, NEW ok \in SUBSET Server,
           trans' = [trans EXCEPT ![s].todo = @ \ {t}, ![s].ok = ok]
    PROVE  TransIs(s, trans[s].phase, trans[s].sent, trans[s].todo \ {t}, ok, trans[s].done)
<1>1. /\ trans \in [Server -> TransRecord] /\ trans[s] \in TransRecord
      /\ trans[s].todo \ {t} \in SUBSET Server
    BY TypeFacts DEF Types
<1>2. [trans[s] EXCEPT !.todo = @ \ {t}, !.ok = ok] \in TransRecord
    BY <1>1, Zenon DEF TransRecord, Phases
<1>3. trans' \in [Server -> TransRecord]
    BY <1>1, <1>2
<1>4. /\ \A u \in Server : u # s => trans'[u] = trans[u]
      /\ trans'[s].tid = trans[s].tid /\ trans'[s].phase = trans[s].phase
             /\ trans'[s].sent = trans[s].sent
      /\ trans'[s].todo = trans[s].todo \ {t} /\ trans'[s].ok = ok
      /\ trans'[s].done = trans[s].done
    BY <1>1 DEF TransRecord
<1> QED
    BY <1>3, <1>4 DEF TransIs

LEMMA CallsIs ==
    ASSUME Types, NEW s \in Server, NEW p \in Phases,
           trans' = [trans EXCEPT ![s].phase = p, ![s].todo = currentDB[s], ![s].ok = {}]
    PROVE  TransIs(s, p, trans[s].sent, currentDB[s], {}, trans[s].done)
<1>1. /\ trans \in [Server -> TransRecord] /\ trans[s] \in TransRecord
      /\ currentDB[s] \in SUBSET Server
    BY TypeFacts DEF Types
<1>2. [trans[s] EXCEPT !.phase = p, !.todo = currentDB[s], !.ok = {}] \in TransRecord
    BY <1>1, Zenon DEF TransRecord, Phases
<1>3. trans' \in [Server -> TransRecord]
    BY <1>1, <1>2
<1>4. /\ \A u \in Server : u # s => trans'[u] = trans[u]
      /\ trans'[s].tid = trans[s].tid /\ trans'[s].phase = p /\ trans'[s].sent = trans[s].sent
      /\ trans'[s].todo = currentDB[s] /\ trans'[s].ok = {}
      /\ trans'[s].done = trans[s].done
    BY <1>1 DEF TransRecord
<1> QED
    BY <1>3, <1>4 DEF TransIs

LEMMA UpdatedIs ==
    ASSUME Types, NEW s \in Server, trans[s].phase = "update",
           trans' = [trans EXCEPT ![s].phase = "open", ![s].sent = @ + 1, ![s].ok = {}]
    PROVE  TransIs(s, "open", trans[s].sent + 1, trans[s].todo, {}, trans[s].done)
<1>1. /\ trans \in [Server -> TransRecord] /\ trans[s] \in TransRecord
      /\ trans[s].sent + 1 \in 0 .. Updates
    BY TypeFacts, ReplicaAssumption DEF Types
<1>2. [trans[s] EXCEPT !.phase = "open", !.sent = @ + 1, !.ok = {}] \in TransRecord
    BY <1>1, Zenon DEF TransRecord, Phases
<1>3. trans' \in [Server -> TransRecord]
    BY <1>1, <1>2
<1>4. /\ \A u \in Server : u # s => trans'[u] = trans[u]
      /\ trans'[s].tid = trans[s].tid /\ trans'[s].phase = "open"
             /\ trans'[s].sent = trans[s].sent + 1
      /\ trans'[s].todo = trans[s].todo /\ trans'[s].ok = {}
      /\ trans'[s].done = trans[s].done
    BY <1>1 DEF TransRecord
<1> QED
    BY <1>3, <1>4 DEF TransIs

LEMMA UndoIs ==
    ASSUME Types, NEW s \in Server, trans[s].phase = "update",
           trans' = [trans EXCEPT ![s].phase = "undo", ![s].sent = @ + 1, ![s].done = TRUE,
               ![s].todo = currentDB[s], ![s].ok = {}]
    PROVE  TransIs(s, "undo", trans[s].sent + 1, currentDB[s], {}, TRUE)
<1>1. /\ trans \in [Server -> TransRecord] /\ trans[s] \in TransRecord
      /\ trans[s].sent + 1 \in 0 .. Updates
      /\ currentDB[s] \in SUBSET Server
    BY TypeFacts, ReplicaAssumption DEF Types
<1>2. [trans[s] EXCEPT !.phase = "undo", !.sent = @ + 1, !.done = TRUE, !.todo = currentDB[s],
          !.ok = {}] \in TransRecord
    BY <1>1, Zenon DEF TransRecord, Phases
<1>3. trans' \in [Server -> TransRecord]
    BY <1>1, <1>2
<1>4. /\ \A u \in Server : u # s => trans'[u] = trans[u]
      /\ trans'[s].tid = trans[s].tid /\ trans'[s].phase = "undo"
             /\ trans'[s].sent = trans[s].sent + 1
      /\ trans'[s].todo = currentDB[s] /\ trans'[s].ok = {}
      /\ trans'[s].done = TRUE
    BY <1>1 DEF TransRecord
<1> QED
    BY <1>3, <1>4 DEF TransIs

LEMMA OpenIs ==
    ASSUME Types, NEW s \in Server,
           trans' = [trans EXCEPT ![s].phase = "open"]
    PROVE  TransIs(s, "open", trans[s].sent, trans[s].todo, trans[s].ok, trans[s].done)
<1>1. trans \in [Server -> TransRecord] /\ trans[s] \in TransRecord
    BY TypeFacts DEF Types
<1>2. [trans[s] EXCEPT !.phase = "open"] \in TransRecord
    BY <1>1, Zenon DEF TransRecord, Phases
<1>3. trans' \in [Server -> TransRecord]
    BY <1>1, <1>2
<1>4. /\ \A u \in Server : u # s => trans'[u] = trans[u]
      /\ trans'[s].tid = trans[s].tid /\ trans'[s].phase = "open" /\ trans'[s].sent = trans[s].sent
      /\ trans'[s].todo = trans[s].todo /\ trans'[s].ok = trans[s].ok
      /\ trans'[s].done = trans[s].done
    BY <1>1 DEF TransRecord
<1> QED
    BY <1>3, <1>4 DEF TransIs

LEMMA CommitIs ==
    ASSUME Types, NEW s \in Server,
           trans' = [trans EXCEPT ![s].phase = "commit", ![s].ok = {},
               ![s].todo = currentDB[s] \cup {s}]
    PROVE  TransIs(s, "commit", trans[s].sent, currentDB[s] \cup {s}, {}, trans[s].done)
<1>1. /\ trans \in [Server -> TransRecord] /\ trans[s] \in TransRecord
      /\ currentDB[s] \cup {s} \in SUBSET Server
    BY TypeFacts DEF Types
<1>2. [trans[s] EXCEPT !.phase = "commit", !.ok = {},
          !.todo = currentDB[s] \cup {s}] \in TransRecord
    BY <1>1, Zenon DEF TransRecord, Phases
<1>3. trans' \in [Server -> TransRecord]
    BY <1>1, <1>2
<1>4. /\ \A u \in Server : u # s => trans'[u] = trans[u]
      /\ trans'[s].tid = trans[s].tid /\ trans'[s].phase = "commit"
             /\ trans'[s].sent = trans[s].sent
      /\ trans'[s].todo = currentDB[s] \cup {s} /\ trans'[s].ok = {}
      /\ trans'[s].done = trans[s].done
    BY <1>1 DEF TransRecord
<1> QED
    BY <1>3, <1>4 DEF TransIs

LEMMA SkippedIs ==
    ASSUME Types, NEW s \in Server,
           trans' = [trans EXCEPT ![s].todo = @ \ {s}]
    PROVE  TransIs(s, trans[s].phase, trans[s].sent, trans[s].todo \ {s}, trans[s].ok,
           trans[s].done)
<1>1. /\ trans \in [Server -> TransRecord] /\ trans[s] \in TransRecord
      /\ trans[s].todo \ {s} \in SUBSET Server
    BY TypeFacts DEF Types
<1>2. [trans[s] EXCEPT !.todo = @ \ {s}] \in TransRecord
    BY <1>1, Zenon DEF TransRecord, Phases
<1>3. trans' \in [Server -> TransRecord]
    BY <1>1, <1>2
<1>4. /\ \A u \in Server : u # s => trans'[u] = trans[u]
      /\ trans'[s].tid = trans[s].tid /\ trans'[s].phase = trans[s].phase
             /\ trans'[s].sent = trans[s].sent
      /\ trans'[s].todo = trans[s].todo \ {s} /\ trans'[s].ok = trans[s].ok
      /\ trans'[s].done = trans[s].done
    BY <1>1 DEF TransRecord
<1> QED
    BY <1>3, <1>4 DEF TransIs

LEMMA CommittedIs ==
    ASSUME Types, NEW s \in Server,
           trans' = [trans EXCEPT ![s].todo = @ \ {s}, ![s].ok = @ \cup {s}, ![s].done = TRUE]
    PROVE  TransIs(s, trans[s].phase, trans[s].sent, trans[s].todo \ {s}, trans[s].ok \cup {s},
           TRUE)
<1>1. /\ trans \in [Server -> TransRecord] /\ trans[s] \in TransRecord
      /\ trans[s].todo \ {s} \in SUBSET Server
      /\ trans[s].ok \cup {s} \in SUBSET Server
    BY TypeFacts DEF Types
<1>2. [trans[s] EXCEPT !.todo = @ \ {s}, !.ok = @ \cup {s}, !.done = TRUE] \in TransRecord
    BY <1>1, Zenon DEF TransRecord, Phases
<1>3. trans' \in [Server -> TransRecord]
    BY <1>1, <1>2
<1>4. /\ \A u \in Server : u # s => trans'[u] = trans[u]
      /\ trans'[s].tid = trans[s].tid /\ trans'[s].phase = trans[s].phase
             /\ trans'[s].sent = trans[s].sent
      /\ trans'[s].todo = trans[s].todo \ {s} /\ trans'[s].ok = trans[s].ok \cup {s}
      /\ trans'[s].done = TRUE
    BY <1>1 DEF TransRecord
<1> QED
    BY <1>3, <1>4 DEF TransIs

LEMMA ReleaseIs ==
    ASSUME Types, NEW s \in Server,
           trans' = [trans EXCEPT ![s].phase = "release", ![s].todo = currentDB[s]]
    PROVE  TransIs(s, "release", trans[s].sent, currentDB[s], trans[s].ok, trans[s].done)
<1>1. /\ trans \in [Server -> TransRecord] /\ trans[s] \in TransRecord
      /\ currentDB[s] \in SUBSET Server
    BY TypeFacts DEF Types
<1>2. [trans[s] EXCEPT !.phase = "release", !.todo = currentDB[s]] \in TransRecord
    BY <1>1, Zenon DEF TransRecord, Phases
<1>3. trans' \in [Server -> TransRecord]
    BY <1>1, <1>2
<1>4. /\ \A u \in Server : u # s => trans'[u] = trans[u]
      /\ trans'[s].tid = trans[s].tid /\ trans'[s].phase = "release"
             /\ trans'[s].sent = trans[s].sent
      /\ trans'[s].todo = currentDB[s] /\ trans'[s].ok = trans[s].ok
      /\ trans'[s].done = trans[s].done
    BY <1>1 DEF TransRecord
<1> QED
    BY <1>3, <1>4 DEF TransIs

-----------------------------------------------------------------------------
(* What the steps of recovery do, each said once: the pass and its loops.  *)

ThreadIs(s, at, todo, heard, best) ==
    /\ thread' \in [Server -> ThreadRecord]
    /\ \A u \in Server : u # s => thread'[u] = thread[u]
    /\ thread'[s].at = at /\ thread'[s].todo = todo /\ thread'[s].heard = heard
    /\ thread'[s].best = best

LEMMA ThreadFacts ==
    ASSUME Types, NEW s \in Server
    PROVE  /\ thread \in [Server -> ThreadRecord] /\ thread[s] \in ThreadRecord
           /\ thread[s].at \in Stations /\ thread[s].todo \in SUBSET Server
           /\ thread[s].heard \in SUBSET Server /\ thread[s].best \in Server \cup {NoOne}
           /\ state \in [Server -> SUBSET Flags] /\ known \in [Server -> [Server -> Version]]
           /\ \A t \in Server : known[s][t] \in Version
<1>1. thread \in [Server -> ThreadRecord] /\ thread[s] \in ThreadRecord
    BY DEF Types
<1>2. /\ thread[s].at \in Stations /\ thread[s].todo \in SUBSET Server
      /\ thread[s].heard \in SUBSET Server /\ thread[s].best \in Server \cup {NoOne}
    BY <1>1 DEF ThreadRecord
<1>3. known \in [Server -> [Server -> Version]]
    BY DEF Types
<1> QED
    BY <1>1, <1>2, <1>3 DEF Types

LEMMA GotoIs ==
    ASSUME Types, NEW s \in Server, NEW at \in Stations, thread' = Goto(s, at)
    PROVE  ThreadIs(s, at, {}, {}, IF at \in {"fetch", "fetching"} THEN thread[s].best ELSE NoOne)
BY GotoType, ThreadFacts DEF Goto, ThreadIs

LEMMA LoopIs ==
    ASSUME Types, NEW s \in Server, NEW at \in Stations, thread' = Loop(s, at)
    PROVE  ThreadIs(s, at, Others(s), {}, NoOne)
BY LoopType, ThreadFacts DEF Loop, ThreadIs

LEMMA FetchIs ==
    ASSUME Types, NEW s \in Server,
           thread' = [thread EXCEPT ![s].at = "fetch"]
    PROVE  ThreadIs(s, "fetch", thread[s].todo, thread[s].heard, thread[s].best)
<1>1. thread \in [Server -> ThreadRecord] /\ thread[s] \in ThreadRecord
    BY DEF Types
<1>2. [thread[s] EXCEPT !.at = "fetch"] \in ThreadRecord
    BY <1>1 DEF ThreadRecord, Stations
<1>3. thread' \in [Server -> ThreadRecord]
    BY <1>1, <1>2
<1>4. /\ \A u \in Server : u # s => thread'[u] = thread[u]
      /\ thread'[s].at = "fetch" /\ thread'[s].todo = thread[s].todo
      /\ thread'[s].heard = thread[s].heard /\ thread'[s].best = thread[s].best
    BY <1>1 DEF ThreadRecord
<1> QED
    BY <1>3, <1>4 DEF ThreadIs

LEMMA SkipIs ==
    ASSUME Types, NEW s \in Server, NEW t \in Server,
           thread' = [thread EXCEPT ![s].todo = @ \ {t}]
    PROVE  ThreadIs(s, thread[s].at, thread[s].todo \ {t}, thread[s].heard, thread[s].best)
<1>1. thread \in [Server -> ThreadRecord] /\ thread[s] \in ThreadRecord
    BY DEF Types
<1>2. [thread[s] EXCEPT !.todo = @ \ {t}] \in ThreadRecord
    BY <1>1 DEF ThreadRecord, Stations
<1>3. thread' \in [Server -> ThreadRecord]
    BY <1>1, <1>2
<1>4. /\ \A u \in Server : u # s => thread'[u] = thread[u]
      /\ thread'[s].at = thread[s].at /\ thread'[s].todo = thread[s].todo \ {t}
      /\ thread'[s].heard = thread[s].heard /\ thread'[s].best = thread[s].best
    BY <1>1 DEF ThreadRecord
<1> QED
    BY <1>3, <1>4 DEF ThreadIs

LEMMA HeardIs ==
    ASSUME Types, NEW s \in Server, NEW t \in Server,
           thread' = [thread EXCEPT ![s].todo = @ \ {t}, ![s].heard = @ \cup {t}]
    PROVE  ThreadIs(s, thread[s].at, thread[s].todo \ {t}, thread[s].heard \cup {t}, thread[s].best)
<1>1. thread \in [Server -> ThreadRecord] /\ thread[s] \in ThreadRecord
    BY DEF Types
<1>2. [thread[s] EXCEPT !.todo = @ \ {t}, !.heard = @ \cup {t}] \in ThreadRecord
    BY <1>1 DEF ThreadRecord, Stations
<1>3. thread' \in [Server -> ThreadRecord]
    BY <1>1, <1>2
<1>4. /\ \A u \in Server : u # s => thread'[u] = thread[u]
      /\ thread'[s].at = thread[s].at /\ thread'[s].todo = thread[s].todo \ {t}
      /\ thread'[s].heard = thread[s].heard \cup {t} /\ thread'[s].best = thread[s].best
    BY <1>1 DEF ThreadRecord
<1> QED
    BY <1>3, <1>4 DEF ThreadIs

LEMMA BestIs ==
    ASSUME Types, NEW s \in Server, NEW t \in Server, NEW best \in Server \cup {NoOne},
           thread' = [thread EXCEPT ![s].todo = @ \ {t}, ![s].heard = @ \cup {t}, ![s].best = best]
    PROVE  ThreadIs(s, thread[s].at, thread[s].todo \ {t}, thread[s].heard \cup {t}, best)
<1>1. thread \in [Server -> ThreadRecord] /\ thread[s] \in ThreadRecord
    BY DEF Types
<1>2. [thread[s] EXCEPT !.todo = @ \ {t}, !.heard = @ \cup {t}, !.best = best] \in ThreadRecord
    BY <1>1 DEF ThreadRecord, Stations
<1>3. thread' \in [Server -> ThreadRecord]
    BY <1>1, <1>2
<1>4. /\ \A u \in Server : u # s => thread'[u] = thread[u]
      /\ thread'[s].at = thread[s].at /\ thread'[s].todo = thread[s].todo \ {t}
      /\ thread'[s].heard = thread[s].heard \cup {t} /\ thread'[s].best = best
    BY <1>1 DEF ThreadRecord
<1> QED
    BY <1>3, <1>4 DEF ThreadIs

LEMMA NextInTodo == ASSUME NEW todo \in SUBSET Server, todo # {} PROVE NextIn(todo) \in todo
<1>1. todo \in SUBSET Nat
    BY ServerAssumption
<1>2. \E t \in todo : \A u \in todo : t <= u
    BY <1>1, OldestTime
<1> QED
    BY <1>2 DEF NextIn

LEMMA WakeDoes ==
    ASSUME Types, NEW s \in Server, Wake(s)
    PROVE  /\ thread[s].at = "asleep" /\ site = s
           /\ \/ "FOUNDDB" \notin state[s] /\ ThreadIs(s, "find", Others(s), {}, NoOne)
              \/ /\ "FOUNDDB" \in state[s] /\ "HAVEDB" \notin state[s]
                 /\ ThreadIs(s, "fetch", thread[s].todo, thread[s].heard, thread[s].best)
              \/ /\ "FOUNDDB" \in state[s] /\ "HAVEDB" \in state[s]
                 /\ ThreadIs(s, "send", {}, {}, NoOne)
           /\ UNCHANGED <<site, disk, version, current, trans, state, known, currentDB,
                          epochTime, tidCounter, clock, acked, aborted>>
<1>1. "find" \in Stations /\ "send" \in Stations
    BY DEF Stations
<1>2. /\ thread[s].at = "asleep" /\ site = s
      /\ \/ "FOUNDDB" \notin state[s] /\ thread' = Loop(s, "find")
         \/ /\ "FOUNDDB" \in state[s] /\ "HAVEDB" \notin state[s]
            /\ thread' = [thread EXCEPT ![s].at = "fetch"]
         \/ "FOUNDDB" \in state[s] /\ "HAVEDB" \in state[s] /\ thread' = Goto(s, "send")
    BY Zenon DEF Wake
<1>3. UNCHANGED <<site, disk, version, current, trans, state, known, currentDB,
                          epochTime, tidCounter, clock, acked, aborted>>
    BY DEF Wake, dbVars, tidVars, clientVars
<1>4. CASE thread' = Loop(s, "find") /\ "FOUNDDB" \notin state[s]
    BY <1>1, <1>2, <1>3, <1>4, LoopIs
<1>5. CASE "FOUNDDB" \in state[s] /\ "HAVEDB" \notin state[s]
           /\ thread' = [thread EXCEPT ![s].at = "fetch"]
    BY <1>2, <1>3, <1>5, FetchIs
<1>6. CASE "FOUNDDB" \in state[s] /\ "HAVEDB" \in state[s] /\ thread' = Goto(s, "send")
    BY <1>1, <1>2, <1>3, <1>6, GotoIs
<1> QED
    BY <1>2, <1>4, <1>5, <1>6

LEMMA FindDoes ==
    ASSUME Types, NEW s \in Server, NEW t \in Server, Find(s, t)
    PROVE  /\ thread[s].at = "find" /\ t \in thread[s].todo
           /\ known' \in [Server -> [Server -> Version]]
           /\ \A u, w \in Server : u # s \/ w # t => known'[u][w] = known[u][w]
           /\ \/ /\ site # t /\ VersionFree(t) /\ known'[s][t] = disk[t].label
                 /\ ThreadIs(s, "find", thread[s].todo \ {t}, thread[s].heard \cup {t},
                       IF Newer(disk[t].label, BestVersion(s)) THEN t ELSE thread[s].best)
              \/ /\ \E u \in Others(s) : known'[s][t] = known[s][u]
                 /\ ThreadIs(s, "find", thread[s].todo \ {t}, thread[s].heard, thread[s].best)
           /\ UNCHANGED <<site, disk, version, current, trans, state, currentDB,
                          epochTime, tidCounter, clock, acked, aborted>>
<1>1. /\ thread[s].at = "find" /\ thread[s].todo # {} /\ t = NextIn(thread[s].todo)
      /\ \/ /\ site # t /\ VersionFree(t)
            /\ known' = [known EXCEPT ![s][t] = disk[t].label]
            /\ thread' = [thread EXCEPT ![s].todo = @ \ {t}, ![s].heard = @ \cup {t},
                ![s].best = IF Newer(disk[t].label, BestVersion(s)) THEN t ELSE @]
         \/ /\ \E v \in {known[s][u] : u \in Others(s)} :
                known' = [known EXCEPT ![s][t] = v]
            /\ thread' = [thread EXCEPT ![s].todo = @ \ {t}]
      /\ UNCHANGED <<site, dbVars, current, trans, state, currentDB, tidVars, clientVars>>
    BY Zenon DEF Find
<1>2. t \in thread[s].todo
    BY <1>1, ThreadFacts, NextInTodo
<1>3. UNCHANGED <<site, disk, version, current, trans, state, currentDB,
                          epochTime, tidCounter, clock, acked, aborted>>
    BY <1>1 DEF dbVars, tidVars, clientVars
<1>4. disk[t].label \in Version /\ \A u \in Others(s) : u \in Server /\ known[s][u] \in Version
    BY TypeFacts, ThreadFacts DEF Others
<1>5. CASE /\ site # t /\ VersionFree(t)
           /\ known' = [known EXCEPT ![s][t] = disk[t].label]
           /\ thread' = [thread EXCEPT ![s].todo = @ \ {t}, ![s].heard = @ \cup {t},
                ![s].best = IF Newer(disk[t].label, BestVersion(s)) THEN t ELSE @]
  <2> DEFINE best == IF Newer(disk[t].label, BestVersion(s)) THEN t ELSE thread[s].best
  <2>1. best \in Server \cup {NoOne}
      BY ThreadFacts
  <2>2. thread' = [thread EXCEPT ![s].todo = @ \ {t}, ![s].heard = @ \cup {t}, ![s].best = best]
      BY <1>5
  <2> HIDE DEF best
  <2>3. ThreadIs(s, thread[s].at, thread[s].todo \ {t}, thread[s].heard \cup {t}, best)
      BY <2>1, <2>2, BestIs
  <2>4. /\ known' \in [Server -> [Server -> Version]] /\ known'[s][t] = disk[t].label
        /\ \A u, w \in Server : u # s \/ w # t => known'[u][w] = known[u][w]
      BY <1>4, <1>5, ThreadFacts
  <2> QED
      BY <1>1, <1>2, <1>3, <1>5, <2>3, <2>4 DEF best
<1>6. CASE /\ \E v \in {known[s][u] : u \in Others(s)} : known' = [known EXCEPT ![s][t] = v]
           /\ thread' = [thread EXCEPT ![s].todo = @ \ {t}]
  <2>1. ThreadIs(s, "find", thread[s].todo \ {t}, thread[s].heard, thread[s].best)
      BY <1>1, <1>6, SkipIs
  <2>2. PICK u \in Others(s) : known' = [known EXCEPT ![s][t] = known[s][u]]
      BY <1>6
  <2>3. /\ known' \in [Server -> [Server -> Version]] /\ known'[s][t] = known[s][u]
        /\ \A x, w \in Server : x # s \/ w # t => known'[x][w] = known[x][w]
      BY <1>4, <2>2, ThreadFacts
  <2> QED
      BY <1>1, <1>2, <1>3, <2>1, <2>3
<1> QED
    BY <1>1, <1>5, <1>6

LEMMA FindEndDoes ==
    ASSUME Types, NEW s \in Server, FindEnd(s)
    PROVE  /\ thread[s].at = "find" /\ thread[s].todo = {}
           /\ \/ /\ state' = [state EXCEPT ![s] = @ \ {"FOUNDDB"}]
                 /\ ThreadIs(s, "asleep", {}, {}, NoOne)
              \/ /\ IsQuorum(thread[s].heard \cup {s}, Magic) /\ Newer(BestVersion(s), version[s])
                 /\ state' = [state EXCEPT ![s] = @ \cup {"FOUNDDB"}]
                 /\ ThreadIs(s, "fetch", {}, {}, thread[s].best)
              \/ /\ IsQuorum(thread[s].heard \cup {s}, Magic) /\ ~Newer(BestVersion(s), version[s])
                 /\ state' = [state EXCEPT ![s] = @ \cup {"FOUNDDB", "HAVEDB"}]
                 /\ ThreadIs(s, "label", {}, {}, NoOne)
           /\ UNCHANGED <<site, disk, version, current, trans, known, currentDB,
                          epochTime, tidCounter, clock, acked, aborted>>
<1>1. /\ thread[s].at = "find" /\ thread[s].todo = {}
      /\ \/ /\ state' = [state EXCEPT ![s] = @ \ {"FOUNDDB"}]
            /\ thread' = Goto(s, "asleep")
         \/ /\ IsQuorum(thread[s].heard \cup {s}, Magic) /\ Newer(BestVersion(s), version[s])
            /\ state' = [state EXCEPT ![s] = @ \cup {"FOUNDDB"}]
            /\ thread' = Goto(s, "fetch")
         \/ /\ IsQuorum(thread[s].heard \cup {s}, Magic) /\ ~Newer(BestVersion(s), version[s])
            /\ state' = [state EXCEPT ![s] = @ \cup {"FOUNDDB", "HAVEDB"}]
            /\ thread' = Goto(s, "label")
    BY Zenon DEF FindEnd
<1>2. UNCHANGED <<site, disk, version, current, trans, known, currentDB,
                          epochTime, tidCounter, clock, acked, aborted>>
    BY DEF FindEnd, dbVars, tidVars, clientVars
<1>3. thread' = Goto(s, "asleep") => ThreadIs(s, "asleep", {}, {}, NoOne)
    BY GotoIs DEF Stations
<1>4. thread' = Goto(s, "fetch") => ThreadIs(s, "fetch", {}, {}, thread[s].best)
    BY GotoIs DEF Stations
<1>5. thread' = Goto(s, "label") => ThreadIs(s, "label", {}, {}, NoOne)
    BY GotoIs DEF Stations
<1> QED
    BY <1>1, <1>2, <1>3, <1>4, <1>5, Zenon

-----------------------------------------------------------------------------
(* What the steps of recovery do: fetching, labelling and sending.         *)

\* The remote transaction of u goes on as it is, or is over.
Quiet(u) ==
    \/ current'[u] = current[u]
    \/ current'[u] = NoCurrent
    \/ current'[u].tid = current[u].tid /\ current'[u].done

LEMMA CheckTidQuiet ==
    ASSUME NEW t \in Server, NEW x
    PROVE  CheckTid(t, x) = current[t] \/ CheckTid(t, x) = NoCurrent
BY DEF CheckTid

LEMMA AbortAllDoes ==
    ASSUME Types, NEW s \in Server, AbortAll(s)
    PROVE  /\ TransIs(s, trans[s].phase, trans[s].sent, trans[s].todo, trans[s].ok, TRUE)
           /\ \A u \in Server : Quiet(u)
           /\ \A u \in Server : u # s => current'[u] = current[u]
<1>1. TransIs(s, trans[s].phase, trans[s].sent, trans[s].todo, trans[s].ok, TRUE)
    BY DoneIs DEF AbortAll
<1>2. current \in [Server -> CurrentRecord] /\ current[s] \in CurrentRecord
    BY DEF Types
<1>3. /\ \A u \in Server : u # s => current'[u] = current[u]
      /\ current'[s].tid = current[s].tid /\ current'[s].done
    BY <1>2 DEF AbortAll, CurrentRecord
<1> QED
    BY <1>1, <1>3 DEF Quiet

LEMMA FetchStartDoes ==
    ASSUME Types, NEW s \in Server, FetchStart(s)
    PROVE  /\ thread[s].at = "fetch" /\ VersionFree(s)
           /\ TransIs(s, trans[s].phase, trans[s].sent, trans[s].todo, trans[s].ok, TRUE)
           /\ \A u \in Server : Quiet(u)
           /\ disk' = [disk EXCEPT ![s] = [label |-> Zero, data |-> Garbage]]
           /\ ThreadIs(s, "fetching", {}, {}, thread[s].best)
           /\ UNCHANGED <<site, version, state, known, currentDB, epochTime, tidCounter, clock,
                          acked, aborted>>
<1>1. /\ thread[s].at = "fetch" /\ VersionFree(s) /\ AbortAll(s)
      /\ disk' = [disk EXCEPT ![s] = [label |-> Zero, data |-> Garbage]]
      /\ thread' = Goto(s, "fetching")
    BY DEF FetchStart
<1>2. UNCHANGED <<site, version, state, known, currentDB, epochTime, tidCounter, clock,
                          acked, aborted>>
    BY DEF FetchStart, tidVars, clientVars
<1>3. ThreadIs(s, "fetching", {}, {}, thread[s].best)
    BY <1>1, GotoIs DEF Stations
<1> QED
    BY <1>1, <1>2, <1>3, AbortAllDoes

LEMMA FetchEndDoes ==
    ASSUME Types, NEW s \in Server, FetchEnd(s)
    PROVE  /\ thread[s].at = "fetching" /\ site # thread[s].best /\ VersionFree(thread[s].best)
           /\ disk' = [disk EXCEPT ![s] = disk[thread[s].best]]
           /\ version' = [version EXCEPT ![s] = disk[thread[s].best].label]
           /\ state' = [state EXCEPT ![s] = @ \cup {"HAVEDB"}]
           /\ ThreadIs(s, "label", {}, {}, NoOne)
           /\ UNCHANGED <<site, current, trans, known, currentDB, epochTime, tidCounter, clock,
                          acked, aborted>>
<1>1. ThreadIs(s, "label", {}, {}, NoOne)
    BY GotoIs DEF FetchEnd, Stations
<1> QED
    BY <1>1 DEF FetchEnd, tidVars, clientVars

LEMMA LabelDoes ==
    ASSUME Types, NEW s \in Server, Label(s)
    PROVE  /\ thread[s].at = "label" /\ VersionFree(s)
           /\ TransIs(s, trans[s].phase, trans[s].sent, trans[s].todo, trans[s].ok, TRUE)
           /\ \A u \in Server : Quiet(u)
           /\ epochTime' = [epochTime EXCEPT ![s] = clock]
           /\ version' = [version EXCEPT ![s] = [epoch |-> clock, counter |-> 1]]
           /\ disk' = [disk EXCEPT ![s] = [label |-> [epoch |-> clock, counter |-> 1],
                                           data |-> disk[s].data]]
           /\ state' = [state EXCEPT ![s] = @ \cup {"LABELDB"}]
           /\ ThreadIs(s, "send", {}, {}, NoOne)
           /\ UNCHANGED <<site, known, currentDB, tidCounter, clock, acked, aborted>>
<1>1. /\ thread[s].at = "label" /\ VersionFree(s) /\ AbortAll(s)
      /\ epochTime' = [epochTime EXCEPT ![s] = clock]
      /\ version' = [version EXCEPT ![s] = [epoch |-> clock, counter |-> 1]]
      /\ disk' = [disk EXCEPT ![s].label = version'[s]]
      /\ state' = [state EXCEPT ![s] = @ \cup {"LABELDB"}]
      /\ thread' = Goto(s, "send")
      /\ UNCHANGED <<site, known, currentDB, tidCounter, clock, acked, aborted>>
    BY DEF Label, clientVars
<1>2. ThreadIs(s, "send", {}, {}, NoOne)
    BY <1>1, GotoIs DEF Stations
<1>3. version'[s] = [epoch |-> clock, counter |-> 1]
    BY <1>1 DEF Types
<1>4. disk \in [Server -> [label : Version, data : SUBSET Items]]
    BY DEF Types
<1>5. disk' = [disk EXCEPT ![s] = [label |-> [epoch |-> clock, counter |-> 1],
          data |-> disk[s].data]]
  <2>1. [disk[s] EXCEPT !.label = [epoch |-> clock, counter |-> 1]] =
            [label |-> [epoch |-> clock, counter |-> 1], data |-> disk[s].data]
      BY <1>4
  <2>2. disk' = [disk EXCEPT ![s] = [disk[s] EXCEPT !.label = [epoch |-> clock, counter |-> 1]]]
      BY <1>1, <1>3, <1>4
  <2> QED
      BY <2>1, <2>2
<1> QED
    BY <1>1, <1>2, <1>5, AbortAllDoes

LEMMA SendStartDoes ==
    ASSUME Types, NEW s \in Server, SendStart(s)
    PROVE  /\ thread[s].at = "send" /\ trans[s] = NoTrans
           /\ ThreadIs(s, "sending", Others(s), {}, NoOne)
           /\ UNCHANGED <<site, disk, version, current, trans, state, known, currentDB,
                          epochTime, tidCounter, clock, acked, aborted>>
<1>1. ThreadIs(s, "sending", Others(s), {}, NoOne)
    BY LoopIs DEF SendStart, Stations
<1> QED
    BY <1>1 DEF SendStart, DBWRITING, dbVars, tidVars, clientVars

\* SUBIKDISK_SendFile was executed.
Sent(s, t) ==
    /\ VersionFree(t)
    /\ TransIs(t, trans[t].phase, trans[t].sent, trans[t].todo, trans[t].ok, TRUE)
    /\ disk' = [disk EXCEPT ![t] = [label |-> version[s], data |-> disk[s].data]]
    /\ version' = [version EXCEPT ![t] = version[s]]

LEMMA SendDoes ==
    ASSUME Types, NEW s \in Server, NEW t \in Server, Send(s, t)
    PROVE  /\ thread[s].at = "sending" /\ t \in thread[s].todo
           /\ \A u \in Server : Quiet(u)
           /\ \/ /\ known[s][t] = version[s] /\ UNCHANGED <<disk, version, trans>>
                 /\ known' = [known EXCEPT ![s][t] = version[s]]
                 /\ currentDB' = [currentDB EXCEPT ![s] = @ \cup {t}]
                 /\ ThreadIs(s, "sending", thread[s].todo \ {t}, thread[s].heard \cup {t},
                        thread[s].best)
              \/ /\ Sent(s, t)
                 /\ known' = [known EXCEPT ![s][t] = version[s]]
                 /\ currentDB' = [currentDB EXCEPT ![s] = @ \cup {t}]
                 /\ ThreadIs(s, "sending", thread[s].todo \ {t}, thread[s].heard \cup {t},
                        thread[s].best)
              \/ /\ Sent(s, t) \/ UNCHANGED <<disk, version, trans>>
                 /\ UNCHANGED <<known, currentDB>>
                 /\ ThreadIs(s, "sending", thread[s].todo \ {t}, thread[s].heard, thread[s].best)
           /\ UNCHANGED <<site, state, epochTime, tidCounter, clock, acked, aborted>>
<1>1. /\ thread[s].at = "sending" /\ thread[s].todo # {} /\ t = NextIn(thread[s].todo)
      /\ \/ /\ \/ known[s][t] = version[s] /\ UNCHANGED <<dbVars, current, trans>>
               \/ SendFile(s, t)
            /\ known' = [known EXCEPT ![s][t] = version[s]]
            /\ currentDB' = [currentDB EXCEPT ![s] = @ \cup {t}]
            /\ thread' = [thread EXCEPT ![s].todo = @ \ {t}, ![s].heard = @ \cup {t}]
         \/ /\ SendFile(s, t) \/ UNCHANGED <<dbVars, current, trans>>
            /\ thread' = [thread EXCEPT ![s].todo = @ \ {t}]
            /\ UNCHANGED <<known, currentDB>>
      /\ UNCHANGED <<site, state, tidVars, clientVars>>
    BY Zenon DEF Send
<1>2. t \in thread[s].todo
    BY <1>1, ThreadFacts, NextInTodo
<1>3. UNCHANGED <<site, state, epochTime, tidCounter, clock, acked, aborted>>
    BY <1>1 DEF tidVars, clientVars
<1>4. SendFile(s, t) => Sent(s, t) /\ \A u \in Server : Quiet(u)
    BY AbortAllDoes DEF SendFile, Sent
<1>5. UNCHANGED <<dbVars, current, trans>> =>
          UNCHANGED <<disk, version, trans>> /\ \A u \in Server : Quiet(u)
    BY DEF dbVars, Quiet
<1>6. thread' = [thread EXCEPT ![s].todo = @ \ {t}, ![s].heard = @ \cup {t}] =>
          ThreadIs(s, "sending", thread[s].todo \ {t}, thread[s].heard \cup {t}, thread[s].best)
    BY <1>1, HeardIs
<1>7. thread' = [thread EXCEPT ![s].todo = @ \ {t}] =>
          ThreadIs(s, "sending", thread[s].todo \ {t}, thread[s].heard, thread[s].best)
    BY <1>1, SkipIs
<1> QED
    BY <1>1, <1>2, <1>3, <1>4, <1>5, <1>6, <1>7, Zenon

LEMMA SendEndDoes ==
    ASSUME Types, NEW s \in Server, SendEnd(s)
    PROVE  /\ thread[s].at = "sending"
           /\ state' = state \/ state' = [state EXCEPT ![s] = @ \cup {"SENTDB"}]
           /\ ThreadIs(s, "asleep", {}, {}, NoOne)
           /\ UNCHANGED <<site, disk, version, current, trans, known, currentDB,
                          epochTime, tidCounter, clock, acked, aborted>>
<1>1. ThreadIs(s, "asleep", {}, {}, NoOne)
    BY GotoIs DEF SendEnd, Stations
<1>2. state' = state \/ state' = [state EXCEPT ![s] = @ \cup {"SENTDB"}]
    BY Zenon DEF SendEnd
<1> QED
    BY <1>1, <1>2 DEF SendEnd, dbVars, tidVars, clientVars

-----------------------------------------------------------------------------
(* What the steps of a transaction do at the sync site.                    *)

LEMMA BeginDoes ==
    ASSUME Types, NEW s \in Server, Begin(s)
    PROVE  /\ VersionFree(s) /\ trans[s] = NoTrans /\ AllBetter(s)
           /\ tidCounter' = [tidCounter EXCEPT ![s] = tidCounter[s] + 2]
           /\ trans' \in [Server -> TransRecord]
           /\ \A u \in Server : u # s => trans'[u] = trans[u]
           /\ trans'[s].tid = [epoch |-> epochTime[s], counter |-> tidCounter[s] + 2]
           /\ trans'[s].phase = "open" /\ trans'[s].sent = 0 /\ trans'[s].todo = {}
           /\ trans'[s].ok = {} /\ trans'[s].done = FALSE
           /\ UNCHANGED <<site, disk, version, current, state, thread, known, currentDB,
                          epochTime, clock, acked, aborted>>
<1>1. /\ VersionFree(s) /\ trans[s] = NoTrans /\ AllBetter(s) /\ tidCounter[s] + 2 <= MaxTid
      /\ tidCounter' = [tidCounter EXCEPT ![s] = @ + 2]
      /\ trans' = [trans EXCEPT ![s] =
           [NoTrans EXCEPT !.tid = [epoch |-> epochTime[s], counter |-> tidCounter'[s]],
                           !.phase = "open", !.done = FALSE]]
      /\ UNCHANGED <<site, disk, version, current, state, thread, known, currentDB,
                          epochTime, clock, acked, aborted>>
    BY DEF Begin, DBWRITING, dbVars, recVars, clientVars
<1>2. /\ tidCounter \in [Server -> 0 .. MaxTid] /\ epochTime[s] \in 0 .. MaxEpoch /\ MaxTid \in Nat
      /\ trans \in [Server -> TransRecord]
    BY ReplicaAssumption DEF Types
<1>3. tidCounter'[s] = tidCounter[s] + 2
    BY <1>1, <1>2
<1>4. [epoch |-> epochTime[s], counter |-> tidCounter[s] + 2] \in Tid
    BY <1>1, <1>2 DEF Tid
<1> DEFINE x == [epoch |-> epochTime[s], counter |-> tidCounter[s] + 2]
           r == [NoTrans EXCEPT !.tid = x, !.phase = "open", !.done = FALSE]
<1>5. trans' = [trans EXCEPT ![s] = r]
    BY <1>1, <1>3
<1> HIDE DEF x
<1>6. r \in TransRecord
    BY <1>4, Constants, Zenon DEF TransRecord, Phases, x
<1>7. /\ r.tid = x /\ r.phase = "open" /\ r.sent = 0 /\ r.todo = {}
      /\ r.ok = {} /\ r.done = FALSE
    BY DEF NoTrans
<1> HIDE DEF r
<1>8. /\ trans' \in [Server -> TransRecord] /\ trans'[s] = r
      /\ \A u \in Server : u # s => trans'[u] = trans[u]
    BY <1>2, <1>5, <1>6
<1> QED
    BY <1>1, <1>7, <1>8 DEF x

LEMMA UpdateDoes ==
    ASSUME Types, NEW s \in Server, Update(s)
    PROVE  /\ trans[s].phase = "open" /\ ~trans[s].done /\ trans[s].sent < Updates
           /\ VersionFree(s) /\ AllBetter(s)
           /\ TransIs(s, "update", trans[s].sent, currentDB[s], {}, trans[s].done)
           /\ UNCHANGED <<site, disk, version, current, state, thread, known, currentDB,
                          epochTime, tidCounter, clock, acked, aborted>>
<1>1. TransIs(s, "update", trans[s].sent, currentDB[s], {}, trans[s].done)
    BY CallsIs DEF Update, AsyncContactQuorum, Phases
<1> QED
    BY <1>1 DEF Update, dbVars, recVars, tidVars, clientVars

LEMMA UpdateEndDoes ==
    ASSUME Types, NEW s \in Server, UpdateEnd(s)
    PROVE  /\ trans[s].phase = "update" /\ trans[s].todo = {}
           /\ \/ TransIs(s, "open", trans[s].sent + 1, trans[s].todo, {}, trans[s].done)
              \/ TransIs(s, "undo", trans[s].sent + 1, currentDB[s], {}, TRUE)
           /\ UNCHANGED <<site, disk, version, current, state, thread, known, currentDB,
                          epochTime, tidCounter, clock, acked, aborted>>
<1>1. /\ trans[s].phase = "update" /\ trans[s].todo = {}
      /\ \/ trans' = [trans EXCEPT ![s].phase = "open", ![s].sent = @ + 1, ![s].ok = {}]
         \/ trans' = [trans EXCEPT ![s].phase = "undo", ![s].sent = @ + 1,
                          ![s].done = TRUE, ![s].todo = currentDB[s], ![s].ok = {}]
    BY Zenon DEF UpdateEnd
<1>2. UNCHANGED <<site, disk, version, current, state, thread, known, currentDB,
                          epochTime, tidCounter, clock, acked, aborted>>
    BY DEF UpdateEnd, dbVars, recVars, tidVars, clientVars
<1> QED
    BY <1>1, <1>2, UpdatedIs, UndoIs, Zenon

LEMMA UndoEndDoes ==
    ASSUME Types, NEW s \in Server, UndoEnd(s)
    PROVE  /\ trans[s].phase = "undo" /\ trans[s].todo = {}
           /\ TransIs(s, "open", trans[s].sent, trans[s].todo, trans[s].ok, trans[s].done)
           /\ UNCHANGED <<site, disk, version, current, state, thread, known, currentDB,
                          epochTime, tidCounter, clock, acked, aborted>>
BY OpenIs DEF UndoEnd, dbVars, recVars, tidVars, clientVars

\* The transaction of s is given up.
Given(s) ==
    /\ trans[s].phase \in {"open", "abort"}
    /\ trans' = [trans EXCEPT ![s] = NoTrans]
    /\ aborted' = aborted \cup {trans[s].tid}

LEMMA AbortTransDoes ==
    ASSUME Types, NEW s \in Server, AbortTrans(s)
    PROVE  /\ trans[s].phase = "open"
           /\ \/ Given(s)
              \/ /\ TransIs(s, "abort", trans[s].sent, currentDB[s], {}, trans[s].done)
                 /\ UNCHANGED aborted
           /\ UNCHANGED <<site, disk, version, current, state, thread, known, currentDB,
                          epochTime, tidCounter, clock, acked>>
<1>1. /\ trans[s].phase = "open"
      /\ \/ GiveUp(s)
         \/ AsyncContactQuorum(s, "abort") /\ UNCHANGED aborted
    BY Zenon DEF AbortTrans
<1>2. UNCHANGED <<site, disk, version, current, state, thread, known, currentDB,
                          epochTime, tidCounter, clock, acked>>
    BY DEF AbortTrans, dbVars, recVars, tidVars
<1>3. GiveUp(s) => Given(s)
    BY <1>1 DEF GiveUp, Given
<1>4. AsyncContactQuorum(s, "abort") =>
          TransIs(s, "abort", trans[s].sent, currentDB[s], {}, trans[s].done)
    BY CallsIs DEF AsyncContactQuorum, Phases
<1> QED
    BY <1>1, <1>2, <1>3, <1>4, Zenon

LEMMA AbortEndDoes ==
    ASSUME Types, NEW s \in Server, AbortEnd(s)
    PROVE  /\ Given(s)
           /\ UNCHANGED <<site, disk, version, current, state, thread, known, currentDB,
                          epochTime, tidCounter, clock, acked>>
BY DEF AbortEnd, GiveUp, Given, dbVars, recVars, tidVars

LEMMA EndTransDoes ==
    ASSUME Types, NEW s \in Server, EndTrans(s)
    PROVE  /\ trans[s].phase = "open" /\ VersionFree(s)
           /\ \/ Given(s)
              \/ /\ AllBetter(s) /\ trans[s].sent = Updates
                 /\ TransIs(s, "commit", trans[s].sent, currentDB[s] \cup {s}, {}, trans[s].done)
                 /\ UNCHANGED aborted
           /\ UNCHANGED <<site, disk, version, current, state, thread, known, currentDB,
                          epochTime, tidCounter, clock, acked>>
<1>1. /\ trans[s].phase = "open" /\ VersionFree(s)
      /\ \/ GiveUp(s)
         \/ /\ AllBetter(s) /\ trans[s].sent = Updates
            /\ trans' = [trans EXCEPT ![s].phase = "commit", ![s].ok = {},
                                      ![s].todo = currentDB[s] \cup {s}]
            /\ UNCHANGED aborted
    BY Zenon DEF EndTrans
<1>2. UNCHANGED <<site, disk, version, current, state, thread, known, currentDB,
                          epochTime, tidCounter, clock, acked>>
    BY DEF EndTrans, dbVars, recVars, tidVars
<1>3. GiveUp(s) => Given(s)
    BY <1>1 DEF GiveUp, Given
<1> QED
    BY <1>1, <1>2, <1>3, CommitIs, Zenon

LEMMA LocalCommitDoes ==
    ASSUME Types, NEW s \in Server, LocalCommit(s)
    PROVE  /\ trans[s].phase = "commit" /\ s \in trans[s].todo
           /\ \/ /\ trans[s].done
                 /\ TransIs(s, "commit", trans[s].sent, trans[s].todo \ {s}, trans[s].ok, TRUE)
                 /\ UNCHANGED <<disk, version>>
              \/ /\ ~trans[s].done
                 /\ TransIs(s, "commit", trans[s].sent, trans[s].todo \ {s},
                            trans[s].ok \cup {s}, TRUE)
                 /\ version' = [version EXCEPT ![s] = [epoch |-> version[s].epoch,
                                                      counter |-> version[s].counter + 1]]
                 /\ disk' = [disk EXCEPT ![s] =
                        [label |-> [epoch |-> version[s].epoch, counter |-> version[s].counter + 1],
                         data |-> disk[s].data \cup Parts(trans[s].tid)]]
           /\ UNCHANGED <<site, current, state, thread, known, currentDB,
                          epochTime, tidCounter, clock, acked, aborted>>
<1>1. /\ trans[s].phase = "commit" /\ s \in trans[s].todo
      /\ \/ /\ trans[s].done
            /\ trans' = [trans EXCEPT ![s].todo = @ \ {s}]
            /\ UNCHANGED dbVars
         \/ /\ ~trans[s].done
            /\ trans' = [trans EXCEPT ![s].todo = @ \ {s}, ![s].ok = @ \cup {s}, ![s].done = TRUE]
            /\ version' = [version EXCEPT ![s].counter = @ + 1]
            /\ disk' = [disk EXCEPT ![s] = [label |-> version'[s],
                                            data |-> @.data \cup Parts(trans[s].tid)]]
    BY Zenon DEF LocalCommit
<1>2. UNCHANGED <<site, current, state, thread, known, currentDB,
                          epochTime, tidCounter, clock, acked, aborted>>
    BY DEF LocalCommit, recVars, tidVars, clientVars
<1> DEFINE v == [epoch |-> version[s].epoch, counter |-> version[s].counter + 1]
<1>3. CASE /\ trans[s].done
           /\ trans' = [trans EXCEPT ![s].todo = @ \ {s}]
           /\ UNCHANGED dbVars
  <2>1. TransIs(s, trans[s].phase, trans[s].sent, trans[s].todo \ {s}, trans[s].ok, trans[s].done)
      BY <1>3, SkippedIs
  <2>2. TransIs(s, "commit", trans[s].sent, trans[s].todo \ {s}, trans[s].ok, TRUE)
      BY <1>1, <1>3, <2>1 DEF TransIs
  <2> QED
      BY <1>1, <1>2, <1>3, <2>2 DEF dbVars
<1>4. CASE /\ ~trans[s].done
           /\ trans' = [trans EXCEPT ![s].todo = @ \ {s}, ![s].ok = @ \cup {s}, ![s].done = TRUE]
           /\ version' = [version EXCEPT ![s].counter = @ + 1]
           /\ disk' = [disk EXCEPT ![s] = [label |-> version'[s],
                                           data |-> @.data \cup Parts(trans[s].tid)]]
  <2>1. TransIs(s, trans[s].phase, trans[s].sent, trans[s].todo \ {s}, trans[s].ok \cup {s}, TRUE)
      BY <1>4, CommittedIs
  <2>2. version \in [Server -> Version]
      BY DEF Types
  <2>3. [version[s] EXCEPT !.counter = @ + 1] = v
      BY <2>2 DEF Version
  <2>4. version' = [version EXCEPT ![s] = [version[s] EXCEPT !.counter = @ + 1]]
      BY <1>4, <2>2
  <2>5. version' = [version EXCEPT ![s] = v]
      BY <2>3, <2>4
  <2>6. disk' = [disk EXCEPT ![s] = [label |-> v, data |-> disk[s].data \cup Parts(trans[s].tid)]]
    <3>1. version'[s] = v
        BY <2>2, <2>5
    <3>2. disk' = [disk EXCEPT ![s] = [label |-> version'[s],
              data |-> disk[s].data \cup Parts(trans[s].tid)]]
        BY <1>4
    <3> QED
        BY <3>1, <3>2
  <2> QED
      BY <1>1, <1>2, <1>4, <2>1, <2>5, <2>6
<1> QED
    BY <1>1, <1>3, <1>4

LEMMA CommitEndDoes ==
    ASSUME Types, NEW s \in Server, CommitEnd(s)
    PROVE  /\ trans[s].phase = "commit" /\ trans[s].todo = {}
           /\ TransIs(s, "release", trans[s].sent, currentDB[s], trans[s].ok, trans[s].done)
           /\ known' \in [Server -> [Server -> Version]]
           /\ \A u \in Server : u # s => known'[u] = known[u]
           /\ \A t \in Server : \/ t \in trans[s].ok \ {s} /\ known'[s][t] = version[s]
                                \/ known'[s][t] = known[s][t]
           /\ UNCHANGED <<site, disk, version, current, state, thread, currentDB,
                          epochTime, tidCounter, clock, acked, aborted>>
<1>1. TransIs(s, "release", trans[s].sent, currentDB[s], trans[s].ok, trans[s].done)
    BY ReleaseIs DEF CommitEnd
<1>2. known \in [Server -> [Server -> Version]] /\ version[s] \in Version
    BY DEF Types
<1>3. known' = [known EXCEPT ![s] = [t \in Server |->
                    IF t \in trans[s].ok \ {s} THEN version[s] ELSE known[s][t]]]
    BY DEF CommitEnd
<1>4. /\ known' \in [Server -> [Server -> Version]]
      /\ \A u \in Server : u # s => known'[u] = known[u]
      /\ \A t \in Server : \/ t \in trans[s].ok \ {s} /\ known'[s][t] = version[s]
                           \/ known'[s][t] = known[s][t]
    BY <1>2, <1>3
<1> QED
    BY <1>1, <1>4 DEF CommitEnd, dbVars, tidVars, clientVars

LEMMA ReleaseEndDoes ==
    ASSUME Types, NEW s \in Server, ReleaseEnd(s)
    PROVE  /\ trans[s].phase = "release" /\ trans[s].todo = {}
           /\ trans' = [trans EXCEPT ![s] = NoTrans]
           /\ acked' = IF IsQuorum(trans[s].ok, Magic) THEN acked \cup {trans[s].tid} ELSE acked
           /\ \/ UNCHANGED <<site, state>>
              \/ /\ site' = IF site = s THEN NoOne ELSE site
                 /\ state' = [state EXCEPT ![s] = {}]
           /\ UNCHANGED <<disk, version, current, thread, known, currentDB,
                          epochTime, tidCounter, clock, aborted>>
<1>1. \/ UNCHANGED <<site, state>>
      \/ /\ site' = IF site = s THEN NoOne ELSE site
         /\ state' = [state EXCEPT ![s] = {}]
    BY Zenon DEF ReleaseEnd
<1> QED
    BY <1>1 DEF ReleaseEnd, dbVars, tidVars

-----------------------------------------------------------------------------
(* What a call to a remote server does, at both ends.                      *)

\* SUBIKDISK_BulkUpdate took effect at t.
Stored(s, t) ==
    /\ trans[s].phase = "update"
    /\ current'[t].tid = trans[s].tid /\ ~current'[t].done
    /\ \/ trans[s].sent = 0 /\ current'[t].data = {<<trans[s].tid, 1>>}
       \/ /\ trans[s].sent # 0 /\ Carries(s, t)
          /\ current'[t].data = current[t].data \cup {<<trans[s].tid, trans[s].sent + 1>>}

\* SUBIKDISK_Commit took effect at t.
Installed(s, t) ==
    /\ trans[s].phase = "commit" /\ VersionFree(t)
    /\ Carries(s, t) /\ Quiet(t) /\ current'[t].done
    /\ version' = [version EXCEPT ![t] = [epoch |-> version[t].epoch,
                                          counter |-> version[t].counter + 1]]
    /\ disk' = [disk EXCEPT ![t] = [label |-> version'[t],
                                    data |-> disk[t].data \cup current[t].data]]

\* The call to t is over: what it did at t, and what s makes of it.
Called(s, t, good, ok) ==
    /\ TransIs(s, trans[s].phase, trans[s].sent, trans[s].todo \ {t}, ok, trans[s].done)
    /\ currentDB' = IF good THEN currentDB ELSE [currentDB EXCEPT ![s] = @ \ {t}]
    /\ state' = state \/ state' = [state EXCEPT ![s] = @ \ {"SENTDB"}]
    /\ ok = IF good /\ trans[s].phase \in {"update", "commit"}
            THEN trans[s].ok \cup {t} ELSE trans[s].ok
    /\ \/ /\ Quiet(t) /\ UNCHANGED <<disk, version>>
          /\ good => current'[t] = NoCurrent /\ trans[s].phase \notin {"update", "commit"}
       \/ Stored(s, t) /\ UNCHANGED <<disk, version>>
       \/ Installed(s, t)

LEMMA CheckTidSame ==
    ASSUME Types, NEW s \in Server, NEW t \in Server, ~CheckTid(t, trans[s].tid).done,
           current[t].tid.epoch = trans[s].tid.epoch =>
               current[t].tid.counter <= trans[s].tid.counter
    PROVE  CheckTid(t, trans[s].tid) = current[t] /\ Carries(s, t)
<1>1. CheckTid(t, trans[s].tid) = current[t]
    BY DEF CheckTid, NoCurrent
<1>2. ~ (trans[s].tid.epoch # current[t].tid.epoch \/ trans[s].tid.counter > current[t].tid.counter)
    BY <1>1 DEF CheckTid, NoCurrent
<1>3. trans[s].tid \in Tid /\ current[t].tid \in Tid
    BY TypeFacts
<1>4. trans[s].tid.epoch = current[t].tid.epoch /\ trans[s].tid.counter = current[t].tid.counter
    BY <1>2, <1>3 DEF Tid
<1>5. current[t].tid = trans[s].tid
    BY <1>3, <1>4 DEF Tid
<1> QED
    BY <1>1, <1>5 DEF Carries

LEMMA ContactDoes ==
    ASSUME Types, NEW s \in Server, NEW t \in Server, Contact(s, t),
           current[t].tid.epoch = trans[s].tid.epoch =>
               current[t].tid.counter <= trans[s].tid.counter
    PROVE  /\ t \in trans[s].todo /\ t # s
           /\ current' \in [Server -> CurrentRecord]
           /\ \A u \in Server : u # t => current'[u] = current[u]
           /\ \E good \in BOOLEAN, ok \in SUBSET Server : Called(s, t, good, ok)
           /\ UNCHANGED <<site, thread, known, epochTime, tidCounter, clock, acked, aborted>>
<1> DEFINE r == Execute(t, trans[s])
           v == [version[t] EXCEPT !.counter = r.counter]
           Done(good) == /\ VersionFree(t) /\ (good => r.good)
                         /\ current' = [current EXCEPT ![t] = r.current]
                         /\ version' = [version EXCEPT ![t] = v]
                         /\ disk' = IF v = version[t] THEN disk
                                    ELSE [disk EXCEPT ![t] = [label |-> v, data |-> r.data]]
           Lost(good) == ~good /\ UNCHANGED <<current, disk, version>>
           Effect(good) == /\ current' \in [Server -> CurrentRecord]
                           /\ \A u \in Server : u # t => current'[u] = current[u]
                           /\ \/ /\ Quiet(t) /\ UNCHANGED <<disk, version>>
                                 /\ good => /\ current'[t] = NoCurrent
                                            /\ trans[s].phase \notin {"update", "commit"}
                              \/ Stored(s, t) /\ UNCHANGED <<disk, version>>
                              \/ Installed(s, t)
<1>1. PICK good \in BOOLEAN : Contacted(s, t, good) /\ (Done(good) \/ Lost(good))
  <2>1. r.good \in BOOLEAN
      BY ExecuteType
  <2> QED
      BY <2>1, Zenon DEF Contact, dbVars
<1>2. Lost(good) => Effect(good)
    BY DEF Quiet, Types
<1>3. ASSUME Done(good) PROVE Effect(good)
  <2>1. /\ current \in [Server -> CurrentRecord] /\ version \in [Server -> Version]
        /\ disk \in [Server -> [label : Version, data : SUBSET Items]]
      BY DEF Types
  <2>2. r.current \in CurrentRecord /\ r.counter \in Nat /\ r.data \in SUBSET Items
      BY ExecuteType
  <2>3. /\ current' \in [Server -> CurrentRecord] /\ current'[t] = r.current
        /\ \A u \in Server : u # t => current'[u] = current[u]
    <3> HIDE DEF r
    <3> QED
        BY <1>3, <2>1, <2>2
  <2>4. ASSUME r.counter = version[t].counter PROVE UNCHANGED <<disk, version>>
    <3> HIDE DEF r
    <3>1. v = version[t]
        BY <2>1, <2>4 DEF Version
    <3> HIDE DEF v
    <3> QED
        BY <1>3, <2>1, <3>1
  <2>5. CASE trans[s].phase = "update"
    <3>1. r = BulkUpdate(t, trans[s].tid, trans[s].sent + 1)
        BY <2>5 DEF Execute
    <3>2. trans[s].sent + 1 \in 1 .. Updates /\ trans[s].tid \in Tid
        BY <2>5, TypeFacts, ReplicaAssumption DEF Types
    <3>3. r.counter = version[t].counter
        BY <3>1, <3>2, BulkUpdateType
    <3>4. trans[s].sent \in Nat
        BY TypeFacts
    <3>5. CASE trans[s].sent = 0
      <4>1. \/ r.current = NoCurrent /\ r.good = FALSE
            \/ r.current = [tid |-> trans[s].tid, data |-> {<<trans[s].tid, 1>>}, done |-> FALSE]
          BY <3>1, <3>5 DEF BulkUpdate, Unchanged, Remote
      <4> HIDE DEF r
      <4>2. CASE r.current = NoCurrent /\ r.good = FALSE
        <5>1. ~good
            BY <1>3, <4>2
        <5>2. Quiet(t)
            BY <2>3, <4>2 DEF Quiet
        <5> QED
            BY <2>3, <2>4, <3>3, <5>1, <5>2
      <4>3. CASE r.current = [tid |-> trans[s].tid, data |-> {<<trans[s].tid, 1>>}, done |-> FALSE]
        <5>1. Stored(s, t)
            BY <2>3, <2>5, <3>5, <4>3 DEF Stored
        <5> QED
            BY <2>3, <2>4, <3>3, <5>1
      <4> QED
          BY <4>1, <4>2, <4>3
    <3>6. CASE trans[s].sent # 0
      <4> DEFINE cur == CheckTid(t, trans[s].tid)
      <4>1. \/ cur.done /\ r.current = cur /\ r.good = FALSE
            \/ ~cur.done
                   /\ r.current = [cur EXCEPT !.data = @ \cup {<<trans[s].tid, trans[s].sent + 1>>}]
          BY <3>1, <3>4, <3>6 DEF BulkUpdate, Unchanged, Remote
      <4> HIDE DEF r
      <4>2. CASE cur.done /\ r.current = cur /\ r.good = FALSE
        <5>1. ~good
            BY <1>3, <4>2
        <5>2. Quiet(t)
            BY <2>3, <4>2, CheckTidQuiet DEF Quiet
        <5> QED
            BY <2>3, <2>4, <3>3, <5>1, <5>2
      <4>3. CASE ~cur.done
                 /\ r.current = [cur EXCEPT !.data = @ \cup {<<trans[s].tid, trans[s].sent + 1>>}]
        <5>1. cur = current[t] /\ Carries(s, t)
            BY <4>3, CheckTidSame
        <5>2. r.current = [current[t] EXCEPT !.data = @ \cup {<<trans[s].tid, trans[s].sent + 1>>}]
            BY <4>3, <5>1
        <5>3. /\ r.current.tid = trans[s].tid /\ ~r.current.done
              /\ r.current.data = current[t].data \cup {<<trans[s].tid, trans[s].sent + 1>>}
            BY <2>1, <5>1, <5>2 DEF Carries, CurrentRecord
        <5> QED
            BY <2>3, <2>4, <2>5, <3>3, <3>6, <5>1, <5>3 DEF Stored
      <4> QED
          BY <4>1, <4>2, <4>3
    <3> QED
        BY <3>5, <3>6
  <2>6. CASE trans[s].phase = "commit"
    <3> DEFINE cur == CheckTid(t, trans[s].tid)
    <3>1. \/ cur.done /\ r.current = cur /\ r.good = FALSE /\ r.counter = version[t].counter
          \/ /\ ~cur.done /\ r.current = [cur EXCEPT !.done = TRUE]
             /\ r.counter = version[t].counter + 1 /\ r.data = disk[t].data \cup cur.data
        BY <2>6 DEF Execute, Commit, Unchanged, Remote
    <3> HIDE DEF r
    <3>2. CASE cur.done /\ r.current = cur /\ r.good = FALSE /\ r.counter = version[t].counter
      <4>1. ~good
          BY <1>3, <3>2
      <4>2. Quiet(t)
          BY <2>3, <3>2, CheckTidQuiet DEF Quiet
      <4> QED
          BY <2>3, <2>4, <3>2, <4>1, <4>2
    <3>3. CASE /\ ~cur.done /\ r.current = [cur EXCEPT !.done = TRUE]
               /\ r.counter = version[t].counter + 1 /\ r.data = disk[t].data \cup cur.data
      <4>1. cur = current[t] /\ Carries(s, t)
          BY <3>3, CheckTidSame
      <4>2. r.current = [current[t] EXCEPT !.done = TRUE]
                /\ r.data = disk[t].data \cup current[t].data
          BY <3>3, <4>1
      <4>3. r.current.tid = current[t].tid /\ r.current.done
          BY <2>1, <4>2 DEF CurrentRecord
      <4>4. v = [epoch |-> version[t].epoch, counter |-> version[t].counter + 1] /\ v # version[t]
          BY <2>1, <3>3 DEF Version
      <4> HIDE DEF v
      <4>5. version'[t] = v
          BY <1>3, <2>1
      <4>6. disk' = [disk EXCEPT ![t] = [label |-> version'[t],
                data |-> disk[t].data \cup current[t].data]]
          BY <1>3, <4>2, <4>4, <4>5
      <4>7. version' = [version EXCEPT ![t] = [epoch |-> version[t].epoch,
                                               counter |-> version[t].counter + 1]]
          BY <1>3, <4>4
      <4>8. Quiet(t) /\ current'[t].done
          BY <2>3, <4>3 DEF Quiet
      <4>9. Installed(s, t)
          BY <1>3, <2>6, <4>1, <4>6, <4>7, <4>8, Zenon DEF Installed
      <4> QED
          BY <2>3, <4>9
    <3> QED
        BY <3>1, <3>2, <3>3
  <2>7. CASE trans[s].phase \notin {"update", "commit"}
    <3>1. r = ReleaseLocks(t, trans[s].tid) \/ r = Abort(t, trans[s].tid)
        BY <2>7 DEF Execute
    <3>2. r.current = NoCurrent /\ r.counter = version[t].counter
        BY <3>1, EndType, TypeFacts
    <3> HIDE DEF r
    <3> QED
        BY <2>3, <2>4, <2>7, <3>2 DEF Quiet
  <2> QED
      BY <2>5, <2>6, <2>7
<1> DEFINE ok == IF good /\ trans[s].phase \in {"update", "commit"}
                 THEN trans[s].ok \cup {t} ELSE trans[s].ok
<1>4. ok \in SUBSET Server
    BY TypeFacts
<1>5. /\ trans' = [trans EXCEPT ![s].todo = @ \ {t}, ![s].ok = ok]
      /\ currentDB' = IF good THEN currentDB ELSE [currentDB EXCEPT ![s] = @ \ {t}]
      /\ state' = state \/ state' = [state EXCEPT ![s] = @ \ {"SENTDB"}]
    BY <1>1, Zenon DEF Contacted
<1>6. /\ t \in trans[s].todo /\ t # s
      /\ UNCHANGED <<site, thread, known, epochTime, tidCounter, clock, acked, aborted>>
    BY DEF Contact, tidVars, clientVars
<1>7. Effect(good)
    BY <1>1, <1>2, <1>3
<1> HIDE DEF ok, Effect, Done, Lost
<1>8. TransIs(s, trans[s].phase, trans[s].sent, trans[s].todo \ {t}, ok, trans[s].done)
    BY <1>4, <1>5, ContactedIs
<1>9. Called(s, t, good, ok)
    BY <1>5, <1>7, <1>8, Zenon DEF ok, Effect, Called
<1> QED
    BY <1>4, <1>6, <1>7, <1>9, Zenon DEF Effect

-----------------------------------------------------------------------------
(* Types are kept.                                                         *)

LEMMA ContactLast ==
    ASSUME Types, Transactions, Tids, NEW s \in Server, NEW t \in Server, Contact(s, t)
    PROVE  /\ Active(s)
           /\ current[t].tid.epoch = trans[s].tid.epoch =>
                  current[t].tid.counter <= trans[s].tid.counter
<1>1. t \in trans[s].todo
    BY DEF Contact
<1>2. Active(s)
    BY <1>1 DEF Transactions, TransOK, NoTrans
<1> QED
    BY <1>2 DEF Tids

\* No step leaves the types.
LEMMA TypesStep ==
    ASSUME Types, Control, Transactions, Tids, [Next]_vars PROVE Types'
<1> USE DEF recVars, dbVars, tidVars, clientVars
<1>1. CASE UNCHANGED vars
    BY <1>1 DEF vars, Types
<1>2. ASSUME NEW s \in Server, Elect(s) PROVE Types'
    BY <1>2, CheckTidType DEF Elect, Elected, Types
<1>3. ASSUME NEW s \in Server, NEW t \in Server, Beacon(s, t) PROVE Types'
    BY <1>3, CheckTidType DEF Beacon, Types
<1>4. CASE Lapse
    BY <1>4 DEF Lapse, Types
<1>5. ASSUME NEW s \in Server, Restart(s) PROVE Types'
  <2>1. trans[s].tid \in Tid /\ 0 \in 0 .. MaxEpoch /\ 0 \in 0 .. MaxTid
      BY TypeFacts, ReplicaAssumption
  <2> QED
      BY <1>5, <2>1, Constants DEF Restart, Types, NoTrans
<1>6. ASSUME NEW s \in Server, NEW t \in Server, Check(s, t) PROVE Types'
    BY <1>6 DEF Check, Types
<1>7. ASSUME NEW s \in Server, Wake(s) PROVE Types'
    BY <1>7, WakeDoes DEF Types, ThreadIs
<1>8. ASSUME NEW s \in Server, NEW t \in Server, Find(s, t) PROVE Types'
    BY <1>8, FindDoes DEF Types, ThreadIs
<1>9. ASSUME NEW s \in Server, FindEnd(s) PROVE Types'
  <2>1. state' \in [Server -> SUBSET Flags]
    <3>1. state \in [Server -> SUBSET Flags] /\ "FOUNDDB" \in Flags /\ "HAVEDB" \in Flags
        BY DEF Types, Flags
    <3>2. \/ state' = [state EXCEPT ![s] = @ \ {"FOUNDDB"}]
          \/ state' = [state EXCEPT ![s] = @ \cup {"FOUNDDB"}]
          \/ state' = [state EXCEPT ![s] = @ \cup {"FOUNDDB", "HAVEDB"}]
        BY <1>9, FindEndDoes
    <3> QED
        BY <3>1, <3>2
  <2>2. thread' \in [Server -> ThreadRecord]
      BY <1>9, FindEndDoes DEF ThreadIs
  <2>3. UNCHANGED <<site, disk, version, current, trans, known, currentDB,
                          epochTime, tidCounter, clock, acked, aborted>>
      BY <1>9, FindEndDoes
  <2> QED
      BY <2>1, <2>2, <2>3 DEF Types
<1>10. ASSUME NEW s \in Server, FetchStart(s) PROVE Types'
  <2>1. current' \in [Server -> CurrentRecord]
      BY <1>10, AbortAllType DEF FetchStart
  <2>2. /\ disk' = [disk EXCEPT ![s] = [label |-> Zero, data |-> Garbage]]
        /\ thread' \in [Server -> ThreadRecord] /\ trans' \in [Server -> TransRecord]
        /\ \A u \in Server : trans'[u].phase = trans[u].phase /\ trans'[u].sent = trans[u].sent
        /\ UNCHANGED <<site, version, state, known, currentDB, epochTime, tidCounter, clock,
                          acked, aborted>>
      BY <1>10, FetchStartDoes DEF ThreadIs, TransIs
  <2>3. disk' \in [Server -> [label : Version, data : SUBSET Items]]
    <3>1. disk \in [Server -> [label : Version, data : SUBSET Items]]
        BY DEF Types
    <3> QED
        BY <2>2, <3>1, Constants
  <2> QED
      BY <2>1, <2>2, <2>3 DEF Types
<1>11. ASSUME NEW s \in Server, FetchEnd(s) PROVE Types'
  <2>1. thread[s].best \in Server
      BY <1>11, TypeFacts, FetchEndDoes DEF Control, LoopsOK, Others
  <2>2. /\ disk' = [disk EXCEPT ![s] = disk[thread[s].best]]
        /\ version' = [version EXCEPT ![s] = disk[thread[s].best].label]
        /\ state' = [state EXCEPT ![s] = @ \cup {"HAVEDB"}]
        /\ thread' \in [Server -> ThreadRecord]
        /\ UNCHANGED <<site, current, trans, known, currentDB, epochTime, tidCounter, clock,
                          acked, aborted>>
      BY <1>11, FetchEndDoes DEF ThreadIs
  <2>3. /\ disk \in [Server -> [label : Version, data : SUBSET Items]]
        /\ version \in [Server -> Version] /\ state \in [Server -> SUBSET Flags]
      BY DEF Types
  <2>4. /\ disk' \in [Server -> [label : Version, data : SUBSET Items]]
        /\ version' \in [Server -> Version] /\ state' \in [Server -> SUBSET Flags]
      BY <2>1, <2>2, <2>3 DEF Flags
  <2> QED
      BY <2>2, <2>4 DEF Types
<1>12. ASSUME NEW s \in Server, Label(s) PROVE Types'
  <2>1. clock \in 0 .. MaxEpoch /\ clock \in Nat
    <3>1. thread[s].at = "label"
        BY <1>12 DEF Label
    <3>2. Acts(s) /\ ActsOK(s)
        BY <3>1 DEF Acts, Control
    <3> QED
        BY <3>2, ReplicaAssumption DEF ActsOK
  <2>2. current' \in [Server -> CurrentRecord]
      BY <1>12, AbortAllType DEF Label
  <2> DEFINE v == [epoch |-> clock, counter |-> 1]
  <2>3. v \in Version
      BY <2>1 DEF Version
  <2>4. /\ epochTime' = [epochTime EXCEPT ![s] = clock]
        /\ version' = [version EXCEPT ![s] = v]
        /\ disk' = [disk EXCEPT ![s] = [label |-> v, data |-> disk[s].data]]
        /\ state' = [state EXCEPT ![s] = @ \cup {"LABELDB"}]
        /\ thread' \in [Server -> ThreadRecord] /\ trans' \in [Server -> TransRecord]
        /\ \A u \in Server : trans'[u].phase = trans[u].phase /\ trans'[u].sent = trans[u].sent
        /\ UNCHANGED <<site, known, currentDB, tidCounter, clock, acked, aborted>>
      BY <1>12, LabelDoes DEF ThreadIs, TransIs
  <2> HIDE DEF v
  <2>5. /\ disk \in [Server -> [label : Version, data : SUBSET Items]]
        /\ version \in [Server -> Version] /\ state \in [Server -> SUBSET Flags]
        /\ epochTime \in [Server -> 0 .. MaxEpoch]
      BY DEF Types
  <2>6. disk' \in [Server -> [label : Version, data : SUBSET Items]]
      BY <2>3, <2>4, <2>5
  <2>7. /\ version' \in [Server -> Version] /\ state' \in [Server -> SUBSET Flags]
        /\ epochTime' \in [Server -> 0 .. MaxEpoch]
      BY <2>1, <2>3, <2>4, <2>5 DEF Flags
  <2> QED
      BY <2>2, <2>4, <2>6, <2>7 DEF Types
<1>13. ASSUME NEW s \in Server, SendStart(s) PROVE Types'
    BY <1>13, SendStartDoes DEF Types, ThreadIs
<1>14. ASSUME NEW s \in Server, NEW t \in Server, Send(s, t) PROVE Types'
  <2>1. current' \in [Server -> CurrentRecord]
    <3>1. CASE SendFile(s, t)
        BY <3>1, AbortAllType DEF SendFile
    <3>2. CASE UNCHANGED <<dbVars, current, trans>>
        BY <3>2 DEF Types
    <3> QED
        BY <1>14, <3>1, <3>2, Zenon DEF Send
  <2>2. /\ disk \in [Server -> [label : Version, data : SUBSET Items]]
        /\ version \in [Server -> Version] /\ known \in [Server -> [Server -> Version]]
        /\ currentDB \in [Server -> SUBSET Server] /\ trans \in [Server -> TransRecord]
      BY DEF Types
  <2>3. Sent(s, t) \/ UNCHANGED <<disk, version, trans>>
      BY <1>14, SendDoes, Zenon
  <2>4. /\ disk' \in [Server -> [label : Version, data : SUBSET Items]]
        /\ version' \in [Server -> Version] /\ trans' \in [Server -> TransRecord]
        /\ \A u \in Server : trans'[u].phase = trans[u].phase /\ trans'[u].sent = trans[u].sent
    <3>1. [label |-> version[s], data |-> disk[s].data] \in [label : Version, data : SUBSET Items]
        BY <2>2
    <3>2. \/ disk' = [disk EXCEPT ![t] = [label |-> version[s], data |-> disk[s].data]]
          \/ disk' = disk
        BY <2>3, Zenon DEF Sent
    <3>3. version' = [version EXCEPT ![t] = version[s]] \/ version' = version
        BY <2>3, Zenon DEF Sent
    <3>4. TransIs(t, trans[t].phase, trans[t].sent, trans[t].todo, trans[t].ok, TRUE)
              \/ trans' = trans
        BY <2>3, Zenon DEF Sent
    <3>5. disk' \in [Server -> [label : Version, data : SUBSET Items]]
      <4> DEFINE r == [label |-> version[s], data |-> disk[s].data]
                 S == [label : Version, data : SUBSET Items]
      <4>1. r \in S /\ disk \in [Server -> S] /\ (disk' = [disk EXCEPT ![t] = r] \/ disk' = disk)
          BY <2>2, <3>1, <3>2, Zenon
      <4> HIDE DEF r, S
      <4>2. disk' \in [Server -> S]
          BY <4>1
      <4> QED
          BY <4>2 DEF S
    <3>6. version' \in [Server -> Version]
        BY <2>2, <3>3
    <3>7. /\ trans' \in [Server -> TransRecord]
          /\ \A u \in Server : trans'[u].phase = trans[u].phase /\ trans'[u].sent = trans[u].sent
        BY <2>2, <3>4 DEF TransIs
    <3> QED
        BY <3>5, <3>6, <3>7
  <2>5. /\ known' = known \/ known' = [known EXCEPT ![s][t] = version[s]]
        /\ currentDB' = currentDB \/ currentDB' = [currentDB EXCEPT ![s] = @ \cup {t}]
      BY <1>14, SendDoes, Zenon
  <2>6. known' \in [Server -> [Server -> Version]] /\ currentDB' \in [Server -> SUBSET Server]
    <3>1. known' \in [Server -> [Server -> Version]]
      <4>1. version[s] \in Version /\ known \in [Server -> [Server -> Version]]
          BY DEF Types
      <4>2. known' = known \/ known' = [known EXCEPT ![s][t] = version[s]]
          BY <2>5
      <4> QED
          BY <4>1, <4>2
    <3>2. currentDB' \in [Server -> SUBSET Server]
      <4>1. currentDB \in [Server -> SUBSET Server]
          BY DEF Types
      <4>2. currentDB' = currentDB \/ currentDB' = [currentDB EXCEPT ![s] = @ \cup {t}]
          BY <2>5
      <4> QED
          BY <4>1, <4>2
    <3> QED
        BY <3>1, <3>2
  <2>7. thread' \in [Server -> ThreadRecord]
      BY <1>14, SendDoes DEF ThreadIs
  <2>8. UNCHANGED <<site, state, epochTime, tidCounter, clock, acked, aborted>>
      BY <1>14, SendDoes
  <2> QED
      BY <2>1, <2>4, <2>6, <2>7, <2>8 DEF Types
<1>15. ASSUME NEW s \in Server, SendEnd(s) PROVE Types'
  <2>1. state' \in [Server -> SUBSET Flags]
    <3>1. state \in [Server -> SUBSET Flags] /\ "SENTDB" \in Flags
        BY DEF Types, Flags
    <3> QED
        BY <1>15, <3>1, SendEndDoes
  <2>2. thread' \in [Server -> ThreadRecord]
      BY <1>15, SendEndDoes DEF ThreadIs
  <2> QED
      BY <1>15, <2>1, <2>2, SendEndDoes DEF Types
<1>16. ASSUME NEW s \in Server, NEW t \in Server, Contact(s, t) PROVE Types'
  <2>1. /\ disk \in [Server -> [label : Version, data : SUBSET Items]]
        /\ version \in [Server -> Version] /\ state \in [Server -> SUBSET Flags]
        /\ currentDB \in [Server -> SUBSET Server]
      BY DEF Types
  <2> HIDE DEF recVars, dbVars, tidVars, clientVars
  <2>2. current[t].tid.epoch = trans[s].tid.epoch => current[t].tid.counter <= trans[s].tid.counter
      BY <1>16, ContactLast
  <2>3. PICK good \in BOOLEAN, ok \in SUBSET Server : Called(s, t, good, ok)
      BY <1>16, <2>2, ContactDoes
  <2>4. /\ current' \in [Server -> CurrentRecord]
        /\ UNCHANGED <<site, thread, known, epochTime, tidCounter, clock, acked, aborted>>
      BY <1>16, <2>2, ContactDoes
  <2>5. /\ trans' \in [Server -> TransRecord]
        /\ \A u \in Server : trans'[u].phase = trans[u].phase /\ trans'[u].sent = trans[u].sent
      BY <2>3 DEF Called, TransIs
  <2>6. currentDB' \in [Server -> SUBSET Server] /\ state' \in [Server -> SUBSET Flags]
      BY <2>1, <2>3 DEF Called
  <2>7. version' \in [Server -> Version]
    <3>1. [epoch |-> version[t].epoch, counter |-> version[t].counter + 1] \in Version
        BY <2>1 DEF Version
    <3> QED
        BY <2>1, <2>3, <3>1 DEF Called, Installed
  <2>8. disk' \in [Server -> [label : Version, data : SUBSET Items]]
    <3>1. disk[t].data \cup current[t].data \in SUBSET Items /\ version'[t] \in Version
        BY <2>7, TypeFacts
    <3> QED
        BY <2>1, <2>3, <3>1 DEF Called, Installed
  <2> QED
      BY <2>4, <2>5, <2>6, <2>7, <2>8 DEF Types
<1>17. ASSUME NEW s \in Server, Begin(s) PROVE Types'
  <2>1. tidCounter' \in [Server -> 0 .. MaxTid]
    <3>1. tidCounter \in [Server -> 0 .. MaxTid] /\ MaxTid \in Nat
        BY ReplicaAssumption DEF Types
    <3>2. tidCounter[s] + 2 <= MaxTid /\ tidCounter' = [tidCounter EXCEPT ![s] = @ + 2]
        BY <1>17 DEF Begin
    <3> QED
        BY <3>1, <3>2
  <2>2. /\ trans' \in [Server -> TransRecord] /\ trans'[s].phase = "open"
        /\ \A u \in Server : u # s => trans'[u] = trans[u]
        /\ UNCHANGED <<site, disk, version, current, state, thread, known, currentDB,
                          epochTime, clock, acked, aborted>>
      BY <1>17, BeginDoes
  <2> QED
      BY <2>1, <2>2 DEF Types
<1>18. ASSUME NEW s \in Server, Update(s) PROVE Types'
    BY <1>18, UpdateDoes DEF TransIs, Types
<1>19. ASSUME NEW s \in Server, UpdateEnd(s) PROVE Types'
    BY <1>19, UpdateEndDoes DEF TransIs, Types
<1>20. ASSUME NEW s \in Server, UndoEnd(s) PROVE Types'
    BY <1>20, UndoEndDoes DEF TransIs, Types
<1>. DEFINE Gone(s) == trans' \in [Server -> TransRecord] /\ aborted' \subseteq Tid
         /\ \A u \in Server : trans'[u].phase = "update" => trans'[u] = trans[u]
<1>27. ASSUME NEW s \in Server, Given(s) PROVE Gone(s)
    BY <1>27, TypeFacts, Constants DEF Given, Types, NoTrans
<1>21. ASSUME NEW s \in Server, AbortTrans(s) PROVE Types'
    BY <1>21, <1>27, AbortTransDoes DEF TransIs, Types
<1>22. ASSUME NEW s \in Server, AbortEnd(s) PROVE Types'
    BY <1>22, <1>27, AbortEndDoes DEF Types
<1>23. ASSUME NEW s \in Server, EndTrans(s) PROVE Types'
    BY <1>23, <1>27, EndTransDoes DEF TransIs, Types
<1>24. ASSUME NEW s \in Server, LocalCommit(s) PROVE Types'
  <2>1. /\ disk \in [Server -> [label : Version, data : SUBSET Items]]
        /\ version \in [Server -> Version]
      BY DEF Types
  <2> DEFINE v == [epoch |-> version[s].epoch, counter |-> version[s].counter + 1]
             d == disk[s].data \cup Parts(trans[s].tid)
  <2>2. v \in Version /\ d \in SUBSET Items
      BY <2>1, TypeFacts, PartsType DEF Version
  <2>3. \/ UNCHANGED <<disk, version>>
        \/ /\ version' = [version EXCEPT ![s] = v]
           /\ disk' = [disk EXCEPT ![s] = [label |-> v, data |-> d]]
      BY <1>24, LocalCommitDoes, Zenon
  <2> HIDE DEF v, d
  <2>4. /\ disk' \in [Server -> [label : Version, data : SUBSET Items]]
        /\ version' \in [Server -> Version]
      BY <2>1, <2>2, <2>3
  <2>5. /\ trans[s].phase = "commit"
        /\ trans' \in [Server -> TransRecord]
        /\ \A u \in Server : trans'[u].phase = trans[u].phase /\ trans'[u].sent = trans[u].sent
        /\ UNCHANGED <<site, current, state, thread, known, currentDB,
                          epochTime, tidCounter, clock, acked, aborted>>
      BY <1>24, LocalCommitDoes DEF TransIs
  <2> QED
      BY <2>4, <2>5 DEF Types
<1>25. ASSUME NEW s \in Server, CommitEnd(s) PROVE Types'
    BY <1>25, CommitEndDoes DEF TransIs, Types
<1>26. ASSUME NEW s \in Server, ReleaseEnd(s) PROVE Types'
  <2>1. trans \in [Server -> TransRecord] /\ state \in [Server -> SUBSET Flags]
      BY DEF Types
  <2>2. /\ trans' = [trans EXCEPT ![s] = NoTrans]
        /\ UNCHANGED <<disk, version, current, thread, known, currentDB,
                          epochTime, tidCounter, clock, aborted>>
      BY <1>26, ReleaseEndDoes
  <2>3. site' \in Server \cup {NoOne} /\ state' \in [Server -> SUBSET Flags]
    <3>1. site \in Server \cup {NoOne}
        BY DEF Types
    <3> QED
        BY <1>26, <2>1, <3>1, ReleaseEndDoes
  <2>4. acked' \subseteq Tid
    <3>1. acked \subseteq Tid /\ trans[s].tid \in Tid
        BY TypeFacts DEF Types
    <3> QED
        BY <1>26, <3>1, ReleaseEndDoes
  <2>5. trans' \in [Server -> TransRecord] /\ trans'[s].phase = "none"
        /\ \A u \in Server : u # s => trans'[u] = trans[u]
      BY <2>1, <2>2, Constants DEF NoTrans
  <2> QED
      BY <2>2, <2>3, <2>4, <2>5 DEF Types
<1> QED
    BY <1>1, <1>2, <1>3, <1>4, <1>5, <1>6, <1>7, <1>8, <1>9, <1>10, <1>11, <1>12, <1>13, <1>14,
       <1>15, <1>16, <1>17, <1>18, <1>19, <1>20, <1>21, <1>22, <1>23, <1>24, <1>25, <1>26
           DEF Next, Election, Recovery, Transact

-----------------------------------------------------------------------------
(* Control is kept by the election, by restarts and by transactions.       *)

\* But for the election, a step changes what one server does, and gives nobody a mandate.
OnlyAt(s) ==
    /\ clock' = clock
    /\ site' = site \/ (site = s /\ site' = NoOne)
    /\ \A u \in Server : u # s =>
          /\ thread'[u] = thread[u] /\ state'[u] = state[u]
          /\ epochTime'[u] = epochTime[u] /\ currentDB'[u] = currentDB[u]

LEMMA ControlFrame ==
    ASSUME Types, Control, NEW s \in Server, OnlyAt(s), Acts(s)' => Acts(s),
           ActsOK(s)', StateOK(s)', LoopsOK(s)'
    PROVE  Control'
<1>0. NoOne \notin Server
    BY ReplicaAssumption
<1>1. ASSUME NEW u \in Server, u # s
      PROVE  /\ Acts(u)' = Acts(u) /\ Leader(u)' = Leader(u)
             /\ ActsOK(u)' /\ StateOK(u)' /\ LoopsOK(u)'
  <2>1. /\ clock' = clock /\ thread'[u] = thread[u] /\ state'[u] = state[u]
        /\ epochTime'[u] = epochTime[u] /\ currentDB'[u] = currentDB[u]
        /\ (site' = u) = (site = u)
      BY <1>0, <1>1 DEF OnlyAt
  <2>2. ActsOK(u) /\ StateOK(u) /\ LoopsOK(u)
      BY DEF Control
  <2>3. Leader(u)' = Leader(u)
      BY <2>1 DEF Leader
  <2>4. Acts(u)' = Acts(u) /\ Unlabelled(u)' = Unlabelled(u)
      BY <2>1, <2>3 DEF Acts, Unlabelled
  <2>5. ActsOK(u)'
      BY <2>1, <2>2, <2>3, <2>4 DEF ActsOK
  <2>6. StateOK(u)'
      BY <2>1, <2>2, <2>3 DEF StateOK
  <2>7. LoopsOK(u)'
      BY <2>1, <2>2 DEF LoopsOK
  <2> QED
      BY <2>3, <2>4, <2>5, <2>6, <2>7
<1>2. OneActs'
    BY <1>1 DEF Control, OneActs
<1> QED
    BY <1>1, <1>2 DEF Control

\* The steps of transactions and beacons.
LEMMA ControlStays ==
    ASSUME Types, Control, NEW s \in Server,
           UNCHANGED <<site, thread, epochTime, clock>>,
           state' = state \/ state' = [state EXCEPT ![s] = @ \ {"SENTDB"}],
           \A u \in Server : u # s => currentDB'[u] = currentDB[u],
           currentDB'[s] \subseteq currentDB[s]
    PROVE  Control'
<1>1. /\ state'[s] \in {state[s], state[s] \ {"SENTDB"}}
      /\ \A u \in Server : u # s => state'[u] = state[u]
    BY DEF Types
<1>2. OnlyAt(s)
    BY <1>1 DEF OnlyAt
<1>3. Leader(s)' = Leader(s) /\ Acts(s)' = Acts(s) /\ Unlabelled(s)' = Unlabelled(s)
    BY DEF Leader, Acts, Unlabelled
<1>4. ActsOK(s) /\ StateOK(s) /\ LoopsOK(s)
    BY DEF Control
<1>5. ActsOK(s)'
    BY <1>1, <1>3, <1>4 DEF ActsOK
<1>6. StateOK(s)'
    BY <1>1, <1>3, <1>4 DEF StateOK
<1>7. LoopsOK(s)'
    BY <1>4 DEF LoopsOK
<1> QED
    BY <1>2, <1>3, <1>5, <1>6, <1>7, ControlFrame

LEMMA ControlElect ==
    ASSUME Types, Control, NEW s \in Server, Elect(s) PROVE Control'
<1>1. /\ site = NoOne /\ clock < MaxEpoch /\ site' = s /\ clock' = clock + 1
      /\ state' = [u \in Server |-> {}] /\ currentDB[s] = {}
      /\ UNCHANGED <<thread, epochTime, currentDB>>
      /\ \A u \in Server : thread[u].at = "asleep"
    BY DEF Elect, Elected, Settled, tidVars
<1>2. clock \in Nat \ {0} /\ MaxEpoch \in Nat /\ epochTime \in [Server -> 0 .. MaxEpoch]
    BY ReplicaAssumption DEF Types
<1>3. \A u \in Server : epochTime[u] <= clock
    BY DEF Control, ActsOK
<1>4. \A u \in Server : ~Leader(u)' /\ (Acts(u)' => u = s)
    BY <1>1, <1>2, <1>3 DEF Leader, Acts
<1>5. OneActs'
    BY <1>4 DEF OneActs
<1>6. ASSUME NEW u \in Server PROVE ActsOK(u)'
  <2>1. ~Leader(u)' /\ (Acts(u)' => u = s)
      BY <1>4
  <2>2. epochTime'[u] <= clock' /\ clock' \in 2 .. MaxEpoch
      BY <1>1, <1>2, <1>3
  <2>3. thread'[u].at = "asleep" /\ state'[u] = {} /\ currentDB'[s] = {}
      BY <1>1
  <2> QED
      BY <2>1, <2>2, <2>3 DEF ActsOK, Unlabelled
<1>7. ASSUME NEW u \in Server PROVE StateOK(u)'
    BY <1>1, <1>4 DEF StateOK
<1>8. ASSUME NEW u \in Server PROVE LoopsOK(u)'
    BY <1>1 DEF Control, LoopsOK
<1> QED
    BY <1>5, <1>6, <1>7, <1>8 DEF Control

LEMMA ControlLapse ==
    ASSUME Types, Control, NEW s \in Server, site = s, Lapse PROVE Control'
<1>1. site' = NoOne /\ state' = [state EXCEPT ![s] = {}]
      /\ UNCHANGED <<thread, epochTime, clock, currentDB>>
    BY DEF Lapse, tidVars
<1>2. state'[s] = {} /\ \A u \in Server : u # s => state'[u] = state[u]
    BY <1>1 DEF Types
<1>3. OnlyAt(s)
    BY <1>1, <1>2 DEF OnlyAt
<1>4. Leader(s)' = Leader(s) /\ (Acts(s)' => Acts(s)) /\ site' # s
    BY <1>1, ReplicaAssumption DEF Leader, Acts
<1>5. ActsOK(s) /\ LoopsOK(s)
    BY <1>1 DEF Control
<1>6. ActsOK(s)'
    BY <1>1, <1>2, <1>4, <1>5 DEF ActsOK, Unlabelled
<1>7. StateOK(s)'
    BY <1>4 DEF StateOK
<1>8. LoopsOK(s)'
    BY <1>1, <1>5 DEF LoopsOK
<1> QED
    BY <1>1, <1>3, <1>4, <1>6, <1>7, <1>8, ControlFrame

LEMMA ControlRestart ==
    ASSUME Types, Control, NEW s \in Server, Restart(s) PROVE Control'
<1>1. /\ site' = IF site = s THEN NoOne ELSE site
      /\ state' = [state EXCEPT ![s] = {}] /\ thread' = [thread EXCEPT ![s] = Asleep]
      /\ currentDB' = [currentDB EXCEPT ![s] = {}] /\ epochTime' = [epochTime EXCEPT ![s] = 0]
      /\ clock' = clock
    BY DEF Restart
<1>2. /\ state'[s] = {} /\ thread'[s] = Asleep /\ currentDB'[s] = {} /\ epochTime'[s] = 0
      /\ \A u \in Server : u # s => /\ state'[u] = state[u] /\ thread'[u] = thread[u]
                                    /\ currentDB'[u] = currentDB[u] /\ epochTime'[u] = epochTime[u]
    BY <1>1 DEF Types
<1>3. clock \in Nat \ {0} /\ site' # s
    BY <1>1, ReplicaAssumption DEF Types
<1>4. OnlyAt(s)
    BY <1>1, <1>2 DEF OnlyAt
<1>5. ~Leader(s)' /\ ~Acts(s)'
    BY <1>1, <1>2, <1>3 DEF Leader, Acts, Asleep
<1>6. ActsOK(s)'
    BY <1>1, <1>2, <1>3, <1>5 DEF ActsOK, Unlabelled, Asleep
<1>7. StateOK(s)'
    BY <1>3 DEF StateOK
<1>8. LoopsOK(s)'
    BY <1>2 DEF LoopsOK, Asleep
<1> QED
    BY <1>4, <1>5, <1>6, <1>7, <1>8, ControlFrame

LEMMA ControlReleaseEnd ==
    ASSUME Types, Control, NEW s \in Server, ReleaseEnd(s) PROVE Control'
<1>1. UNCHANGED <<thread, currentDB, epochTime, clock>>
    BY ReleaseEndDoes
<1>2. CASE UNCHANGED <<site, state>>
    BY <1>1, <1>2, ControlStays
<1>3. CASE site' = (IF site = s THEN NoOne ELSE site) /\ state' = [state EXCEPT ![s] = {}]
  <2>1. state'[s] = {} /\ \A u \in Server : u # s => state'[u] = state[u]
      BY <1>3 DEF Types
  <2>2. site' # s
      BY <1>3, ReplicaAssumption
  <2>3. OnlyAt(s)
      BY <1>1, <1>3, <2>1 DEF OnlyAt
  <2>4. Leader(s)' = Leader(s) /\ (Acts(s)' => Acts(s))
      BY <1>1, <2>2 DEF Leader, Acts
  <2>5. ActsOK(s) /\ LoopsOK(s)
      BY DEF Control
  <2>6. ActsOK(s)'
      BY <1>1, <2>1, <2>4, <2>5 DEF ActsOK, Unlabelled
  <2>7. StateOK(s)'
      BY <2>2 DEF StateOK
  <2>8. LoopsOK(s)'
      BY <1>1, <2>5 DEF LoopsOK
  <2> QED
      BY <2>3, <2>4, <2>6, <2>7, <2>8, ControlFrame
<1> QED
    BY <1>2, <1>3, ReleaseEndDoes

-----------------------------------------------------------------------------
(* Control is kept by recovery.                                            *)

LEMMA ControlWake ==
    ASSUME Types, Control, NEW s \in Server, Wake(s)
    PROVE  Control' /\ ~("FOUNDDB" \in state[s] /\ "HAVEDB" \notin state[s])
<1>1. ActsOK(s) /\ StateOK(s) /\ LoopsOK(s)
    BY DEF Control
<1>2. thread[s].at = "asleep" /\ site = s /\ UNCHANGED <<site, state, epochTime, clock, currentDB>>
    BY WakeDoes
<1>3. ~("FOUNDDB" \in state[s] /\ "HAVEDB" \notin state[s])
    BY <1>1, <1>2 DEF StateOK
<1>4. \/ "FOUNDDB" \notin state[s] /\ ThreadIs(s, "find", Others(s), {}, NoOne)
      \/ /\ "FOUNDDB" \in state[s] /\ "HAVEDB" \in state[s]
         /\ ThreadIs(s, "send", {}, {}, NoOne)
    BY <1>3, WakeDoes, Zenon
<1>5. OnlyAt(s) /\ Acts(s) /\ Leader(s)' = Leader(s)
    BY <1>2, <1>4 DEF OnlyAt, ThreadIs, Acts, Leader
<1>6. "FOUNDDB" \in state[s] <=> Leader(s)
    BY <1>1, <1>2 DEF StateOK
<1>7. ActsOK(s)'
    BY <1>1, <1>2, <1>4, <1>5, <1>6 DEF ActsOK, ThreadIs, Unlabelled
<1>8. StateOK(s)'
    BY <1>1, <1>2, <1>4, <1>5, <1>6 DEF StateOK, ThreadIs
<1>9. LoopsOK(s)'
    BY <1>4 DEF LoopsOK, ThreadIs
<1> QED
    BY <1>3, <1>5, <1>7, <1>8, <1>9, ControlFrame

LEMMA ControlFind ==
    ASSUME Types, Control, NEW s \in Server, NEW t \in Server, Find(s, t) PROVE Control'
<1>1. ActsOK(s) /\ StateOK(s) /\ LoopsOK(s)
    BY DEF Control
<1>2. /\ thread[s].at = "find" /\ t \in thread[s].todo
      /\ UNCHANGED <<site, state, epochTime, clock, currentDB>>
    BY FindDoes
<1>3. t \in Others(s)
    BY <1>1, <1>2 DEF LoopsOK
<1>4. \E heard \in SUBSET Others(s), best \in Others(s) \cup {NoOne} :
          /\ ThreadIs(s, "find", thread[s].todo \ {t}, heard, best)
          /\ heard \cap (thread[s].todo \ {t}) = {} /\ best \in heard \cup {NoOne}
  <2>1. /\ thread[s].heard \cup {t} \in SUBSET Others(s) /\ thread[s].heard \in SUBSET Others(s)
        /\ thread[s].best \in Others(s) \cup {NoOne}
        /\ (thread[s].heard \cup {t}) \cap (thread[s].todo \ {t}) = {}
        /\ thread[s].heard \cap (thread[s].todo \ {t}) = {}
        /\ thread[s].best \in thread[s].heard \cup {NoOne}
      BY <1>1, <1>2, <1>3 DEF LoopsOK
  <2>2. CASE ThreadIs(s, "find", thread[s].todo \ {t}, thread[s].heard \cup {t},
                       IF Newer(disk[t].label, BestVersion(s)) THEN t ELSE thread[s].best)
      BY <1>3, <2>1, <2>2
  <2>3. CASE ThreadIs(s, "find", thread[s].todo \ {t}, thread[s].heard, thread[s].best)
      BY <2>1, <2>3
  <2> QED
      BY <2>2, <2>3, FindDoes, Zenon
<1>5. PICK heard \in SUBSET Others(s), best \in Others(s) \cup {NoOne} :
          /\ ThreadIs(s, "find", thread[s].todo \ {t}, heard, best)
          /\ heard \cap (thread[s].todo \ {t}) = {} /\ best \in heard \cup {NoOne}
    BY <1>4
<1>6. OnlyAt(s) /\ Acts(s)' = Acts(s) /\ Leader(s)' = Leader(s)
    BY <1>2, <1>5 DEF OnlyAt, ThreadIs, Acts, Leader
<1>7. ActsOK(s)'
    BY <1>1, <1>2, <1>5, <1>6 DEF ActsOK, ThreadIs, Unlabelled
<1>8. StateOK(s)'
    BY <1>1, <1>2, <1>5, <1>6 DEF StateOK, ThreadIs
<1>9. LoopsOK(s)'
    BY <1>1, <1>5 DEF LoopsOK, ThreadIs
<1> QED
    BY <1>6, <1>7, <1>8, <1>9, ControlFrame

\* A database newer than one's own is somebody's.
LEMMA BestIsSomebody ==
    ASSUME Types, NEW s \in Server, Newer(BestVersion(s), version[s])
    PROVE  thread[s].best # NoOne
BY TypeFacts DEF BestVersion, Newer, Zero, Version

LEMMA ControlFindEnd ==
    ASSUME Types, Control, NEW s \in Server, FindEnd(s) PROVE Control'
<1>1. ActsOK(s) /\ StateOK(s) /\ LoopsOK(s) /\ state \in [Server -> SUBSET Flags]
    BY ThreadFacts DEF Control
<1>2. thread[s].at = "find" /\ UNCHANGED <<site, epochTime, clock, currentDB>>
    BY FindEndDoes
<1>3. ~Leader(s) /\ Acts(s)
    BY <1>1, <1>2 DEF ActsOK, Acts
<1>4. \/ state'[s] = state[s] \ {"FOUNDDB"} /\ ThreadIs(s, "asleep", {}, {}, NoOne)
      \/ /\ Newer(BestVersion(s), version[s])
         /\ state'[s] = state[s] \cup {"FOUNDDB"}
         /\ ThreadIs(s, "fetch", {}, {}, thread[s].best)
      \/ /\ state'[s] = state[s] \cup {"FOUNDDB", "HAVEDB"}
         /\ ThreadIs(s, "label", {}, {}, NoOne)
    BY <1>1, FindEndDoes
<1>5. \A u \in Server : u # s => thread'[u] = thread[u] /\ state'[u] = state[u]
    BY <1>1, FindEndDoes DEF ThreadIs
<1>6. OnlyAt(s) /\ ~Leader(s)'
    BY <1>2, <1>3, <1>5 DEF OnlyAt, Leader
<1>7. ActsOK(s)'
  <2>1. ~("LABELDB" \in state[s]) /\ epochTime[s] <= clock /\ clock \in 2 .. MaxEpoch
            /\ currentDB[s] = {}
      BY <1>1, <1>3 DEF ActsOK, Unlabelled
  <2>2. ~("LABELDB" \in state'[s]) /\ thread'[s].at \notin {"send", "sending"}
      BY <1>4, <2>1 DEF ThreadIs
  <2> QED
      BY <1>2, <1>6, <2>1, <2>2 DEF ActsOK
<1>8. StateOK(s)'
    BY <1>1, <1>2, <1>3, <1>4, <1>6 DEF StateOK, ThreadIs
<1>9. LoopsOK(s)'
    BY <1>1, <1>4, BestIsSomebody DEF LoopsOK, ThreadIs
<1> QED
    BY <1>3, <1>6, <1>7, <1>8, <1>9, ControlFrame

LEMMA ControlFetchStart ==
    ASSUME Types, Control, NEW s \in Server, FetchStart(s) PROVE Control'
<1>1. ActsOK(s) /\ StateOK(s) /\ LoopsOK(s)
    BY DEF Control
<1>2. /\ thread[s].at = "fetch" /\ ThreadIs(s, "fetching", {}, {}, thread[s].best)
      /\ UNCHANGED <<site, state, epochTime, clock, currentDB>>
    BY FetchStartDoes
<1>3. OnlyAt(s) /\ Acts(s) /\ Acts(s)' /\ Leader(s)' = Leader(s)
    BY <1>2 DEF OnlyAt, ThreadIs, Acts, Leader
<1>4. ActsOK(s)'
    BY <1>1, <1>2, <1>3 DEF ActsOK, ThreadIs, Unlabelled
<1>5. StateOK(s)'
    BY <1>1, <1>2, <1>3 DEF StateOK, ThreadIs
<1>6. LoopsOK(s)'
    BY <1>1, <1>2 DEF LoopsOK, ThreadIs
<1> QED
    BY <1>3, <1>4, <1>5, <1>6, ControlFrame

LEMMA ControlFetchEnd ==
    ASSUME Types, Control, NEW s \in Server, FetchEnd(s) PROVE Control'
<1>1. ActsOK(s) /\ StateOK(s) /\ LoopsOK(s) /\ state \in [Server -> SUBSET Flags]
    BY ThreadFacts DEF Control
<1>2. /\ thread[s].at = "fetching" /\ ThreadIs(s, "label", {}, {}, NoOne)
      /\ UNCHANGED <<site, epochTime, clock, currentDB>>
    BY FetchEndDoes
<1>3. /\ state'[s] = state[s] \cup {"HAVEDB"}
      /\ \A u \in Server : u # s => state'[u] = state[u]
    BY <1>1, FetchEndDoes
<1>4. OnlyAt(s) /\ Acts(s) /\ Acts(s)' /\ Leader(s)' = Leader(s)
    BY <1>2, <1>3 DEF OnlyAt, ThreadIs, Acts, Leader
<1>5. ActsOK(s)'
    BY <1>1, <1>2, <1>3, <1>4 DEF ActsOK, ThreadIs, Unlabelled
<1>6. StateOK(s)'
  <2>1. ~Leader(s)
      BY <1>1, <1>2 DEF ActsOK
  <2>2. site = s => "FOUNDDB" \in state[s]
      BY <1>1, <1>2 DEF StateOK
  <2> QED
      BY <1>2, <1>3, <1>4, <2>1, <2>2 DEF StateOK, ThreadIs
<1>7. LoopsOK(s)'
    BY <1>2 DEF LoopsOK, ThreadIs
<1> QED
    BY <1>4, <1>5, <1>6, <1>7, ControlFrame

LEMMA ControlLabel ==
    ASSUME Types, Control, NEW s \in Server, Label(s) PROVE Control'
<1>1. ActsOK(s) /\ StateOK(s) /\ LoopsOK(s) /\ state \in [Server -> SUBSET Flags]
    BY ThreadFacts DEF Control
<1>2. /\ thread[s].at = "label" /\ ThreadIs(s, "send", {}, {}, NoOne)
      /\ UNCHANGED <<site, clock, currentDB>>
    BY LabelDoes
<1>3. /\ state'[s] = state[s] \cup {"LABELDB"} /\ epochTime'[s] = clock
      /\ \A u \in Server : u # s => state'[u] = state[u] /\ epochTime'[u] = epochTime[u]
  <2>1. epochTime \in [Server -> 0 .. MaxEpoch]
      BY DEF Types
  <2>2. /\ epochTime' = [epochTime EXCEPT ![s] = clock]
        /\ state' = [state EXCEPT ![s] = @ \cup {"LABELDB"}]
      BY LabelDoes
  <2> QED
      BY <1>1, <2>1, <2>2
<1>4. OnlyAt(s) /\ Acts(s) /\ Leader(s)'
    BY <1>2, <1>3 DEF OnlyAt, ThreadIs, Acts, Leader
<1>5. ActsOK(s)'
  <2>1. clock \in 2 .. MaxEpoch
      BY <1>1, <1>4 DEF ActsOK
  <2> QED
      BY <1>2, <1>3, <1>4, <2>1 DEF ActsOK, ThreadIs, Unlabelled
<1>6. StateOK(s)'
    BY <1>1, <1>2, <1>3, <1>4 DEF StateOK, ThreadIs
<1>7. LoopsOK(s)'
    BY <1>2 DEF LoopsOK, ThreadIs
<1> QED
    BY <1>4, <1>5, <1>6, <1>7, ControlFrame

LEMMA ControlSendStart ==
    ASSUME Types, Control, NEW s \in Server, SendStart(s) PROVE Control'
<1>1. ActsOK(s) /\ StateOK(s)
    BY DEF Control
<1>2. /\ thread[s].at = "send" /\ ThreadIs(s, "sending", Others(s), {}, NoOne)
      /\ UNCHANGED <<site, state, epochTime, clock, currentDB>>
    BY SendStartDoes
<1>3. OnlyAt(s) /\ Acts(s) /\ Acts(s)' /\ Leader(s)' = Leader(s)
    BY <1>2 DEF OnlyAt, ThreadIs, Acts, Leader
<1>4. ActsOK(s)'
    BY <1>1, <1>2, <1>3 DEF ActsOK, ThreadIs, Unlabelled
<1>5. StateOK(s)'
    BY <1>1, <1>2, <1>3 DEF StateOK, ThreadIs
<1>6. LoopsOK(s)'
    BY <1>2 DEF LoopsOK, ThreadIs
<1> QED
    BY <1>3, <1>4, <1>5, <1>6, ControlFrame

LEMMA ControlSend ==
    ASSUME Types, Control, NEW s \in Server, NEW t \in Server, Send(s, t) PROVE Control'
<1>1. ActsOK(s) /\ StateOK(s) /\ LoopsOK(s)
    BY DEF Control
<1>2. /\ thread[s].at = "sending" /\ t \in thread[s].todo
      /\ UNCHANGED <<site, state, epochTime, clock>>
    BY SendDoes
<1>3. \E heard \in SUBSET Others(s) :
          ThreadIs(s, "sending", thread[s].todo \ {t}, heard, thread[s].best)
  <2>1. thread[s].heard \cup {t} \in SUBSET Others(s) /\ thread[s].heard \in SUBSET Others(s)
      BY <1>1, <1>2 DEF LoopsOK
  <2> QED
      BY <2>1, SendDoes, Zenon
<1>4. PICK heard \in SUBSET Others(s) :
          ThreadIs(s, "sending", thread[s].todo \ {t}, heard, thread[s].best)
    BY <1>3
<1>5. currentDB' = currentDB \/ currentDB' = [currentDB EXCEPT ![s] = @ \cup {t}]
    BY SendDoes, Zenon
<1>6. \A u \in Server : u # s => currentDB'[u] = currentDB[u]
    BY <1>5 DEF Types
<1>7. OnlyAt(s) /\ Acts(s) /\ Acts(s)' /\ Leader(s)' = Leader(s) /\ Leader(s)
    BY <1>1, <1>2, <1>4, <1>6 DEF OnlyAt, ThreadIs, Acts, Leader, ActsOK
<1>8. ActsOK(s)'
    BY <1>1, <1>2, <1>4, <1>7 DEF ActsOK, ThreadIs, Unlabelled
<1>9. StateOK(s)'
    BY <1>1, <1>2, <1>4, <1>7 DEF StateOK, ThreadIs
<1>10. LoopsOK(s)'
    BY <1>1, <1>4 DEF LoopsOK, ThreadIs
<1> QED
    BY <1>7, <1>8, <1>9, <1>10, ControlFrame

LEMMA ControlSendEnd ==
    ASSUME Types, Control, NEW s \in Server, SendEnd(s) PROVE Control'
<1>1. ActsOK(s) /\ StateOK(s) /\ LoopsOK(s) /\ state \in [Server -> SUBSET Flags]
    BY ThreadFacts DEF Control
<1>2. /\ thread[s].at = "sending" /\ ThreadIs(s, "asleep", {}, {}, NoOne)
      /\ UNCHANGED <<site, epochTime, clock, currentDB>>
    BY SendEndDoes
<1>3. /\ state'[s] \in {state[s], state[s] \cup {"SENTDB"}}
      /\ \A u \in Server : u # s => state'[u] = state[u]
    BY <1>1, SendEndDoes
<1>4. OnlyAt(s) /\ Acts(s) /\ Leader(s) /\ Leader(s)'
    BY <1>1, <1>2, <1>3 DEF OnlyAt, ThreadIs, Acts, Leader, ActsOK
<1>5. ActsOK(s)'
    BY <1>1, <1>2, <1>3, <1>4 DEF ActsOK, ThreadIs, Unlabelled
<1>6. StateOK(s)'
    BY <1>1, <1>2, <1>3, <1>4 DEF StateOK, ThreadIs
<1>7. LoopsOK(s)'
    BY <1>2 DEF LoopsOK, ThreadIs
<1> QED
    BY <1>4, <1>5, <1>6, <1>7, ControlFrame

LEMMA ControlContact ==
    ASSUME Types, Control, NEW s \in Server, NEW t \in Server, Contact(s, t) PROVE Control'
<1>1. /\ UNCHANGED <<site, thread, epochTime, clock>>
      /\ \E good : Contacted(s, t, good)
    BY Zenon DEF Contact, tidVars
<1>2. PICK good : Contacted(s, t, good)
    BY <1>1
<1>3. currentDB' = currentDB \/ currentDB' = [currentDB EXCEPT ![s] = @ \ {t}]
    BY <1>2, Zenon DEF Contacted
<1>4. state' = state \/ state' = [state EXCEPT ![s] = @ \ {"SENTDB"}]
    BY <1>2, Zenon DEF Contacted
<1>5. /\ currentDB'[s] \subseteq currentDB[s]
      /\ \A u \in Server : u # s => currentDB'[u] = currentDB[u]
    BY <1>3 DEF Types
<1> QED
    BY <1>1, <1>4, <1>5, ControlStays, Zenon

\* No step gives two servers the last mandate, or lets a pass skip a stage.
LEMMA ControlStep ==
    ASSUME Types, Control, [Next]_vars PROVE Control'
<1>1. CASE UNCHANGED vars
    BY <1>1 DEF vars, recVars, tidVars, Control, OneActs, ActsOK, StateOK, LoopsOK, Acts,
                Leader, Unlabelled
<1>2. CASE Lapse
    BY <1>2, ControlLapse DEF Lapse, Types
<1>3. ASSUME NEW s \in Server, Election(s) PROVE Control'
  <2>1. ASSUME NEW t \in Server, Beacon(s, t) PROVE Control'
      BY <2>1, ControlStays DEF Beacon, recVars, tidVars
  <2> QED
      BY <1>3, <2>1, ControlElect DEF Election
<1>4. ASSUME NEW s \in Server, Recovery(s) PROVE Control'
  <2>1. ASSUME NEW t \in Server, Check(s, t) PROVE Control'
    <3>1. /\ UNCHANGED <<site, thread, epochTime, clock>>
          /\ state' = [state EXCEPT ![s] = @ \ {"SENTDB"}]
          /\ currentDB' = [currentDB EXCEPT ![s] = @ \ {t}]
        BY <2>1 DEF Check, tidVars
    <3>2. /\ currentDB'[s] \subseteq currentDB[s]
          /\ \A u \in Server : u # s => currentDB'[u] = currentDB[u]
        BY <3>1 DEF Types
    <3> QED
        BY <3>1, <3>2, ControlStays
  <2> QED
      BY <1>4, <2>1, ControlWake, ControlFindEnd, ControlFetchStart, ControlFetchEnd, ControlLabel,
         ControlSendStart, ControlSendEnd, ControlFind, ControlSend DEF Recovery
<1>5. ASSUME NEW s \in Server, Transact(s) PROVE Control'
  <2>1. ASSUME UNCHANGED <<site, thread, epochTime, clock, state, currentDB>> PROVE Control'
      BY <2>1, ControlStays
  <2>2. CASE Begin(s) \/ Update(s) \/ UpdateEnd(s) \/ UndoEnd(s)
      BY <2>1, <2>2, BeginDoes, UpdateDoes, UpdateEndDoes, UndoEndDoes
  <2>3. CASE AbortTrans(s) \/ AbortEnd(s) \/ EndTrans(s) \/ LocalCommit(s) \/ CommitEnd(s)
      BY <2>1, <2>3, AbortTransDoes, AbortEndDoes, EndTransDoes, LocalCommitDoes, CommitEndDoes
  <2> QED
      BY <1>5, <2>2, <2>3, ControlReleaseEnd, ControlContact DEF Transact
<1>6. ASSUME NEW s \in Server, Restart(s) PROVE Control'
    BY <1>6, ControlRestart
<1> QED
    BY <1>1, <1>2, <1>3, <1>4, <1>5, <1>6 DEF Next

-----------------------------------------------------------------------------
(* Transactions: the election, restarts and the first half of recovery.    *)

LEMMA TransKeep ==
    ASSUME NEW u \in Server, TransOK(u), CommitOK(u), clock' = clock,
           trans'[u] = trans[u], currentDB'[u] = currentDB[u], epochTime'[u] = epochTime[u],
           thread'[u].at = thread[u].at
    PROVE  TransOK(u)' /\ CommitOK(u)'
BY DEF TransOK, CommitOK, Active, Leader

LEMMA DistinctKeeps ==
    ASSUME Transactions,
           \A u \in Server : Active(u)' => Active(u) /\ trans'[u].tid = trans[u].tid
    PROVE  Distinct'
BY DEF Transactions, Distinct

\* A step that changes what one server has of a transaction, and starts none.
LEMMA TransFrame ==
    ASSUME Types, Transactions, NEW s \in Server, clock' = clock,
           \A u \in Server : u # s =>
               /\ trans'[u] = trans[u] /\ currentDB'[u] = currentDB[u]
               /\ epochTime'[u] = epochTime[u] /\ thread'[u].at = thread[u].at,
           Active(s)' => Active(s) /\ trans'[s].tid = trans[s].tid,
           TransOK(s)', CommitOK(s)'
    PROVE  Transactions'
<1>1. ASSUME NEW u \in Server PROVE TransOK(u)' /\ CommitOK(u)'
  <2>1. CASE u # s
      BY <2>1, TransKeep DEF Transactions
  <2> QED
      BY <2>1
<1>2. ASSUME NEW u \in Server PROVE Active(u)' => Active(u) /\ trans'[u].tid = trans[u].tid
  <2>1. CASE u # s
      BY <2>1 DEF Active
  <2> QED
      BY <2>1
<1>3. Distinct'
    BY <1>2, DistinctKeeps
<1> QED
    BY <1>1, <1>3 DEF Transactions

\* A step of recovery that leaves transactions and the current servers alone.
LEMMA TransStays ==
    ASSUME Types, Transactions, UNCHANGED <<trans, currentDB, epochTime, clock>>,
           \A u \in Server : thread'[u].at = "sending" => thread[u].at = "sending"
               \/ trans[u] = NoTrans
    PROVE  Transactions'
<1>1. ASSUME NEW u \in Server PROVE TransOK(u)' /\ CommitOK(u)'
  <2>1. TransOK(u) /\ CommitOK(u)
      BY DEF Transactions
  <2>2. trans[u] = NoTrans => ~Active(u)
      BY DEF Active, NoTrans
  <2>3. Active(u)' = Active(u) /\ Leader(u)' = Leader(u)
      BY DEF Active, Leader
  <2>4. TransOK(u)'
      BY <2>1, <2>2, <2>3 DEF TransOK
  <2>5. CommitOK(u)'
      BY <2>1, <2>3 DEF CommitOK
  <2> QED
      BY <2>4, <2>5
<1>2. Distinct'
    BY DistinctKeeps DEF Active
<1> QED
    BY <1>1, <1>2 DEF Transactions

LEMMA TransElect ==
    ASSUME Types, Control, Transactions, NEW s \in Server, Elect(s) PROVE Transactions'
<1>1. /\ clock' = clock + 1
      /\ UNCHANGED <<trans, thread, epochTime, currentDB>>
      /\ \A u \in Server : trans[u].phase # "commit"
    BY DEF Elect, Elected, Settled, tidVars
<1>2. ASSUME NEW u \in Server PROVE TransOK(u)' /\ CommitOK(u)'
  <2>1. TransOK(u) /\ epochTime[u] <= clock
      BY DEF Transactions, Control, ActsOK
  <2>2. clock \in Nat /\ epochTime[u] \in Nat
      BY ReplicaAssumption DEF Types
  <2>3. ~Leader(u)' /\ Active(u)' = Active(u)
      BY <1>1, <2>1, <2>2 DEF Leader, Active
  <2>4. TransOK(u)'
      BY <1>1, <2>1, <2>3 DEF TransOK
  <2>5. CommitOK(u)'
      BY <1>1 DEF CommitOK
  <2> QED
      BY <2>4, <2>5
<1>3. Distinct'
    BY <1>1, DistinctKeeps DEF Active
<1> QED
    BY <1>2, <1>3 DEF Transactions

LEMMA TransRestart ==
    ASSUME Types, Transactions, NEW s \in Server, Restart(s) PROVE Transactions'
<1>1. /\ trans'[s] = NoTrans /\ currentDB'[s] = {} /\ clock' = clock
      /\ \A u \in Server : u # s => /\ trans'[u] = trans[u] /\ thread'[u] = thread[u]
                                    /\ currentDB'[u] = currentDB[u] /\ epochTime'[u] = epochTime[u]
    BY DEF Restart, Types
<1>2. ~Active(s)'
    BY <1>1 DEF Active, NoTrans
<1>3. TransOK(s)' /\ CommitOK(s)'
    BY <1>1, <1>2 DEF TransOK, CommitOK, NoTrans
<1> QED
    BY <1>1, <1>2, <1>3, TransFrame

LEMMA TransCheck ==
    ASSUME Types, Transactions, NEW s \in Server, NEW t \in Server, Check(s, t) PROVE Transactions'
<1>1. /\ UNCHANGED <<trans, thread, epochTime, clock>> /\ trans[s].phase # "commit"
      /\ currentDB' = [currentDB EXCEPT ![s] = @ \ {t}]
    BY DEF Check, VersionFree, tidVars
<1>2. /\ currentDB'[s] \subseteq currentDB[s]
      /\ \A u \in Server : u # s => currentDB'[u] = currentDB[u]
    BY <1>1 DEF Types
<1>3. TransOK(s) /\ Active(s)' = Active(s) /\ Leader(s)' = Leader(s)
    BY <1>1 DEF Transactions, Active, Leader
<1>4. TransOK(s)'
    BY <1>1, <1>2, <1>3 DEF TransOK
<1>5. CommitOK(s)'
    BY <1>1 DEF CommitOK
<1> QED
    BY <1>1, <1>2, <1>3, <1>4, <1>5, TransFrame

\* urecovery_AbortAll changes nothing of a transaction that is over.
LEMMA NothingDone ==
    ASSUME NEW s \in Server, trans[s] = NoTrans,
           TransIs(s, trans[s].phase, trans[s].sent, trans[s].todo, trans[s].ok, TRUE)
    PROVE  trans'[s] = NoTrans
<1>1. trans'[s] \in TransRecord /\ NoTrans \in TransRecord
    BY Constants DEF TransIs
<1>2. /\ trans'[s].tid = NoTrans.tid /\ trans'[s].phase = NoTrans.phase
      /\ trans'[s].sent = NoTrans.sent /\ trans'[s].todo = NoTrans.todo
      /\ trans'[s].ok = NoTrans.ok /\ trans'[s].done = NoTrans.done
    BY DEF TransIs, NoTrans
<1> QED
    BY <1>1, <1>2 DEF TransRecord

LEMMA TransFetchStart ==
    ASSUME Types, Control, Transactions, NEW s \in Server, FetchStart(s) PROVE Transactions'
<1>1. /\ thread[s].at = "fetch" /\ trans[s].phase # "commit"
      /\ TransIs(s, trans[s].phase, trans[s].sent, trans[s].todo, trans[s].ok, TRUE)
      /\ ThreadIs(s, "fetching", {}, {}, thread[s].best)
      /\ UNCHANGED <<currentDB, epochTime, clock>>
    BY FetchStartDoes DEF VersionFree
<1>2. TransOK(s) /\ ~Leader(s)
    BY <1>1 DEF Transactions, Control, ActsOK
<1>3. Active(s)' = Active(s) /\ ~Leader(s)'
    BY <1>1, <1>2 DEF Active, Leader, TransIs
<1>4. trans[s] = NoTrans => trans'[s] = NoTrans
    BY <1>1, NothingDone
<1>5. TransOK(s)'
    BY <1>1, <1>2, <1>3, <1>4 DEF TransOK, TransIs, ThreadIs
<1>6. CommitOK(s)'
    BY <1>1 DEF CommitOK, TransIs
<1> QED
    BY <1>1, <1>3, <1>5, <1>6, TransFrame DEF TransIs, ThreadIs

-----------------------------------------------------------------------------
(* Transactions: labelling, sending, and the steps of transactions.        *)

LEMMA TransLabel ==
    ASSUME Types, Control, Transactions, NEW s \in Server, Label(s) PROVE Transactions'
<1>1. /\ thread[s].at = "label" /\ trans[s].phase # "commit"
      /\ TransIs(s, trans[s].phase, trans[s].sent, trans[s].todo, trans[s].ok, TRUE)
      /\ ThreadIs(s, "send", {}, {}, NoOne)
      /\ UNCHANGED <<currentDB, clock>>
    BY LabelDoes DEF VersionFree
<1>2. epochTime'[s] = clock /\ \A u \in Server : u # s => epochTime'[u] = epochTime[u]
  <2>1. epochTime \in [Server -> 0 .. MaxEpoch]
      BY DEF Types
  <2> QED
      BY <2>1, LabelDoes
<1>3. /\ TransOK(s) /\ ~Leader(s) /\ currentDB[s] = {} /\ epochTime[s] <= clock
      /\ epochTime[s] \in Nat /\ clock \in Nat /\ trans[s].tid.epoch \in Nat
  <2>1. ActsOK(s) /\ TransOK(s) /\ Acts(s)
      BY <1>1 DEF Transactions, Control, Acts
  <2>2. epochTime[s] \in Nat /\ clock \in Nat
      BY ReplicaAssumption DEF Types
  <2>3. trans[s].tid.epoch \in Nat
      BY TypeFacts, ReplicaAssumption DEF Tid
  <2> QED
      BY <1>1, <2>1, <2>2, <2>3 DEF ActsOK, Unlabelled
<1>4. Active(s)' = Active(s)
    BY <1>1 DEF Active, TransIs
<1>5. trans[s] = NoTrans => trans'[s] = NoTrans
    BY <1>1, NothingDone
<1>6. TransOK(s)'
    BY <1>1, <1>2, <1>3, <1>4, <1>5 DEF TransOK, TransIs, ThreadIs
<1>7. CommitOK(s)'
    BY <1>1 DEF CommitOK, TransIs
<1> QED
    BY <1>1, <1>2, <1>4, <1>6, <1>7, TransFrame DEF TransIs, ThreadIs

LEMMA TransSendStart ==
    ASSUME Types, Transactions, NEW s \in Server, SendStart(s) PROVE Transactions'
<1>1. /\ trans[s] = NoTrans /\ UNCHANGED <<trans, currentDB, epochTime, clock>>
      /\ \A u \in Server : u # s => thread'[u] = thread[u]
    BY SendStartDoes DEF ThreadIs
<1> QED
    BY <1>1, TransStays

LEMMA TransSend ==
    ASSUME Types, Control, Transactions, NEW s \in Server, NEW t \in Server, Send(s, t)
    PROVE  Transactions'
<1>1. /\ thread[s].at = "sending" /\ t \in thread[s].todo
      /\ Sent(s, t) \/ trans' = trans
      /\ UNCHANGED <<epochTime, clock>>
    BY SendDoes, Zenon
<1>2. /\ currentDB'[s] \subseteq currentDB[s] \cup {t}
      /\ \A u \in Server : u # s => currentDB'[u] = currentDB[u]
  <2>1. currentDB \in [Server -> SUBSET Server]
      BY DEF Types
  <2>2. currentDB' = currentDB \/ currentDB' = [currentDB EXCEPT ![s] = @ \cup {t}]
      BY SendDoes, Zenon
  <2> QED
      BY <2>1, <2>2
<1>3. \A u \in Server : thread'[u].at = thread[u].at
    BY <1>1, SendDoes DEF ThreadIs
<1>4. t \in Others(s) /\ t # s /\ ~Leader(t)
  <2>1. LoopsOK(s) /\ Acts(s) /\ OneActs
      BY <1>1 DEF Control, Acts
  <2>2. t \in Others(s) /\ t # s
      BY <1>1, <2>1 DEF LoopsOK, Others
  <2> QED
      BY <2>1, <2>2 DEF OneActs, Acts
<1>5. trans[t].phase # "commit"
    BY <1>4 DEF Transactions, CommitOK
<1>6. ASSUME NEW u \in Server, u # t PROVE trans'[u] = trans[u]
    BY <1>1, <1>6 DEF Sent, TransIs
<1>7. /\ Active(t)' = Active(t) /\ trans'[t].tid = trans[t].tid /\ trans'[t].phase = trans[t].phase
      /\ trans[t] = NoTrans => trans'[t] = NoTrans
    BY <1>1, NothingDone DEF Sent, TransIs, Active
<1>8. TransOK(t)' /\ CommitOK(t)'
  <2>1. TransOK(t) /\ currentDB'[t] = currentDB[t] /\ ~Leader(t)'
      BY <1>1, <1>2, <1>4 DEF Transactions, Leader
  <2>2. TransOK(t)'
      BY <1>1, <1>3, <1>7, <2>1 DEF TransOK
  <2>3. CommitOK(t)'
      BY <1>5, <1>7 DEF CommitOK
  <2> QED
      BY <2>2, <2>3
<1>9. TransOK(s)' /\ CommitOK(s)'
  <2>1. TransOK(s) /\ ~Active(s) /\ trans'[s] = trans[s]
      BY <1>1, <1>4, <1>6 DEF Transactions, TransOK
  <2>2. ~Active(s)' /\ trans'[s].phase = "none"
      BY <2>1 DEF Active
  <2>3. TransOK(s)'
      BY <1>2, <1>4, <2>1, <2>2 DEF TransOK
  <2> QED
      BY <2>2, <2>3 DEF CommitOK
<1>10. ASSUME NEW u \in Server, u # s, u # t PROVE TransOK(u)' /\ CommitOK(u)'
    BY <1>1, <1>2, <1>3, <1>6, <1>10, TransKeep DEF Transactions
<1>11. \A u \in Server : Active(u)' => Active(u) /\ trans'[u].tid = trans[u].tid
    BY <1>6, <1>7 DEF Active
<1>12. Distinct'
    BY <1>11, DistinctKeeps
<1> QED
    BY <1>8, <1>9, <1>10, <1>12 DEF Transactions

LEMMA TransContact ==
    ASSUME Types, Control, Transactions, Tids, NEW s \in Server, NEW t \in Server, Contact(s, t)
    PROVE  Transactions'
<1>1. /\ Active(s)
      /\ current[t].tid.epoch = trans[s].tid.epoch => current[t].tid.counter <= trans[s].tid.counter
    BY ContactLast
<1>2. t \in trans[s].todo /\ t # s /\ UNCHANGED <<thread, epochTime, clock>>
    BY <1>1, ContactDoes
<1>2a. PICK good \in BOOLEAN, ok \in SUBSET Server : Called(s, t, good, ok)
    BY <1>1, ContactDoes
<1>3. /\ TransIs(s, trans[s].phase, trans[s].sent, trans[s].todo \ {t}, ok, trans[s].done)
      /\ currentDB' = IF good THEN currentDB ELSE [currentDB EXCEPT ![s] = @ \ {t}]
      /\ ok = IF good /\ trans[s].phase \in {"update", "commit"}
              THEN trans[s].ok \cup {t} ELSE trans[s].ok
    BY <1>2a, Zenon DEF Called
<1>4. /\ currentDB'[s] = IF good THEN currentDB[s] ELSE currentDB[s] \ {t}
      /\ \A u \in Server : u # s => currentDB'[u] = currentDB[u]
    BY <1>3 DEF Types
<1>5. TransOK(s) /\ CommitOK(s)
    BY DEF Transactions
<1>6. Active(s)' /\ Leader(s)' = Leader(s)
    BY <1>1, <1>2, <1>3 DEF Active, Leader, TransIs
<1>7. TransOK(s)'
    BY <1>1, <1>2, <1>3, <1>4, <1>5, <1>6 DEF TransOK, TransIs
<1>8. CommitOK(s)'
  <2>1. CASE trans[s].phase # "commit"
      BY <1>3, <2>1 DEF CommitOK, TransIs
  <2>2. CASE trans[s].phase = "commit"
    <3>1. /\ trans'[s].todo = trans[s].todo \ {t} /\ trans'[s].done = trans[s].done
          /\ trans'[s].ok = IF good THEN trans[s].ok \cup {t} ELSE trans[s].ok
        BY <1>3, <2>2 DEF TransIs
    <3> QED
        BY <1>2, <1>4, <1>5, <1>6, <2>2, <3>1 DEF CommitOK
  <2> QED
      BY <2>1, <2>2
<1> QED
    BY <1>1, <1>2, <1>3, <1>4, <1>7, <1>8, TransFrame DEF TransIs

LEMMA TransBegin ==
    ASSUME Types, Control, Transactions, NEW s \in Server, Begin(s) PROVE Transactions' /\ Leader(s)
<1>1. /\ VersionFree(s) /\ AllBetter(s)
      /\ \A u \in Server : u # s => trans'[u] = trans[u]
      /\ trans'[s].tid = [epoch |-> epochTime[s], counter |-> tidCounter[s] + 2]
      /\ trans'[s].phase = "open" /\ trans'[s].done = FALSE
      /\ UNCHANGED <<thread, currentDB, epochTime, clock>>
    BY BeginDoes
<1>2. Leader(s) /\ thread[s].at # "sending"
    BY <1>1 DEF AllBetter, VersionFree, Control, ActsOK
<1>3. epochTime[s] = clock /\ clock \in Nat \ {0}
    BY <1>2 DEF Leader, Types
<1>4. TransOK(s) /\ Active(s)' /\ Leader(s)'
    BY <1>1, <1>2 DEF Transactions, Active, Leader
<1>5. TransOK(s)'
    BY <1>1, <1>2, <1>3, <1>4 DEF TransOK
<1>6. CommitOK(s)'
    BY <1>1 DEF CommitOK
<1>7. ASSUME NEW u \in Server, u # s, Active(u) PROVE trans[u].tid.epoch # clock
  <2>1. trans[u].tid.epoch <= epochTime[u] /\ epochTime[u] <= clock /\ ~Leader(u)
      BY <1>2, <1>7 DEF Transactions, TransOK, Control, ActsOK, OneActs, Acts
  <2>2. trans[u].tid.epoch \in Nat /\ epochTime[u] \in Nat
      BY TypeFacts, ReplicaAssumption DEF Tid, Types
  <2> QED
      BY <1>3, <2>1, <2>2 DEF Leader
<1>8. Distinct'
    BY <1>1, <1>3, <1>7 DEF Distinct, Active, Transactions
<1>9. ASSUME NEW u \in Server, u # s PROVE TransOK(u)' /\ CommitOK(u)'
    BY <1>1, <1>9, TransKeep DEF Transactions
<1> QED
    BY <1>2, <1>5, <1>6, <1>8, <1>9 DEF Transactions

\* Other steps of a transaction, which name what they make of it.
LEMMA TransIsFrame ==
    ASSUME Types, Control, Transactions, NEW s \in Server,
           NEW phase, NEW sent, NEW todo, NEW ok, NEW done,
           TransIs(s, phase, sent, todo, ok, done), trans[s].phase # "none", phase # "none",
           done = trans[s].done \/ (done = TRUE /\ phase # "update"),
           phase = "update" => trans[s].done = FALSE,
           UNCHANGED <<thread, currentDB, epochTime, clock>>, CommitOK(s)'
    PROVE  Transactions'
<1>1. TransOK(s) /\ Active(s)' /\ Active(s) /\ Leader(s)' = Leader(s)
    BY DEF Transactions, Active, Leader, TransIs
<1>2. TransOK(s)'
    BY <1>1 DEF TransOK, TransIs
<1> QED
    BY <1>1, <1>2, TransFrame DEF TransIs

LEMMA TransGiven ==
    ASSUME Types, Transactions, NEW s \in Server, trans' = [trans EXCEPT ![s] = NoTrans],
           UNCHANGED <<thread, currentDB, epochTime, clock>>
    PROVE  Transactions'
<1>1. trans'[s] = NoTrans /\ \A u \in Server : u # s => trans'[u] = trans[u]
    BY DEF Types
<1>2. ~Active(s)' /\ trans'[s].phase = "none" /\ TransOK(s)
    BY <1>1 DEF Active, NoTrans, Transactions
<1>3. TransOK(s)' /\ CommitOK(s)'
    BY <1>1, <1>2 DEF TransOK, CommitOK
<1> QED
    BY <1>1, <1>2, <1>3, TransFrame

LEMMA TransTransact ==
    ASSUME Types, Control, Transactions, Tids, NEW s \in Server, Transact(s) PROVE Transactions'
<1>1. CASE Begin(s)
    BY <1>1, TransBegin
<1>2. CASE Update(s)
  <2>1. CommitOK(s)'
      BY <1>2, UpdateDoes DEF CommitOK, TransIs
  <2> QED
      BY <1>2, <2>1, UpdateDoes, TransIsFrame, TypeFacts
<1>3. CASE UpdateEnd(s)
  <2>1. CommitOK(s)'
      BY <1>3, UpdateEndDoes DEF CommitOK, TransIs
  <2> QED
      BY <1>3, <2>1, UpdateEndDoes, TransIsFrame
<1>4. CASE UndoEnd(s)
  <2>1. CommitOK(s)'
      BY <1>4, UndoEndDoes DEF CommitOK, TransIs
  <2> QED
      BY <1>4, <2>1, UndoEndDoes, TransIsFrame
<1>5. CASE AbortTrans(s)
  <2>1. CASE Given(s)
      BY <1>5, <2>1, AbortTransDoes, TransGiven DEF Given
  <2>2. CASE TransIs(s, "abort", trans[s].sent, currentDB[s], {}, trans[s].done)
    <3>1. CommitOK(s)'
        BY <2>2 DEF CommitOK, TransIs
    <3> QED
        BY <1>5, <2>2, <3>1, AbortTransDoes, TransIsFrame
  <2> QED
      BY <1>5, <2>1, <2>2, AbortTransDoes, Zenon
<1>6. CASE AbortEnd(s)
    BY <1>6, AbortEndDoes, TransGiven DEF Given
<1>7. CASE EndTrans(s)
  <2>1. CASE Given(s)
      BY <1>7, <2>1, EndTransDoes, TransGiven DEF Given
  <2>2. CASE /\ AllBetter(s)
             /\ TransIs(s, "commit", trans[s].sent, currentDB[s] \cup {s}, {}, trans[s].done)
    <3>1. Leader(s) /\ UNCHANGED <<epochTime, clock, currentDB>>
        BY <1>7, <2>2, EndTransDoes DEF AllBetter, Control, ActsOK
    <3>2. CommitOK(s)'
        BY <2>2, <3>1 DEF CommitOK, TransIs, Leader
    <3> QED
        BY <1>7, <2>2, <3>2, EndTransDoes, TransIsFrame
  <2> QED
      BY <1>7, <2>1, <2>2, EndTransDoes, Zenon
<1>8. CASE LocalCommit(s)
  <2>1. /\ trans[s].phase = "commit" /\ s \in trans[s].todo /\ CommitOK(s) /\ TransOK(s)
        /\ UNCHANGED <<thread, currentDB, epochTime, clock>>
      BY <1>8, LocalCommitDoes DEF Transactions
  <2>2. \/ TransIs(s, "commit", trans[s].sent, trans[s].todo \ {s}, trans[s].ok, TRUE)
        \/ TransIs(s, "commit", trans[s].sent, trans[s].todo \ {s}, trans[s].ok \cup {s}, TRUE)
      BY <1>8, LocalCommitDoes, Zenon
  <2>3. CommitOK(s)'
    <3>1. /\ trans'[s].todo = trans[s].todo \ {s} /\ trans'[s].done = TRUE
          /\ trans'[s].ok = trans[s].ok \/ trans'[s].ok = trans[s].ok \cup {s}
        BY <2>2 DEF TransIs
    <3>2. currentDB[s] \subseteq Others(s) /\ Leader(s)' = Leader(s)
        BY <2>1 DEF TransOK, Leader
    <3> QED
        BY <2>1, <3>1, <3>2 DEF CommitOK, Others
  <2> QED
      BY <2>1, <2>2, <2>3, TransIsFrame
<1>9. CASE CommitEnd(s)
  <2>1. CommitOK(s)'
      BY <1>9, CommitEndDoes DEF CommitOK, TransIs
  <2> QED
      BY <1>9, <2>1, CommitEndDoes, TransIsFrame
<1>10. CASE ReleaseEnd(s)
    BY <1>10, ReleaseEndDoes, TransGiven
<1> QED
    BY <1>1, <1>2, <1>3, <1>4, <1>5, <1>6, <1>7, <1>8, <1>9, <1>10, TransContact DEF Transact

\* No step leaves Transactions.
LEMMA TransactionsStep ==
    ASSUME Types, Control, Transactions, Tids, [Next]_vars PROVE Transactions'
<1>1. CASE UNCHANGED vars
    BY <1>1, TransStays DEF vars, recVars, tidVars
<1>2. CASE Lapse
    BY <1>2, TransStays DEF Lapse, tidVars
<1>3. ASSUME NEW s \in Server, Election(s) PROVE Transactions'
  <2>1. ASSUME NEW t \in Server, Beacon(s, t) PROVE Transactions'
      BY <2>1, TransStays DEF Beacon, recVars, tidVars
  <2> QED
      BY <1>3, <2>1, TransElect DEF Election
<1>4. ASSUME NEW s \in Server, Recovery(s) PROVE Transactions'
  <2>1. ASSUME NEW at \in {"asleep", "find", "fetch", "send", "label"}, NEW todo, NEW heard,
               NEW best,
               ThreadIs(s, at, todo, heard, best), UNCHANGED <<trans, currentDB, epochTime, clock>>
        PROVE  Transactions'
      BY <2>1, TransStays DEF ThreadIs
  <2>2. CASE Wake(s)
      BY <2>1, <2>2, WakeDoes
  <2>3. ASSUME NEW t \in Server, Find(s, t) PROVE Transactions'
      BY <2>1, <2>3, FindDoes
  <2>4. CASE FindEnd(s)
      BY <2>1, <2>4, FindEndDoes
  <2>5. CASE FetchEnd(s)
      BY <2>1, <2>5, FetchEndDoes
  <2>6. CASE SendEnd(s)
      BY <2>1, <2>6, SendEndDoes
  <2> QED
      BY <1>4, <2>2, <2>3, <2>4, <2>5, <2>6, TransCheck, TransFetchStart, TransLabel,
         TransSendStart,
         TransSend DEF Recovery
<1>5. ASSUME NEW s \in Server, Restart(s) PROVE Transactions'
    BY <1>5, TransRestart
<1> QED
    BY <1>1, <1>2, <1>3, <1>4, <1>5, TransTransact DEF Next

-----------------------------------------------------------------------------
(* Mandates: what tids and labels of the next state are compared with.     *)

\* What a step does to mandates: a new one raises the clock, and only a server that
\* has one and gave no label yet becomes a leader.
Mandates ==
    /\ clock' >= clock
    /\ \A u \in Server : Unlabelled(u)' => Unlabelled(u) \/ clock' > clock
    /\ \A u \in Server : Leader(u)' =>
           Unlabelled(u) \/ (Leader(u) /\ clock' = clock /\ tidCounter'[u] >= tidCounter[u])

LEMMA Times ==
    ASSUME Types
    PROVE  /\ clock \in Nat \ {0}
           /\ \A u \in Server : epochTime[u] \in Nat /\ tidCounter[u] \in Nat
BY ReplicaAssumption DEF Types

LEMMA MandateKeeps ==
    ASSUME Types, NEW s \in Server, Acts(s), UNCHANGED <<epochTime, clock>>,
           \A u \in Server : tidCounter'[u] >= tidCounter[u],
           site' \in {site, NoOne}, \A u \in Server : u # s => thread'[u] = thread[u]
    PROVE  Mandates
<1>1. clock' >= clock
    BY Times
<1>2. \A u \in Server : Leader(u)' = Leader(u)
    BY DEF Leader
<1>3. \A u \in Server : u # s => (Acts(u)' => Acts(u))
    BY <1>2, ReplicaAssumption DEF Acts
<1> QED
    BY <1>1, <1>2, <1>3 DEF Mandates, Unlabelled

\* Mandates stay what they are.
LEMMA MandateStays ==
    ASSUME Types, UNCHANGED <<epochTime, clock, thread>>, site' \in {site, NoOne},
           \A u \in Server : tidCounter'[u] >= tidCounter[u]
    PROVE  Mandates
<1>1. clock' >= clock
    BY Times
<1>2. \A u \in Server : Leader(u)' = Leader(u) /\ (Acts(u)' => Acts(u))
    BY ReplicaAssumption DEF Leader, Acts
<1> QED
    BY <1>1, <1>2 DEF Mandates, Unlabelled

LEMMA MandateElect ==
    ASSUME Types, Control, NEW s \in Server, Elect(s) PROVE Mandates
<1>1. clock' = clock + 1 /\ epochTime' = epochTime
    BY DEF Elect, Elected
<1>2. \A u \in Server : epochTime[u] <= clock
    BY DEF Control, ActsOK
<1>3. \A u \in Server : ~Leader(u)'
    BY <1>1, <1>2, Times DEF Leader
<1>4. clock' > clock /\ clock' >= clock
    BY <1>1, Times
<1> QED
    BY <1>3, <1>4 DEF Mandates

LEMMA MandateRestart ==
    ASSUME Types, NEW s \in Server, Restart(s) PROVE Mandates
<1>1. /\ clock' = clock /\ site' = IF site = s THEN NoOne ELSE site
      /\ thread'[s] = Asleep /\ epochTime'[s] = 0
      /\ \A u \in Server : u # s => /\ thread'[u] = thread[u] /\ epochTime'[u] = epochTime[u]
                                    /\ tidCounter'[u] = tidCounter[u]
    BY DEF Restart, Types
<1>2. ~Acts(s)' /\ ~Leader(s)'
    BY <1>1, Times, ReplicaAssumption DEF Acts, Leader, Asleep
<1>3. ASSUME NEW u \in Server, u # s
      PROVE  Leader(u)' = Leader(u) /\ (Acts(u)' => Acts(u)) /\ tidCounter'[u] >= tidCounter[u]
    BY <1>1, <1>3, Times, ReplicaAssumption DEF Acts, Leader
<1>4. clock' >= clock
    BY <1>1, Times
<1> QED
    BY <1>1, <1>2, <1>3, <1>4 DEF Mandates, Unlabelled

LEMMA MandateLabel ==
    ASSUME Types, Control, NEW s \in Server, Label(s) PROVE Mandates
<1>1. thread[s].at = "label" /\ UNCHANGED <<site, clock, tidCounter>>
    BY LabelDoes
<1>2. /\ epochTime'[s] = clock /\ \A u \in Server : u # s => epochTime'[u] = epochTime[u]
  <2>1. epochTime \in [Server -> 0 .. MaxEpoch]
      BY DEF Types
  <2> QED
      BY <2>1, LabelDoes
<1>3. \A u \in Server : u # s => thread'[u] = thread[u]
    BY LabelDoes DEF ThreadIs
<1>4. Unlabelled(s) /\ Leader(s)'
    BY <1>1, <1>2 DEF Unlabelled, Acts, Control, ActsOK, Leader
<1>5. \A u \in Server : u # s => Leader(u)' = Leader(u) /\ Acts(u)' = Acts(u)
    BY <1>1, <1>2, <1>3 DEF Leader, Acts
<1>6. clock' >= clock /\ \A u \in Server : tidCounter'[u] >= tidCounter[u]
    BY <1>1, Times
<1> QED
    BY <1>1, <1>4, <1>5, <1>6 DEF Mandates, Unlabelled

LEMMA MandateStep ==
    ASSUME Types, Control, [Next]_vars PROVE Mandates
<1>0. \A u \in Server : tidCounter[u] >= tidCounter[u]
    BY Times
<1>1. CASE UNCHANGED vars
    BY <1>0, <1>1, MandateStays DEF vars, recVars, tidVars
<1>2. CASE Lapse
    BY <1>0, <1>2, MandateStays DEF Lapse, tidVars
<1>3. ASSUME NEW s \in Server, Election(s) PROVE Mandates
  <2>1. ASSUME NEW t \in Server, Beacon(s, t) PROVE Mandates
      BY <1>0, <2>1, MandateStays DEF Beacon, recVars, tidVars
  <2> QED
      BY <1>3, <2>1, MandateElect DEF Election
<1>4. ASSUME NEW s \in Server, Recovery(s) PROVE Mandates
  <2>1. ASSUME NEW at, NEW todo, NEW heard, NEW best, Acts(s),
               ThreadIs(s, at, todo, heard, best), UNCHANGED <<site, epochTime, tidCounter, clock>>
        PROVE  Mandates
      BY <1>0, <2>1, MandateKeeps DEF ThreadIs
  <2>2. CASE Wake(s)
      BY <2>1, <2>2, WakeDoes DEF Acts
  <2>3. ASSUME NEW t \in Server, Find(s, t) PROVE Mandates
    <3>1. /\ thread[s].at = "find" /\ UNCHANGED <<site, epochTime, tidCounter, clock>>
          /\ \A u \in Server : u # s => thread'[u] = thread[u]
        BY <2>3, FindDoes DEF ThreadIs
    <3> QED
        BY <1>0, <3>1, MandateKeeps DEF Acts
  <2>4. CASE FindEnd(s)
      BY <2>1, <2>4, FindEndDoes DEF Acts
  <2>5. CASE FetchStart(s) \/ FetchEnd(s)
      BY <2>1, <2>5, FetchStartDoes, FetchEndDoes DEF Acts
  <2>6. CASE SendStart(s) \/ SendEnd(s)
      BY <2>1, <2>6, SendStartDoes, SendEndDoes DEF Acts
  <2>7. ASSUME NEW t \in Server, Send(s, t) PROVE Mandates
      BY <2>1, <2>7, SendDoes DEF Acts
  <2>8. ASSUME NEW t \in Server, Check(s, t) PROVE Mandates
      BY <1>0, <2>8, MandateStays DEF Check, tidVars
  <2> QED
      BY <1>4, <2>2, <2>3, <2>4, <2>5, <2>6, <2>7, <2>8, MandateLabel DEF Recovery
<1>5. ASSUME NEW s \in Server, Transact(s) PROVE Mandates
  <2>1. CASE Begin(s)
    <3>1. \A u \in Server : tidCounter'[u] >= tidCounter[u]
      <4>1. tidCounter \in [Server -> 0 .. MaxTid] /\ MaxTid \in Nat
          BY ReplicaAssumption DEF Types
      <4> QED
        <5>1. tidCounter' = [tidCounter EXCEPT ![s] = tidCounter[s] + 2]
            BY <2>1, BeginDoes
        <5> QED
            BY <4>1, <5>1
    <3> QED
        BY <2>1, <3>1, BeginDoes, MandateStays
  <2>2. ASSUME UNCHANGED <<thread, epochTime, tidCounter, clock>>, site' \in {site, NoOne}
        PROVE Mandates
      BY <1>0, <2>2, MandateStays
  <2>3. CASE Update(s) \/ UpdateEnd(s) \/ UndoEnd(s)
      BY <2>2, <2>3, UpdateDoes, UpdateEndDoes, UndoEndDoes
  <2>4. CASE AbortTrans(s) \/ AbortEnd(s) \/ EndTrans(s) \/ LocalCommit(s) \/ CommitEnd(s)
      BY <2>2, <2>4, AbortTransDoes, AbortEndDoes, EndTransDoes, LocalCommitDoes, CommitEndDoes
  <2>5. CASE ReleaseEnd(s)
      BY <2>2, <2>5, ReleaseEndDoes
  <2>6. ASSUME NEW t \in Server, Contact(s, t) PROVE Mandates
      BY <2>2, <2>6 DEF Contact, tidVars
  <2> QED
      BY <1>5, <2>1, <2>3, <2>4, <2>5, <2>6 DEF Transact
<1>6. ASSUME NEW s \in Server, Restart(s) PROVE Mandates
    BY <1>6, MandateRestart
<1> QED
    BY <1>1, <1>2, <1>3, <1>4, <1>5, <1>6 DEF Next

\* TidOK and LabelOK after the step.
NextTidOK(x) ==
    /\ x.epoch <= clock'
    /\ \A s \in Server :
          /\ Unlabelled(s)' => x.epoch < clock'
          /\ Leader(s)' /\ x.epoch = clock' => x.counter <= tidCounter'[s]
NextLabelOK(v) ==
    /\ v.epoch <= clock'
    /\ \A s \in Server : Unlabelled(s)' => v.epoch < clock'

LEMMA TidKeeps ==
    ASSUME Types, Types', Mandates, NEW x \in Tid, TidOK(x) PROVE NextTidOK(x)
<1>1. x.epoch \in Nat /\ x.counter \in Nat /\ clock \in Nat /\ clock' \in Nat
    BY Times, ReplicaAssumption DEF Tid, Types
<1>2. x.epoch <= clock'
    BY <1>1 DEF TidOK, Mandates
<1>3. ASSUME NEW s \in Server, Unlabelled(s)' PROVE x.epoch < clock'
    BY <1>1, <1>3 DEF TidOK, Mandates
<1>4. ASSUME NEW s \in Server, Leader(s)', x.epoch = clock' PROVE x.counter <= tidCounter'[s]
  <2>1. ~Unlabelled(s)
      BY <1>1, <1>4 DEF TidOK, Mandates
  <2>2. Leader(s) /\ clock' = clock /\ tidCounter'[s] >= tidCounter[s]
      BY <1>4, <2>1 DEF Mandates
  <2>3. tidCounter[s] \in Nat /\ tidCounter'[s] \in Nat
      BY ReplicaAssumption DEF Types
  <2> QED
      BY <1>1, <1>4, <2>2, <2>3 DEF TidOK
<1> QED
    BY <1>2, <1>3, <1>4 DEF NextTidOK

LEMMA VersionKeeps ==
    ASSUME Types, Types', Mandates, NEW x \in Version, LabelOK(x) PROVE NextLabelOK(x)
<1>1. x.epoch \in Nat /\ clock \in Nat /\ clock' \in Nat
    BY DEF Version, Types
<1>2. x.epoch <= clock /\ \A s \in Server : Unlabelled(s) => x.epoch < clock
    BY DEF LabelOK
<1>3. x.epoch <= clock' /\ \A s \in Server : Unlabelled(s)' => x.epoch < clock'
    BY <1>1, <1>2 DEF Mandates
<1> QED
    BY <1>3 DEF NextLabelOK

LEMMA ZeroOK == ASSUME Types PROVE TidOK(Zero) /\ LabelOK(Zero)
BY Times DEF TidOK, LabelOK, Zero

-----------------------------------------------------------------------------
(* Tids: steps that make no tid, and Begin, which makes one.               *)

\* Where the tids of the next state come from, unless a transaction begins.
OldTids ==
    /\ \A u \in Server : \/ trans'[u].tid = trans[u].tid /\ (Active(u)' => Active(u))
                         \/ trans'[u] = NoTrans
    /\ \A u \in Server :
           \/ current'[u].tid \in {current[u].tid, Zero}
           \/ \E s \in Server : Active(s) /\ current'[u].tid = trans[s].tid
    /\ \A u \in Server : \A d \in disk'[u].data :
           \/ d[1] = Zero
           \/ \E w \in Server : d \in disk[w].data \/ d[1] = trans[w].tid
    /\ \A x \in aborted' :
           \/ x \in aborted
           \/ \E s \in Server : Active(s) /\ ~Active(s)' /\ x = trans[s].tid

LEMMA ItemTid ==
    ASSUME Types, NEW s \in Server, NEW d \in disk[s].data PROVE d[1] \in Tid
<1>1. d \in Items
    BY TypeFacts
<1> QED
    BY <1>1, Constants DEF Items, Garbage

LEMMA TidsKeep ==
    ASSUME Types, Types', Transactions, Transactions', Tids, Mandates, OldTids PROVE Tids'
<1>1. ASSUME NEW x \in Tid, TidOK(x) PROVE NextTidOK(x)
    BY <1>1, TidKeeps
<1>2. Zero \in Tid /\ NextTidOK(Zero)
    BY <1>1, Constants, ZeroOK
<1>3. \A u \in Server : trans[u].tid \in Tid /\ TidOK(trans[u].tid)
    BY TypeFacts DEF Tids
<1>4. ASSUME NEW u \in Server PROVE NextTidOK(trans'[u].tid)
  <2>1. trans'[u].tid = trans[u].tid \/ trans'[u].tid = Zero
      BY DEF OldTids, NoTrans
  <2> QED
      BY <1>1, <1>2, <1>3, <2>1
<1>5. ASSUME NEW u \in Server PROVE NextTidOK(current'[u].tid)
  <2>1. current[u].tid \in Tid /\ TidOK(current[u].tid)
      BY TypeFacts DEF Tids
  <2>2. \/ current'[u].tid \in {current[u].tid, Zero}
        \/ \E s \in Server : current'[u].tid = trans[s].tid
      BY DEF OldTids
  <2> QED
      BY <1>1, <1>2, <1>3, <2>1, <2>2
<1>6. ASSUME NEW u \in Server, NEW d \in disk'[u].data PROVE NextTidOK(d[1])
  <2>1. CASE d[1] = Zero
      BY <1>2, <2>1
  <2>2. ASSUME NEW w \in Server, d \in disk[w].data PROVE NextTidOK(d[1])
      BY <1>1, <2>2, ItemTid DEF Tids
  <2>3. ASSUME NEW w \in Server, d[1] = trans[w].tid PROVE NextTidOK(d[1])
      BY <1>1, <1>3, <2>3
  <2> QED
      BY <2>1, <2>2, <2>3 DEF OldTids
<1>7. ASSUME NEW x \in aborted' PROVE NextTidOK(x)
  <2>1. CASE x \in aborted
      BY <1>1, <2>1 DEF Tids, Types
  <2>2. ASSUME NEW s \in Server, x = trans[s].tid PROVE NextTidOK(x)
      BY <1>1, <1>3, <2>2
  <2> QED
      BY <2>1, <2>2 DEF OldTids
<1>8. ASSUME NEW s \in Server, Active(s)'
      PROVE  /\ trans'[s].tid = trans[s].tid /\ Active(s) /\ trans'[s].tid # Zero
             /\ 0 < trans'[s].tid.epoch
  <2>1. trans'[s] # NoTrans
      BY <1>8 DEF Active, NoTrans
  <2>2. trans'[s].tid = trans[s].tid /\ Active(s)
      BY <1>8, <2>1 DEF OldTids
  <2>3. 0 < trans[s].tid.epoch
      BY <2>2 DEF Transactions, TransOK
  <2> QED
      BY <2>2, <2>3 DEF Zero
<1>9. ASSUME NEW s \in Server, NEW t \in Server, Active(s)',
             current'[t].tid.epoch = trans'[s].tid.epoch
      PROVE  current'[t].tid.counter <= trans'[s].tid.counter
  <2>1. trans'[s].tid = trans[s].tid /\ Active(s) /\ current'[t].tid # Zero
      BY <1>8, <1>9 DEF Zero
  <2>2. CASE current'[t].tid = current[t].tid
      BY <1>9, <2>1, <2>2 DEF Tids
  <2>3. ASSUME NEW u \in Server, Active(u), current'[t].tid = trans[u].tid
        PROVE  current'[t].tid.counter <= trans'[s].tid.counter
    <3>1. u = s
        BY <1>9, <2>1, <2>3 DEF Transactions, Distinct
    <3>2. trans[s].tid.counter \in Nat
        BY <1>3, ReplicaAssumption DEF Tid
    <3> QED
        BY <2>1, <2>3, <3>1, <3>2
  <2> QED
      BY <2>1, <2>2, <2>3 DEF OldTids
<1>10. ASSUME NEW s \in Server, Active(s)' PROVE trans'[s].tid \notin aborted'
  <2>1. trans'[s].tid = trans[s].tid /\ Active(s)
      BY <1>8, <1>10
  <2>2. trans[s].tid \notin aborted
      BY <2>1 DEF Tids
  <2>3. ASSUME NEW u \in Server, Active(u), ~Active(u)', trans[s].tid = trans[u].tid PROVE FALSE
      BY <1>10, <2>1, <2>3 DEF Transactions, Distinct
  <2> QED
      BY <2>1, <2>2, <2>3 DEF OldTids
<1> QED
    BY <1>4, <1>5, <1>6, <1>7, <1>9, <1>10 DEF Tids, TidOK, NextTidOK

LEMMA TidsBegin ==
    ASSUME Types, Types', Control, Transactions, Tids, Mandates, NEW s \in Server, Begin(s)
    PROVE  Tids'
<1>1. /\ trans'[s].tid = [epoch |-> epochTime[s], counter |-> tidCounter[s] + 2]
      /\ \A u \in Server : u # s => trans'[u] = trans[u]
      /\ tidCounter' = [tidCounter EXCEPT ![s] = tidCounter[s] + 2]
      /\ UNCHANGED <<disk, current, aborted, epochTime, clock>>
      /\ UNCHANGED <<site, thread>>
    BY BeginDoes
<1>2. Leader(s) /\ OneActs
    BY TransBegin DEF Control
<1>3. epochTime[s] = clock /\ clock \in Nat /\ tidCounter[s] \in Nat
    BY <1>2, Times DEF Leader
<1>4. trans'[s].tid.epoch = clock /\ trans'[s].tid.counter = tidCounter[s] + 2
    BY <1>1, <1>3
<1>5. tidCounter'[s] = tidCounter[s] + 2
    BY <1>1 DEF Types
<1>6. ASSUME NEW x \in Tid, TidOK(x) PROVE NextTidOK(x)
    BY <1>6, TidKeeps
<1>7. ASSUME NEW u \in Server, Acts(u)' PROVE u = s /\ ~Unlabelled(u)'
  <2>1. Acts(u)
      BY <1>1, <1>7 DEF Acts, Leader
  <2> QED
      BY <1>1, <1>2, <2>1 DEF OneActs, Acts, Unlabelled, Leader
<1>8. NextTidOK(trans'[s].tid)
  <2>1. trans'[s].tid.epoch <= clock'
      BY <1>1, <1>3, <1>4
  <2>2. \A u \in Server : ~Unlabelled(u)'
      BY <1>7 DEF Unlabelled
  <2>3. ASSUME NEW u \in Server, Leader(u)' PROVE trans'[s].tid.counter <= tidCounter'[u]
    <3>1. u = s
        BY <1>7, <2>3 DEF Acts
    <3> QED
        BY <1>3, <1>4, <1>5, <3>1
  <2> QED
      BY <2>1, <2>2, <2>3 DEF NextTidOK
<1>9. ASSUME NEW u \in Server
      PROVE  /\ NextTidOK(trans'[u].tid) /\ NextTidOK(current'[u].tid)
             /\ \A d \in disk'[u].data : NextTidOK(d[1])
  <2>1. trans[u].tid \in Tid /\ current[u].tid \in Tid /\ TidOK(trans[u].tid)
            /\ TidOK(current[u].tid)
      BY TypeFacts DEF Tids
  <2>2. \A d \in disk[u].data : d[1] \in Tid /\ TidOK(d[1])
      BY ItemTid DEF Tids
  <2>3. NextTidOK(trans'[u].tid)
    <3>1. CASE u = s
        BY <1>8, <3>1
    <3>2. CASE u # s
        BY <1>1, <1>6, <2>1, <3>2
    <3> QED
        BY <3>1, <3>2
  <2>4. NextTidOK(current'[u].tid)
      BY <1>1, <1>6, <2>1
  <2>5. \A d \in disk'[u].data : NextTidOK(d[1])
      BY <1>1, <1>6, <2>2
  <2> QED
      BY <2>3, <2>4, <2>5
<1>10. \A x \in aborted' : NextTidOK(x)
    BY <1>1, <1>6 DEF Tids, Types
<1>11. ASSUME NEW x \in Tid, TidOK(x), x.epoch = clock PROVE x.counter < tidCounter[s] + 2
  <2>1. x.counter <= tidCounter[s] /\ x.counter \in Nat
      BY <1>2, <1>11, ReplicaAssumption DEF TidOK, Tid
  <2> QED
      BY <1>3, <2>1
<1>12. ASSUME NEW u \in Server, NEW t \in Server, Active(u)',
              current'[t].tid.epoch = trans'[u].tid.epoch
       PROVE  current'[t].tid.counter <= trans'[u].tid.counter
  <2>1. CASE u # s
      BY <1>1, <1>12, <2>1 DEF Tids, Active
  <2>2. CASE u = s
    <3>1. current[t].tid \in Tid /\ TidOK(current[t].tid) /\ current[t].tid.epoch = clock
        BY <1>1, <1>4, <1>12, <2>2, TypeFacts DEF Tids
    <3>2. current[t].tid.counter < tidCounter[s] + 2 /\ current[t].tid.counter \in Nat
        BY <1>11, <3>1, ReplicaAssumption DEF Tid
    <3> QED
        BY <1>1, <1>3, <1>4, <2>2, <3>2
  <2> QED
      BY <2>1, <2>2
<1>13. ASSUME NEW u \in Server, Active(u)' PROVE trans'[u].tid \notin aborted'
  <2>1. CASE u # s
      BY <1>1, <1>13, <2>1 DEF Tids, Active
  <2>2. CASE u = s
    <3>1. ASSUME trans'[s].tid \in aborted PROVE FALSE
      <4>1. trans'[s].tid \in Tid /\ TidOK(trans'[s].tid)
          BY <3>1 DEF Tids, Types
      <4>2. trans'[s].tid.counter < tidCounter[s] + 2
          BY <1>4, <1>11, <4>1
      <4> QED
          BY <1>3, <1>4, <4>2
    <3> QED
        BY <1>1, <2>2, <3>1
  <2> QED
      BY <2>1, <2>2
<1> QED
    BY <1>9, <1>10, <1>12, <1>13 DEF Tids, TidOK, NextTidOK

-----------------------------------------------------------------------------
(* Tids: where those of the next state come from, step by step.            *)

LEMMA QuietTid ==
    ASSUME NEW u \in Server, Quiet(u) PROVE current'[u].tid \in {current[u].tid, Zero}
BY DEF Quiet, NoCurrent

LEMMA TransIsTids ==
    ASSUME NEW s \in Server, NEW phase, NEW sent, NEW todo, NEW ok, NEW done,
           TransIs(s, phase, sent, todo, ok, done), phase = trans[s].phase \/ Active(s)
    PROVE  \A u \in Server : trans'[u].tid = trans[u].tid /\ (Active(u)' => Active(u))
BY DEF TransIs, Active

\* The steps that write no data and give no transaction up.
LEMMA OldTidsStay ==
    ASSUME Types,
           \A u \in Server : \/ trans'[u].tid = trans[u].tid /\ (Active(u)' => Active(u))
                             \/ trans'[u] = NoTrans,
           \A u \in Server : Quiet(u), UNCHANGED <<disk, aborted>>
    PROVE  OldTids
BY QuietTid DEF OldTids

LEMMA OldTidsSame ==
    ASSUME Types, UNCHANGED <<trans, current, disk, aborted>> PROVE OldTids
BY DEF OldTids, Active

LEMMA OldTidsElection ==
    ASSUME Types, NEW s \in Server, Election(s) PROVE OldTids
<1>1. UNCHANGED <<trans, disk, aborted>>
    BY DEF Election, Elect, Elected, Beacon, dbVars, recVars, tidVars, clientVars
<1>2. \A u \in Server : \E x : current'[u] \in {current[u], CheckTid(u, x)}
    BY DEF Election, Elect, Elected, Beacon, Types
<1>3. \A u \in Server : Quiet(u)
    BY <1>2, CheckTidQuiet DEF Quiet
<1> QED
    BY <1>1, <1>3, OldTidsStay DEF Active

LEMMA OldTidsRestart ==
    ASSUME Types, Transactions, NEW s \in Server, Restart(s) PROVE OldTids
<1>1. /\ trans' = [trans EXCEPT ![s] = NoTrans] /\ current' = [current EXCEPT ![s] = NoCurrent]
      /\ disk' = disk
      /\ aborted' = IF trans[s].phase \in {"open", "update", "undo", "abort"}
                    THEN aborted \cup {trans[s].tid} ELSE aborted
    BY DEF Restart
<1>2. /\ \A u \in Server : u # s => trans'[u] = trans[u] /\ current'[u] = current[u]
      /\ trans'[s] = NoTrans /\ current'[s] = NoCurrent
    BY <1>1 DEF Types
<1>3. \A u \in Server : \/ trans'[u].tid = trans[u].tid /\ (Active(u)' => Active(u))
                        \/ trans'[u] = NoTrans
    BY <1>2 DEF Active
<1>4. \A u \in Server : current'[u].tid \in {current[u].tid, Zero}
    BY <1>2 DEF NoCurrent
<1>5. ~Active(s)'
    BY <1>2 DEF Active, NoTrans
<1>6. \A x \in aborted' : x \in aborted \/ (Active(s) /\ x = trans[s].tid)
    BY <1>1 DEF Active
<1> QED
    BY <1>1, <1>3, <1>4, <1>5, <1>6 DEF OldTids

LEMMA OldTidsRecovery ==
    ASSUME Types, Control, NEW s \in Server, Recovery(s) PROVE OldTids
<1>1. ASSUME NEW t \in Server, Check(s, t) PROVE OldTids
    BY <1>1, OldTidsSame DEF Check, dbVars, clientVars
<1>2. CASE Wake(s)
    BY <1>2, WakeDoes, OldTidsSame
<1>3. ASSUME NEW t \in Server, Find(s, t) PROVE OldTids
    BY <1>3, FindDoes, OldTidsSame
<1>4. CASE FindEnd(s)
    BY <1>4, FindEndDoes, OldTidsSame
<1>5. CASE FetchStart(s)
  <2>1. /\ TransIs(s, trans[s].phase, trans[s].sent, trans[s].todo, trans[s].ok, TRUE)
        /\ \A u \in Server : Quiet(u)
        /\ disk' = [disk EXCEPT ![s] = [label |-> Zero, data |-> Garbage]] /\ aborted' = aborted
      BY <1>5, FetchStartDoes
  <2>2. \A u \in Server : disk'[u].data \in {disk[u].data, Garbage}
      BY <2>1 DEF Types
  <2>3. \A d \in Garbage : d[1] = Zero
      BY DEF Garbage
  <2> QED
      BY <2>1, <2>2, <2>3, TransIsTids, QuietTid DEF OldTids
<1>6. CASE FetchEnd(s)
  <2>1. thread[s].best \in Server
      BY <1>6, FetchEndDoes DEF Control, LoopsOK, Others
  <2>2. /\ disk' = [disk EXCEPT ![s] = disk[thread[s].best]]
        /\ UNCHANGED <<trans, current, aborted>>
      BY <1>6, FetchEndDoes
  <2>3. \A u \in Server : \E w \in Server : disk'[u].data = disk[w].data
      BY <2>1, <2>2 DEF Types
  <2> QED
      BY <2>2, <2>3 DEF OldTids, Active
<1>7. CASE Label(s)
  <2>1. /\ TransIs(s, trans[s].phase, trans[s].sent, trans[s].todo, trans[s].ok, TRUE)
        /\ \A u \in Server : Quiet(u)
        /\ disk' = [disk EXCEPT ![s] = [label |-> [epoch |-> clock, counter |-> 1],
                                        data |-> disk[s].data]]
        /\ aborted' = aborted
      BY <1>7, LabelDoes
  <2>2. \A u \in Server : disk'[u].data = disk[u].data
      BY <2>1 DEF Types
  <2> QED
      BY <2>1, <2>2, TransIsTids, QuietTid DEF OldTids
<1>8. CASE SendStart(s)
    BY <1>8, SendStartDoes, OldTidsSame
<1>9. ASSUME NEW t \in Server, Send(s, t) PROVE OldTids
  <2>1. (\A u \in Server : Quiet(u)) /\ aborted' = aborted
      BY <1>9, SendDoes
  <2>2. CASE Sent(s, t)
    <3>1. /\ TransIs(t, trans[t].phase, trans[t].sent, trans[t].todo, trans[t].ok, TRUE)
          /\ disk' = [disk EXCEPT ![t] = [label |-> version[s], data |-> disk[s].data]]
        BY <2>2 DEF Sent
    <3>2. \A u \in Server : \E w \in Server : disk'[u].data = disk[w].data
        BY <3>1 DEF Types
    <3> QED
        BY <2>1, <3>1, <3>2, TransIsTids, QuietTid DEF OldTids
  <2>3. CASE UNCHANGED <<disk, version, trans>>
      BY <2>1, <2>3, OldTidsStay DEF Active
  <2> QED
      BY <1>9, <2>2, <2>3, SendDoes, Zenon
<1>10. CASE SendEnd(s)
    BY <1>10, SendEndDoes, OldTidsSame
<1> QED
    BY <1>1, <1>2, <1>3, <1>4, <1>5, <1>6, <1>7, <1>8, <1>9, <1>10 DEF Recovery

LEMMA OldTidsGiven ==
    ASSUME Types, NEW s \in Server, Given(s), UNCHANGED <<disk, current>> PROVE OldTids
<1>1. /\ trans[s].phase \in {"open", "abort"} /\ aborted' = aborted \cup {trans[s].tid}
      /\ \A u \in Server : u # s => trans'[u] = trans[u]
      /\ trans'[s] = NoTrans
    BY DEF Given, Types
<1>2. Active(s) /\ ~Active(s)'
    BY <1>1 DEF Active, NoTrans
<1> QED
    BY <1>1, <1>2 DEF OldTids, Active

\* What a commit installs is what the transaction has sent.
LEMMA InstalledData ==
    ASSUME Types, Control, Transactions, Calls, NEW s \in Server, NEW t \in Server,
           t \in trans[s].todo, t # s, Installed(s, t)
    PROVE  /\ Leader(s) /\ t \in currentDB[s] /\ current[t].data = Parts(trans[s].tid)
           /\ (s \in trans[s].ok \/ ~trans[s].done)
<1>1. trans[s].phase = "commit" /\ Carries(s, t)
    BY DEF Installed
<1>2. Leader(s) /\ t \in currentDB[s] /\ Active(s)
    BY <1>1 DEF Transactions, CommitOK, Active
<1>3. Carried(s, t)
    BY <1>1, <1>2 DEF Calls
<1> QED
    BY <1>1, <1>2, <1>3 DEF Carried

LEMMA OldTidsContact ==
    ASSUME Types, Control, Transactions, Tids, Calls, NEW s \in Server, NEW t \in Server,
           Contact(s, t)
    PROVE  OldTids
<1>1. /\ Active(s)
      /\ current[t].tid.epoch = trans[s].tid.epoch => current[t].tid.counter <= trans[s].tid.counter
    BY ContactLast
<1>2. /\ t \in trans[s].todo /\ t # s /\ aborted' = aborted
      /\ \A u \in Server : u # t => current'[u] = current[u]
    BY <1>1, ContactDoes
<1>3. PICK good \in BOOLEAN, ok \in SUBSET Server : Called(s, t, good, ok)
    BY <1>1, ContactDoes
<1>4. TransIs(s, trans[s].phase, trans[s].sent, trans[s].todo \ {t}, ok, trans[s].done)
    BY <1>3 DEF Called
<1>5. CASE Quiet(t) /\ UNCHANGED <<disk, version>>
    BY <1>2, <1>4, <1>5, QuietTid, TransIsTids DEF OldTids
<1>6. CASE Stored(s, t) /\ UNCHANGED <<disk, version>>
  <2>1. current'[t].tid = trans[s].tid
      BY <1>6 DEF Stored
  <2> QED
      BY <1>1, <1>2, <1>4, <1>6, <2>1, TransIsTids DEF OldTids
<1>7. CASE Installed(s, t)
  <2>1. Quiet(t) /\ current[t].data = Parts(trans[s].tid)
      BY <1>2, <1>7, InstalledData DEF Installed
  <2>2. disk' = [disk EXCEPT ![t] = [label |-> version'[t],
            data |-> disk[t].data \cup current[t].data]]
      BY <1>7 DEF Installed
  <2>3. /\ \A u \in Server : u # t => disk'[u] = disk[u]
        /\ disk'[t].data = disk[t].data \cup Parts(trans[s].tid)
      BY <2>1, <2>2 DEF Types
  <2>4. \A d \in Parts(trans[s].tid) : d[1] = trans[s].tid
      BY DEF Parts
  <2> QED
      BY <1>2, <1>4, <2>1, <2>3, <2>4, QuietTid, TransIsTids DEF OldTids
<1> QED
    BY <1>3, <1>5, <1>6, <1>7 DEF Called

LEMMA OldTidsTransact ==
    ASSUME Types, Control, Transactions, Tids, Calls, NEW s \in Server, Transact(s)
    PROVE  OldTids \/ Begin(s)
<1>1. ASSUME NEW phase, NEW sent, NEW todo, NEW ok, NEW done,
             TransIs(s, phase, sent, todo, ok, done), trans[s].phase # "none",
             UNCHANGED <<disk, current, aborted>>
      PROVE  OldTids
    BY <1>1, TransIsTids DEF Active, OldTids
<1>2. CASE Update(s) \/ UpdateEnd(s) \/ UndoEnd(s)
    BY <1>1, <1>2, UpdateDoes, UpdateEndDoes, UndoEndDoes
<1>3. CASE AbortTrans(s)
  <2>1. CASE Given(s)
      BY <1>3, <2>1, AbortTransDoes, OldTidsGiven
  <2>2. CASE TransIs(s, "abort", trans[s].sent, currentDB[s], {}, trans[s].done)
             /\ UNCHANGED aborted
      BY <1>1, <1>3, <2>2, AbortTransDoes
  <2> QED
      BY <1>3, <2>1, <2>2, AbortTransDoes, Zenon
<1>4. CASE AbortEnd(s)
    BY <1>4, AbortEndDoes, OldTidsGiven
<1>5. CASE EndTrans(s)
  <2>1. CASE Given(s)
      BY <1>5, <2>1, EndTransDoes, OldTidsGiven
  <2>2. CASE /\ TransIs(s, "commit", trans[s].sent, currentDB[s] \cup {s}, {}, trans[s].done)
             /\ UNCHANGED aborted
      BY <1>1, <1>5, <2>2, EndTransDoes
  <2> QED
      BY <1>5, <2>1, <2>2, EndTransDoes, Zenon
<1>6. CASE LocalCommit(s)
  <2>1. /\ trans[s].phase = "commit"
        /\ \E ok : TransIs(s, "commit", trans[s].sent, trans[s].todo \ {s}, ok, TRUE)
        /\ UNCHANGED <<current, aborted>>
      BY <1>6, LocalCommitDoes
  <2>2. \A u \in Server : trans'[u].tid = trans[u].tid /\ (Active(u)' => Active(u))
      BY <2>1, TransIsTids DEF Active
  <2>3. /\ \A u \in Server : u # s => disk'[u] = disk[u]
        /\ disk'[s].data \subseteq disk[s].data \cup Parts(trans[s].tid)
    <3>1. \/ disk' = disk
          \/ disk' = [disk EXCEPT ![s] =
                        [label |-> [epoch |-> version[s].epoch, counter |-> version[s].counter + 1],
                         data |-> disk[s].data \cup Parts(trans[s].tid)]]
        BY <1>6, LocalCommitDoes, Zenon
    <3> QED
        BY <3>1 DEF Types
  <2>4. \A d \in Parts(trans[s].tid) : d[1] = trans[s].tid
      BY DEF Parts
  <2> QED
      BY <2>1, <2>2, <2>3, <2>4 DEF OldTids
<1>7. CASE CommitEnd(s)
    BY <1>1, <1>7, CommitEndDoes
<1>8. CASE ReleaseEnd(s)
  <2>1. trans' = [trans EXCEPT ![s] = NoTrans] /\ UNCHANGED <<disk, current, aborted>>
      BY <1>8, ReleaseEndDoes
  <2>2. trans'[s] = NoTrans /\ \A u \in Server : u # s => trans'[u] = trans[u]
      BY <2>1 DEF Types
  <2> QED
      BY <2>1, <2>2 DEF OldTids, Active
<1> QED
    BY <1>2, <1>3, <1>4, <1>5, <1>6, <1>7, <1>8, OldTidsContact DEF Transact

LEMMA OldTidsStep ==
    ASSUME Types, Control, Transactions, Tids, Calls, [Next]_vars
    PROVE  OldTids \/ \E s \in Server : Begin(s)
<1>1. CASE UNCHANGED vars
    BY <1>1, OldTidsSame DEF vars, dbVars, clientVars
<1>2. CASE Lapse
    BY <1>2, OldTidsSame DEF Lapse, dbVars, clientVars
<1> QED
    BY <1>1, <1>2, OldTidsElection, OldTidsRecovery, OldTidsTransact, OldTidsRestart DEF Next

\* No step makes a tid that is ahead, or gives up one that goes on.
LEMMA TidsStep ==
    ASSUME Types, Types', Control, Transactions, Transactions', Tids, Calls, [Next]_vars PROVE Tids'
BY OldTidsStep, MandateStep, TidsKeep, TidsBegin

-----------------------------------------------------------------------------
(* Labels are kept.                                                        *)

LEMMA LabelsFrame ==
    ASSUME Types, Types', Labels, Mandates, NEW s \in Server,
           \A u \in Server : u # s =>
               /\ disk'[u] = disk[u] /\ version'[u] = version[u]
               /\ thread'[u].at = "fetching" <=> thread[u].at = "fetching",
           NextLabelOK(version'[s]), version'[s].epoch > 0,
           disk'[s].label = version'[s] \/ thread'[s].at = "fetching",
           thread'[s].at = "fetching" => disk'[s] = [label |-> Zero, data |-> Garbage],
           \A u, t \in Server : NextLabelOK(known'[u][t])
    PROVE  Labels'
<1>1. ASSUME NEW u \in Server, u # s
      PROVE  /\ NextLabelOK(version'[u]) /\ version'[u].epoch > 0
             /\ disk'[u].label = version'[u] \/ thread'[u].at = "fetching"
             /\ thread'[u].at = "fetching" => disk'[u] = [label |-> Zero, data |-> Garbage]
  <2>1. version[u] \in Version /\ LabelOK(version[u])
      BY TypeFacts DEF Labels
  <2>2. NextLabelOK(version[u])
      BY <2>1, VersionKeeps
  <2> QED
      BY <1>1, <2>2 DEF Labels
<1> QED
    BY <1>1 DEF Labels, LabelOK, NextLabelOK

LEMMA KnownKeeps ==
    ASSUME Types, Types', Labels, Mandates, NEW u \in Server, NEW t \in Server,
           known'[u][t] = known[u][t]
    PROVE  NextLabelOK(known'[u][t])
<1>1. known[u][t] \in Version /\ LabelOK(known[u][t])
    BY ThreadFacts DEF Labels
<1> QED
    BY <1>1, VersionKeeps

LEMMA VersionStays ==
    ASSUME Types, Types', Labels, Mandates, NEW u \in Server
    PROVE  NextLabelOK(version[u]) /\ version[u].epoch > 0
<1>1. version[u] \in Version /\ LabelOK(version[u]) /\ version[u].epoch > 0
    BY TypeFacts DEF Labels
<1> QED
    BY <1>1, VersionKeeps

\* A counter may be raised.
LEMMA VersionRaised ==
    ASSUME Types, Types', Labels, Mandates, NEW u \in Server, NEW n
    PROVE  /\ NextLabelOK([epoch |-> version[u].epoch, counter |-> n])
           /\ [epoch |-> version[u].epoch, counter |-> n].epoch > 0
BY VersionStays DEF NextLabelOK

\* Nothing of the database changes.
LEMMA LabelsStay ==
    ASSUME Types, Types', Labels, Mandates, UNCHANGED <<disk, version>>,
           \A u \in Server : thread'[u].at = "fetching" <=> thread[u].at = "fetching",
           \A u, t \in Server : NextLabelOK(known'[u][t])
    PROVE  Labels'
<1>1. PICK s \in Server : TRUE
    BY ServerAssumption
<1>2. NextLabelOK(version'[s]) /\ version'[s].epoch > 0
    BY VersionStays
<1>3. /\ disk'[s].label = version'[s] \/ thread'[s].at = "fetching"
      /\ thread'[s].at = "fetching" => disk'[s] = [label |-> Zero, data |-> Garbage]
    BY DEF Labels
<1> QED
    BY <1>2, <1>3, LabelsFrame

\* Of a server nobody writes at, the label is the version.
LEMMA FreeLabel ==
    ASSUME Types, Labels, NEW t \in Server, VersionFree(t)
    PROVE  disk[t].label = version[t] /\ thread[t].at # "fetching"
BY DEF Labels, VersionFree

LEMMA LabelsSame ==
    ASSUME Types, Types', Labels, Mandates, UNCHANGED <<disk, version, known, thread>> PROVE Labels'
BY LabelsStay, KnownKeeps

LEMMA LabelsThread ==
    ASSUME Types, Types', Labels, Mandates, UNCHANGED <<disk, version, known>>,
           NEW s \in Server, NEW at, NEW todo, NEW heard, NEW best,
           ThreadIs(s, at, todo, heard, best), at # "fetching", thread[s].at # "fetching"
    PROVE  Labels'
<1>1. \A u \in Server : thread'[u].at = "fetching" <=> thread[u].at = "fetching"
    BY DEF ThreadIs
<1> QED
    BY <1>1, LabelsStay, KnownKeeps

LEMMA LabelsRestart ==
    ASSUME Types, Types', Labels, Mandates, NEW s \in Server, Restart(s) PROVE Labels'
<1>1. /\ thread[s].at # "fetching" /\ disk' = disk
      /\ version' = [version EXCEPT ![s] = disk[s].label]
      /\ thread' = [thread EXCEPT ![s] = Asleep]
      /\ known' = [known EXCEPT ![s] = [t \in Server |-> Zero]]
    BY DEF Restart
<1>2. disk[s].label = version[s]
    BY <1>1 DEF Labels
<1>3. version' = version
    BY <1>1, <1>2 DEF Types
<1>4. \A u \in Server : thread'[u].at = "fetching" <=> thread[u].at = "fetching"
    BY <1>1 DEF Types, Asleep
<1>5. ASSUME NEW u \in Server, NEW t \in Server PROVE NextLabelOK(known'[u][t])
  <2>1. known'[u][t] = known[u][t] \/ known'[u][t] = Zero
      BY <1>1, ThreadFacts
  <2>2. NextLabelOK(Zero)
      BY ZeroOK, Constants, VersionKeeps
  <2> QED
      BY <2>1, <2>2, KnownKeeps
<1> QED
    BY <1>1, <1>3, <1>4, <1>5, LabelsStay

LEMMA LabelsFind ==
    ASSUME Types, Types', Labels, Mandates, NEW s \in Server, NEW t \in Server, Find(s, t)
    PROVE  Labels'
<1>1. /\ thread[s].at = "find" /\ UNCHANGED <<disk, version>>
      /\ \A u, w \in Server : u # s \/ w # t => known'[u][w] = known[u][w]
    BY FindDoes
<1>2. \A u \in Server : thread'[u].at = "fetching" <=> thread[u].at = "fetching"
    BY <1>1, FindDoes DEF ThreadIs
<1>3. NextLabelOK(known'[s][t])
  <2>1. CASE VersionFree(t) /\ known'[s][t] = disk[t].label
      BY <2>1, FreeLabel, VersionStays
  <2>2. ASSUME NEW u \in Others(s), known'[s][t] = known[s][u] PROVE NextLabelOK(known'[s][t])
    <3>1. u \in Server
        BY DEF Others
    <3>2. known[s][u] \in Version /\ LabelOK(known[s][u])
        BY <3>1, ThreadFacts DEF Labels
    <3> QED
        BY <2>2, <3>2, VersionKeeps
  <2>3. (VersionFree(t) /\ known'[s][t] = disk[t].label)
            \/ \E u \in Others(s) : known'[s][t] = known[s][u]
      BY FindDoes
  <2> QED
      BY <2>1, <2>2, <2>3
<1>4. \A u, w \in Server : NextLabelOK(known'[u][w])
    BY <1>1, <1>3, KnownKeeps
<1> QED
    BY <1>1, <1>2, <1>4, LabelsStay

LEMMA LabelsCheck ==
    ASSUME Types, Types', Labels, Mandates, NEW s \in Server, NEW t \in Server, Check(s, t)
    PROVE  Labels'
<1>1. /\ VersionFree(t) /\ UNCHANGED <<disk, version, thread>>
      /\ known' = [known EXCEPT ![s][t] = disk[t].label]
    BY DEF Check, dbVars
<1>2. NextLabelOK(disk[t].label)
    BY <1>1, FreeLabel, VersionStays
<1>3. \A u, w \in Server : known'[u][w] = known[u][w] \/ known'[u][w] = disk[t].label
  <2>1. known \in [Server -> [Server -> Version]]
      BY DEF Types
  <2> QED
      BY <1>1, <2>1
<1>4. \A u, w \in Server : NextLabelOK(known'[u][w])
    BY <1>2, <1>3, KnownKeeps
<1> QED
    BY <1>1, <1>4, LabelsStay

LEMMA LabelsFetchStart ==
    ASSUME Types, Types', Labels, Mandates, NEW s \in Server, FetchStart(s) PROVE Labels'
<1>1. /\ disk' = [disk EXCEPT ![s] = [label |-> Zero, data |-> Garbage]]
      /\ ThreadIs(s, "fetching", {}, {}, thread[s].best) /\ UNCHANGED <<version, known>>
    BY FetchStartDoes
<1>2. /\ disk'[s] = [label |-> Zero, data |-> Garbage] /\ thread'[s].at = "fetching"
      /\ \A u \in Server : u # s => disk'[u] = disk[u] /\ thread'[u] = thread[u]
    BY <1>1 DEF Types, ThreadIs
<1>3. NextLabelOK(version'[s]) /\ version'[s].epoch > 0
    BY <1>1, VersionStays
<1>4. \A u, w \in Server : NextLabelOK(known'[u][w])
    BY <1>1, KnownKeeps
<1> QED
    BY <1>1, <1>2, <1>3, <1>4, LabelsFrame

LEMMA LabelsFetchEnd ==
    ASSUME Types, Types', Control, Labels, Mandates, NEW s \in Server, FetchEnd(s) PROVE Labels'
<1>1. /\ thread[s].at = "fetching" /\ VersionFree(thread[s].best)
      /\ disk' = [disk EXCEPT ![s] = disk[thread[s].best]]
      /\ version' = [version EXCEPT ![s] = disk[thread[s].best].label]
      /\ ThreadIs(s, "label", {}, {}, NoOne) /\ UNCHANGED known
    BY FetchEndDoes
<1>2. PICK t \in Server : t = thread[s].best /\ t # s
    BY <1>1 DEF Control, LoopsOK, Others
<1>3. disk[t].label = version[t]
    BY <1>1, <1>2, FreeLabel
<1>4. /\ disk'[s].label = version[t] /\ version'[s] = version[t] /\ thread'[s].at = "label"
      /\ \A u \in Server : u # s => /\ disk'[u] = disk[u] /\ version'[u] = version[u]
                                    /\ thread'[u] = thread[u]
    BY <1>1, <1>2, <1>3 DEF Types, ThreadIs
<1>5. NextLabelOK(version'[s]) /\ version'[s].epoch > 0
    BY <1>4, VersionStays
<1>6. \A u, w \in Server : NextLabelOK(known'[u][w])
    BY <1>1, KnownKeeps
<1> QED
    BY <1>4, <1>5, <1>6, LabelsFrame

LEMMA LabelsLabel ==
    ASSUME Types, Types', Control, Control', Labels, Mandates, NEW s \in Server, Label(s)
    PROVE  Labels'
<1> DEFINE v == [epoch |-> clock, counter |-> 1]
<1>1. /\ version' = [version EXCEPT ![s] = v]
      /\ disk' = [disk EXCEPT ![s] = [label |-> v, data |-> disk[s].data]]
      /\ epochTime' = [epochTime EXCEPT ![s] = clock]
      /\ ThreadIs(s, "send", {}, {}, NoOne) /\ UNCHANGED <<known, clock>>
    BY LabelDoes
<1>2. v.epoch = clock
    OBVIOUS
<1> HIDE DEF v
<1>3. /\ disk'[s].label = v /\ version'[s] = v /\ thread'[s].at = "send"
      /\ \A u \in Server : u # s => /\ disk'[u] = disk[u] /\ version'[u] = version[u]
                                    /\ thread'[u] = thread[u]
    BY <1>1 DEF Types, ThreadIs
<1>4. epochTime'[s] = clock'
  <2>1. epochTime \in [Server -> 0 .. MaxEpoch]
      BY DEF Types
  <2> QED
      BY <1>1, <2>1
<1>5. \A u \in Server : ~Unlabelled(u)'
    BY <1>4 DEF Control, OneActs, Unlabelled, Acts, Leader
<1>6. NextLabelOK(v) /\ v.epoch > 0
    BY <1>1, <1>2, <1>5, Times DEF NextLabelOK
<1>7. \A u, w \in Server : NextLabelOK(known'[u][w])
    BY <1>1, KnownKeeps
<1> QED
    BY <1>3, <1>6, <1>7, LabelsFrame

LEMMA LabelsSend ==
    ASSUME Types, Types', Labels, Mandates, NEW s \in Server, NEW t \in Server, Send(s, t)
    PROVE  Labels'
<1>1. /\ thread[s].at = "sending" /\ (Sent(s, t) \/ UNCHANGED <<disk, version>>)
      /\ known' = known \/ known' = [known EXCEPT ![s][t] = version[s]]
    BY SendDoes, Zenon
<1>2. \A u \in Server : thread'[u].at = thread[u].at
    BY <1>1, SendDoes DEF ThreadIs
<1>3. ASSUME NEW u \in Server, NEW w \in Server PROVE NextLabelOK(known'[u][w])
  <2>1. known \in [Server -> [Server -> Version]]
      BY DEF Types
  <2>2. known'[u][w] = known[u][w] \/ known'[u][w] = version[s]
      BY <1>1, <2>1
  <2> QED
      BY <2>2, KnownKeeps, VersionStays
<1>4. CASE Sent(s, t)
  <2>1. /\ VersionFree(t)
        /\ disk' = [disk EXCEPT ![t] = [label |-> version[s], data |-> disk[s].data]]
        /\ version' = [version EXCEPT ![t] = version[s]]
      BY <1>4 DEF Sent
  <2>2. /\ disk'[t].label = version[s] /\ version'[t] = version[s]
        /\ \A u \in Server : u # t => disk'[u] = disk[u] /\ version'[u] = version[u]
      BY <2>1 DEF Types
  <2>3. thread'[t].at # "fetching"
      BY <1>2, <2>1, FreeLabel
  <2>4. NextLabelOK(version'[t]) /\ version'[t].epoch > 0
      BY <2>2, VersionStays
  <2> QED
      BY <1>2, <1>3, <2>2, <2>3, <2>4, LabelsFrame
<1>5. CASE UNCHANGED <<disk, version>>
    BY <1>2, <1>3, <1>5, LabelsStay
<1> QED
    BY <1>1, <1>4, <1>5

LEMMA LabelsContact ==
    ASSUME Types, Types', Transactions, Tids, Labels, Mandates, NEW s \in Server, NEW t \in Server,
           Contact(s, t)
    PROVE  Labels'
<1>1. /\ Active(s)
      /\ current[t].tid.epoch = trans[s].tid.epoch => current[t].tid.counter <= trans[s].tid.counter
    BY ContactLast
<1>2. UNCHANGED <<thread, known>> /\ (Installed(s, t) \/ UNCHANGED <<disk, version>>)
    BY <1>1, ContactDoes DEF Called
<1>3. CASE Installed(s, t)
  <2>1. /\ VersionFree(t)
        /\ version' = [version EXCEPT ![t] = [epoch |-> version[t].epoch,
                                              counter |-> version[t].counter + 1]]
        /\ disk' = [disk EXCEPT ![t] = [label |-> version'[t],
                                        data |-> disk[t].data \cup current[t].data]]
      BY <1>3 DEF Installed
  <2>2. /\ version'[t] = [epoch |-> version[t].epoch, counter |-> version[t].counter + 1]
        /\ \A u \in Server : u # t => version'[u] = version[u]
      BY <2>1 DEF Types
  <2>3. disk'[t].label = version'[t] /\ \A u \in Server : u # t => disk'[u] = disk[u]
      BY <2>1 DEF Types
  <2>4. thread'[t].at # "fetching"
      BY <1>2, <2>1, FreeLabel
  <2>5. NextLabelOK(version'[t]) /\ version'[t].epoch > 0
      BY <2>2, VersionRaised
  <2>6. \A u, w \in Server : NextLabelOK(known'[u][w])
      BY <1>2, KnownKeeps
  <2> QED
      BY <1>2, <2>2, <2>3, <2>4, <2>5, <2>6, LabelsFrame
<1>4. CASE UNCHANGED <<disk, version>>
    BY <1>2, <1>4, LabelsSame
<1> QED
    BY <1>2, <1>3, <1>4

LEMMA LabelsLocalCommit ==
    ASSUME Types, Types', Control, Transactions, Labels, Mandates, NEW s \in Server, LocalCommit(s)
    PROVE  Labels'
<1> DEFINE v == [epoch |-> version[s].epoch, counter |-> version[s].counter + 1]
<1>1. /\ trans[s].phase = "commit" /\ UNCHANGED <<thread, known>>
      /\ \/ UNCHANGED <<disk, version>>
         \/ /\ version' = [version EXCEPT ![s] = v]
            /\ disk' = [disk EXCEPT ![s] =
                        [label |-> v, data |-> disk[s].data \cup Parts(trans[s].tid)]]
    BY LocalCommitDoes, Zenon
<1>2. NextLabelOK(v) /\ v.epoch > 0
    BY VersionRaised
<1> HIDE DEF v
<1>3. CASE /\ version' = [version EXCEPT ![s] = v]
           /\ disk' = [disk EXCEPT ![s] =
                        [label |-> v, data |-> disk[s].data \cup Parts(trans[s].tid)]]
  <2>1. /\ version'[s] = v /\ disk'[s].label = v
        /\ \A u \in Server : u # s => disk'[u] = disk[u] /\ version'[u] = version[u]
      BY <1>3 DEF Types
  <2>2. thread'[s].at # "fetching"
      BY <1>1 DEF Transactions, CommitOK, Control, ActsOK
  <2>3. \A u, w \in Server : NextLabelOK(known'[u][w])
      BY <1>1, KnownKeeps
  <2> QED
      BY <1>1, <1>2, <2>1, <2>2, <2>3, LabelsFrame
<1>4. CASE UNCHANGED <<disk, version>>
    BY <1>1, <1>4, LabelsSame
<1> QED
    BY <1>1, <1>3, <1>4

LEMMA LabelsCommitEnd ==
    ASSUME Types, Types', Labels, Mandates, NEW s \in Server, CommitEnd(s) PROVE Labels'
<1>1. /\ UNCHANGED <<disk, version, thread>>
      /\ \A u \in Server : u # s => known'[u] = known[u]
      /\ \A t \in Server : known'[s][t] = version[s] \/ known'[s][t] = known[s][t]
    BY CommitEndDoes
<1>2. ASSUME NEW u \in Server, NEW w \in Server PROVE NextLabelOK(known'[u][w])
    BY <1>1, KnownKeeps, VersionStays
<1> QED
    BY <1>1, <1>2, LabelsStay

\* No step makes a label of a mandate that did not label.
LEMMA LabelsStep ==
    ASSUME Types, Types', Control, Control', Transactions, Tids, Labels, [Next]_vars PROVE Labels'
<1>0. Mandates
    BY MandateStep
<1>1. CASE UNCHANGED vars
    BY <1>0, <1>1, LabelsSame DEF vars, dbVars, recVars
<1>2. CASE Lapse
    BY <1>0, <1>2, LabelsSame DEF Lapse, dbVars
<1>3. ASSUME NEW s \in Server, Election(s) PROVE Labels'
    BY <1>0, <1>3, LabelsSame DEF Election, Elect, Elected, Beacon, dbVars, recVars
<1>4. ASSUME NEW s \in Server, Recovery(s) PROVE Labels'
  <2>1. CASE Wake(s)
      BY <1>0, <2>1, WakeDoes, LabelsThread
  <2>2. CASE FindEnd(s)
      BY <1>0, <2>2, FindEndDoes, LabelsThread
  <2>3. CASE SendStart(s)
      BY <1>0, <2>3, SendStartDoes, LabelsThread
  <2>4. CASE SendEnd(s)
      BY <1>0, <2>4, SendEndDoes, LabelsThread
  <2> QED
      BY <1>0, <1>4, <2>1, <2>2, <2>3, <2>4, LabelsCheck, LabelsFind, LabelsFetchStart,
         LabelsFetchEnd,
         LabelsLabel, LabelsSend DEF Recovery
<1>5. ASSUME NEW s \in Server, Transact(s) PROVE Labels'
  <2>1. CASE Begin(s) \/ Update(s) \/ UpdateEnd(s) \/ UndoEnd(s)
      BY <1>0, <2>1, LabelsSame, BeginDoes, UpdateDoes, UpdateEndDoes, UndoEndDoes
  <2>2. CASE AbortTrans(s) \/ AbortEnd(s) \/ EndTrans(s) \/ ReleaseEnd(s)
      BY <1>0, <2>2, LabelsSame, AbortTransDoes, AbortEndDoes, EndTransDoes, ReleaseEndDoes
  <2> QED
      BY <1>0, <1>5, <2>1, <2>2, LabelsLocalCommit, LabelsCommitEnd, LabelsContact DEF Transact
<1> QED
    BY <1>0, <1>1, <1>2, <1>3, <1>4, <1>5, LabelsRestart DEF Next

-----------------------------------------------------------------------------
(* Calls: the election, restarts and recovery.                             *)

CallsAt(s) ==
    /\ Leader(s) /\ Active(s) => \A t \in currentDB[s] : Carries(s, t) => Carried(s, t)
    /\ trans[s].phase = "commit" /\ trans[s].ok # {} => s \in trans[s].ok \/ Pending(s)
    /\ trans[s].phase = "release" /\ trans[s].ok # {} => s \in trans[s].ok

LEMMA CallsAll == Calls <=> \A s \in Server : CallsAt(s)
BY DEF Calls, CallsAt

LEMMA QuietCarries ==
    ASSUME NEW s \in Server, NEW t \in Server, Quiet(t), trans'[s].tid = trans[s].tid,
           Carries(s, t)'
    PROVE  Carries(s, t) /\ current'[t] = current[t]
BY DEF Carries, Quiet, NoCurrent

\* A transaction that is left alone, while the remote ones go on or end.
LEMMA CallsKeep ==
    ASSUME NEW s \in Server, CallsAt(s), trans'[s] = trans[s], Leader(s)' => Leader(s),
           currentDB'[s] \subseteq currentDB[s], currentDB[s] \subseteq Server,
           \A t \in currentDB[s] : Carries(s, t)' => Carries(s, t)
               /\ current'[t].data = current[t].data
    PROVE  CallsAt(s)'
<1>1. Active(s)' = Active(s) /\ Pending(s)' = Pending(s)
    BY DEF Active, Pending
<1>2. ASSUME Leader(s)', Active(s)', NEW t \in currentDB'[s], Carries(s, t)' PROVE Carried(s, t)'
  <2>1. Carried(s, t) /\ current'[t].data = current[t].data
      BY <1>1, <1>2 DEF CallsAt
  <2> QED
      BY <2>1 DEF Carried
<1>3. CallsAt(s)' <=>
        /\ Leader(s)' /\ Active(s)' => \A t \in currentDB'[s] : Carries(s, t)' => Carried(s, t)'
        /\ trans'[s].phase = "commit" /\ trans'[s].ok # {} => s \in trans'[s].ok \/ Pending(s)'
        /\ trans'[s].phase = "release" /\ trans'[s].ok # {} => s \in trans'[s].ok
    BY DEF CallsAt
<1> QED
    BY <1>1, <1>2, <1>3 DEF CallsAt

\* A transaction that is not the leader's, whatever is called.
LEMMA CallsElsewhere ==
    ASSUME NEW s \in Server, CallsAt(s), trans'[s].phase = trans[s].phase,
           trans'[s].ok = trans[s].ok,
           trans[s].phase # "commit", ~Leader(s)' \/ currentDB'[s] = {}
    PROVE  CallsAt(s)'
BY DEF CallsAt

LEMMA CallsOver ==
    ASSUME NEW s \in Server, trans'[s] = NoTrans PROVE CallsAt(s)'
<1>1. ~Active(s)' /\ trans'[s].phase = "none"
    BY DEF Active, NoTrans
<1> QED
    BY <1>1 DEF CallsAt

LEMMA CallsQuiet ==
    ASSUME Types, NEW s \in Server, CallsAt(s), trans'[s] = trans[s], Leader(s)' => Leader(s),
           currentDB'[s] \subseteq currentDB[s], \A t \in Server : Quiet(t)
    PROVE  CallsAt(s)'
<1>1. currentDB[s] \subseteq Server
    BY TypeFacts
<1>2. \A t \in Server : Carries(s, t)' => Carries(s, t) /\ current'[t].data = current[t].data
    BY QuietCarries
<1> QED
    BY <1>1, <1>2, CallsKeep

LEMMA CallsSame ==
    ASSUME Types, Calls, UNCHANGED <<current, trans>>, \A u \in Server : Leader(u)' => Leader(u),
           \A u \in Server : currentDB'[u] \subseteq currentDB[u]
    PROVE  Calls'
<1>1. \A t \in Server : Quiet(t)
    BY DEF Quiet
<1>2. \A s \in Server : CallsAt(s)'
    BY <1>1, CallsAll, CallsQuiet
<1>3. Calls' <=> \A s \in Server : CallsAt(s)'
    BY DEF Calls, CallsAt
<1> QED
    BY <1>2, <1>3

LEMMA CallsNext == Calls' <=> \A s \in Server : CallsAt(s)'
BY DEF Calls, CallsAt

LEMMA CallsElection ==
    ASSUME Types, Control, Calls, NEW s \in Server, Election(s) PROVE Calls'
<1>1. UNCHANGED <<trans, currentDB, epochTime>>
    BY DEF Election, Elect, Elected, Beacon, tidVars
<1>2. \A u \in Server : \E x : current'[u] \in {current[u], CheckTid(u, x)}
    BY DEF Election, Elect, Elected, Beacon, Types
<1>3. \A u \in Server : Quiet(u)
    BY <1>2, CheckTidQuiet DEF Quiet
<1>4. \A u \in Server : Leader(u)' => Leader(u)
  <2>1. clock' = clock \/ clock' = clock + 1
      BY DEF Election, Elect, Elected, Beacon, tidVars
  <2>2. \A u \in Server : epochTime[u] <= clock
      BY DEF Control, ActsOK
  <2> QED
      BY <1>1, <2>1, <2>2, Times DEF Leader
<1>5. \A u \in Server : CallsAt(u)'
    BY <1>1, <1>3, <1>4, CallsAll, CallsQuiet
<1> QED
    BY <1>5, CallsNext

LEMMA CallsRestart ==
    ASSUME Types, Calls, NEW s \in Server, Restart(s) PROVE Calls'
<1>1. /\ trans'[s] = NoTrans /\ current'[s] = NoCurrent /\ clock' = clock
      /\ \A u \in Server : u # s => /\ trans'[u] = trans[u] /\ current'[u] = current[u]
                                    /\ epochTime'[u] = epochTime[u] /\ currentDB'[u] = currentDB[u]
    BY DEF Restart, Types
<1>2. \A u \in Server : Quiet(u)
    BY <1>1 DEF Quiet
<1>3. ASSUME NEW u \in Server PROVE CallsAt(u)'
  <2>1. CASE u = s
      BY <1>1, <2>1, CallsOver
  <2>2. CASE u # s
      BY <1>1, <1>2, <2>2, CallsAll, CallsQuiet DEF Leader
  <2> QED
      BY <2>1, <2>2
<1> QED
    BY <1>3, CallsNext

\* urecovery_AbortAll at a server that has no label to give any more.
LEMMA CallsAborted ==
    ASSUME Types, Calls, NEW t \in Server, trans[t].phase # "commit",
           TransIs(t, trans[t].phase, trans[t].sent, trans[t].todo, trans[t].ok, TRUE),
           \A u \in Server : Quiet(u),
           ~Leader(t)' \/ currentDB'[t] = {},
           \A u \in Server : u # t => \/ (Leader(u)' => Leader(u)) /\ currentDB'[u] \subseteq currentDB[u]
                                      \/ ~Active(u)
    PROVE  Calls'
<1>1. CallsAt(t)'
    BY CallsAll, CallsElsewhere DEF TransIs
<1>2. ASSUME NEW u \in Server, u # t PROVE CallsAt(u)'
  <2>1. trans'[u] = trans[u]
      BY <1>2 DEF TransIs
  <2>2. CASE ~Active(u)
      BY <2>1, <2>2 DEF CallsAt, Active
  <2>3. CASE (Leader(u)' => Leader(u)) /\ currentDB'[u] \subseteq currentDB[u]
      BY <2>1, <2>3, CallsAll, CallsQuiet
  <2> QED
      BY <1>2, <2>2, <2>3
<1> QED
    BY <1>1, <1>2, CallsNext

LEMMA CallsRecovery ==
    ASSUME Types, Control, Transactions, Calls, NEW s \in Server, Recovery(s) PROVE Calls'
<1>1. ASSUME UNCHANGED <<current, trans, currentDB, epochTime, clock>> PROVE Calls'
    BY <1>1, CallsSame DEF Leader
<1>2. CASE Wake(s) \/ FindEnd(s) \/ FetchEnd(s) \/ SendStart(s) \/ SendEnd(s)
    BY <1>1, <1>2, WakeDoes, FindEndDoes, FetchEndDoes, SendStartDoes, SendEndDoes
<1>3. ASSUME NEW t \in Server, Find(s, t) PROVE Calls'
    BY <1>1, <1>3, FindDoes
<1>4. ASSUME NEW t \in Server, Check(s, t) PROVE Calls'
  <2>1. /\ UNCHANGED <<current, trans, epochTime, clock>>
        /\ currentDB' = [currentDB EXCEPT ![s] = @ \ {t}]
      BY <1>4 DEF Check, tidVars
  <2>2. \A u \in Server : currentDB'[u] \subseteq currentDB[u]
      BY <2>1 DEF Types
  <2> QED
      BY <2>1, <2>2, CallsSame DEF Leader
<1>5. CASE FetchStart(s)
  <2>1. /\ trans[s].phase # "commit" /\ thread[s].at = "fetch"
        /\ TransIs(s, trans[s].phase, trans[s].sent, trans[s].todo, trans[s].ok, TRUE)
        /\ \A u \in Server : Quiet(u)
        /\ UNCHANGED <<currentDB, epochTime, clock>>
      BY <1>5, FetchStartDoes DEF VersionFree
  <2>2. ~Leader(s)'
      BY <2>1 DEF Control, ActsOK, Leader
  <2> QED
      BY <2>1, <2>2, CallsAborted DEF Leader
<1>6. CASE Label(s)
  <2>1. /\ trans[s].phase # "commit" /\ thread[s].at = "label"
        /\ TransIs(s, trans[s].phase, trans[s].sent, trans[s].todo, trans[s].ok, TRUE)
        /\ \A u \in Server : Quiet(u)
        /\ UNCHANGED <<currentDB, clock>>
      BY <1>6, LabelDoes DEF VersionFree
  <2>2. currentDB'[s] = {}
      BY <2>1 DEF Control, ActsOK, Unlabelled, Acts
  <2>3. \A u \in Server : u # s => epochTime'[u] = epochTime[u]
    <3>1. epochTime \in [Server -> 0 .. MaxEpoch]
        BY DEF Types
    <3> QED
        BY <1>6, <3>1, LabelDoes
  <2> QED
      BY <2>1, <2>2, <2>3, CallsAborted DEF Leader
<1>7. ASSUME NEW t \in Server, Send(s, t) PROVE Calls'
  <2>1. /\ thread[s].at = "sending" /\ t \in thread[s].todo
        /\ Sent(s, t) \/ trans' = trans
        /\ \A u \in Server : Quiet(u)
        /\ UNCHANGED <<epochTime, clock>>
      BY <1>7, SendDoes, Zenon
  <2>2. t # s /\ ~Leader(t) /\ ~Active(s)
    <3>1. LoopsOK(s) /\ Acts(s) /\ OneActs
        BY <2>1 DEF Control, Acts
    <3>2. t \in Others(s)
        BY <2>1, <3>1 DEF LoopsOK
    <3> QED
        BY <2>1, <3>1, <3>2 DEF OneActs, Acts, Others, Transactions, TransOK
  <2>3. /\ \A u \in Server : u # s => currentDB'[u] = currentDB[u]
    <3>1. currentDB' = currentDB \/ currentDB' = [currentDB EXCEPT ![s] = @ \cup {t}]
        BY <1>7, SendDoes, Zenon
    <3> QED
        BY <3>1 DEF Types
  <2>4. CASE Sent(s, t)
    <3>1. /\ trans[t].phase # "commit"
          /\ TransIs(t, trans[t].phase, trans[t].sent, trans[t].todo, trans[t].ok, TRUE)
        BY <2>4 DEF Sent, VersionFree
    <3> QED
        BY <2>1, <2>2, <2>3, <3>1, CallsAborted DEF Leader
  <2>5. CASE trans' = trans
    <3>1. ASSUME NEW u \in Server PROVE CallsAt(u)'
      <4>1. CASE u = s
          BY <2>2, <2>5, <4>1 DEF CallsAt, Active
      <4>2. CASE u # s
          BY <2>1, <2>3, <2>5, <4>2, CallsAll, CallsQuiet DEF Leader
      <4> QED
          BY <4>1, <4>2
    <3> QED
        BY <3>1, CallsNext
  <2> QED
      BY <2>1, <2>4, <2>5
<1> QED
    BY <1>2, <1>3, <1>4, <1>5, <1>6, <1>7 DEF Recovery

-----------------------------------------------------------------------------
(* Calls: the steps of a transaction that call nobody.                     *)

\* A step of one transaction that calls nobody.
LEMMA CallsOne ==
    ASSUME Types, Calls, NEW s \in Server, UNCHANGED <<current, epochTime, clock, currentDB>>,
           \A u \in Server : u # s => trans'[u] = trans[u],
           CallsAt(s)'
    PROVE  Calls'
<1>1. \A t \in Server : Quiet(t)
    BY DEF Quiet
<1>2. ASSUME NEW u \in Server, u # s PROVE CallsAt(u)'
    BY <1>1, <1>2, CallsAll, CallsQuiet DEF Leader
<1> QED
    BY <1>2, CallsNext

LEMMA CallsTransIs ==
    ASSUME Types, Calls, NEW s \in Server, UNCHANGED <<current, epochTime, clock, currentDB>>,
           NEW phase, NEW sent, NEW todo, NEW ok, NEW done,
           TransIs(s, phase, sent, todo, ok, done), Active(s),
           Leader(s) => \A t \in currentDB[s] : Carries(s, t) /\ Carried(s, t) => Carried(s, t)',
           phase = "commit" /\ ok # {} => s \in ok \/ Pending(s)',
           phase = "release" /\ ok # {} => s \in ok
    PROVE  Calls'
<1>1. trans'[s].tid = trans[s].tid /\ trans'[s].phase = phase /\ trans'[s].ok = ok
    BY DEF TransIs
<1>2. \A t \in currentDB[s] : Carries(s, t)' <=> Carries(s, t)
    BY <1>1 DEF Carries
<1>3. CallsAt(s)
    BY CallsAll
<1>4. Leader(s)' => \A t \in currentDB'[s] : Carries(s, t)' => Carried(s, t)'
    BY <1>2, <1>3 DEF CallsAt, Leader
<1>5. CallsAt(s)'
    BY <1>1, <1>4 DEF CallsAt
<1> QED
    BY <1>5, CallsOne DEF TransIs

LEMMA CallsBegin ==
    ASSUME Types, Control, Transactions, Tids, Calls, NEW s \in Server, Begin(s) PROVE Calls'
<1>1. /\ Leader(s) /\ trans'[s].phase = "open"
      /\ trans'[s].tid = [epoch |-> epochTime[s], counter |-> tidCounter[s] + 2]
      /\ UNCHANGED <<current, epochTime, clock, currentDB>>
      /\ \A u \in Server : u # s => trans'[u] = trans[u]
    BY TransBegin, BeginDoes
<1>2. ASSUME NEW t \in Server, Carries(s, t)' PROVE FALSE
  <2>1. /\ current[t].tid.epoch = clock /\ current[t].tid.counter = tidCounter[s] + 2
        /\ TidOK(current[t].tid) /\ tidCounter[s] \in Nat
      BY <1>1, <1>2, Times DEF Carries, Leader, Tids
  <2>2. current[t].tid.counter <= tidCounter[s]
      BY <1>1, <2>1 DEF TidOK
  <2> QED
      BY <2>1, <2>2
<1>3. CallsAt(s)'
  <2>1. currentDB'[s] \subseteq Server
      BY <1>1, TypeFacts
  <2> QED
      BY <1>1, <1>2, <2>1 DEF CallsAt
<1> QED
    BY <1>1, <1>3, CallsOne

LEMMA CallsUpdate ==
    ASSUME Types, Calls, NEW s \in Server, Update(s) PROVE Calls'
<1>1. /\ trans[s].phase = "open"
      /\ TransIs(s, "update", trans[s].sent, currentDB[s], {}, trans[s].done)
      /\ UNCHANGED <<current, epochTime, clock, currentDB>>
    BY UpdateDoes
<1>2. \A t \in currentDB[s] : Carried(s, t) => Carried(s, t)'
    BY <1>1 DEF Carried, TransIs
<1> QED
    BY <1>1, <1>2, CallsTransIs DEF Active

LEMMA CallsUpdateEnd ==
    ASSUME Types, Transactions, Calls, NEW s \in Server, UpdateEnd(s) PROVE Calls'
<1>1. /\ trans[s].phase = "update" /\ trans[s].todo = {}
      /\ UNCHANGED <<current, epochTime, clock, currentDB>>
    BY UpdateEndDoes
<1>2. CASE TransIs(s, "open", trans[s].sent + 1, trans[s].todo, {}, trans[s].done)
  <2>1. Leader(s) => trans[s].done = FALSE \/ currentDB[s] = {}
      BY <1>1, TypeFacts DEF Transactions, TransOK
  <2>2. Leader(s) => \A t \in currentDB[s] : Carried(s, t) => Carried(s, t)'
      BY <1>1, <1>2, <2>1 DEF Carried, TransIs
  <2> QED
      BY <1>1, <1>2, <2>2, CallsTransIs DEF Active
<1>3. CASE TransIs(s, "undo", trans[s].sent + 1, currentDB[s], {}, TRUE)
  <2>1. \A t \in currentDB[s] : Carried(s, t)'
      BY <1>3 DEF Carried, TransIs
  <2> QED
      BY <1>1, <1>3, <2>1, CallsTransIs DEF Active
<1> QED
    BY <1>2, <1>3, UpdateEndDoes

LEMMA CallsUndoEnd ==
    ASSUME Types, Calls, NEW s \in Server, UndoEnd(s) PROVE Calls'
<1>1. /\ trans[s].phase = "undo" /\ trans[s].todo = {}
      /\ TransIs(s, "open", trans[s].sent, trans[s].todo, trans[s].ok, trans[s].done)
      /\ UNCHANGED <<current, epochTime, clock, currentDB>>
    BY UndoEndDoes
<1>2. \A t \in currentDB[s] : ~Carried(s, t)
    BY <1>1 DEF Carried
<1> QED
    BY <1>1, <1>2, CallsTransIs DEF Active

LEMMA CallsGiven ==
    ASSUME Types, Calls, NEW s \in Server, trans' = [trans EXCEPT ![s] = NoTrans],
           UNCHANGED <<current, epochTime, clock, currentDB>>
    PROVE  Calls'
<1>1. trans'[s] = NoTrans /\ \A u \in Server : u # s => trans'[u] = trans[u]
    BY DEF Types
<1> QED
    BY <1>1, CallsOver, CallsOne

LEMMA CallsAbortTrans ==
    ASSUME Types, Calls, NEW s \in Server, AbortTrans(s) PROVE Calls'
<1>1. trans[s].phase = "open" /\ UNCHANGED <<current, epochTime, clock, currentDB>>
    BY AbortTransDoes
<1>2. CASE Given(s)
    BY <1>1, <1>2, CallsGiven DEF Given
<1>3. CASE TransIs(s, "abort", trans[s].sent, currentDB[s], {}, trans[s].done)
  <2>1. \A t \in currentDB[s] : Carried(s, t)'
      BY <1>3 DEF Carried, TransIs
  <2> QED
      BY <1>1, <1>3, <2>1, CallsTransIs DEF Active
<1> QED
    BY <1>2, <1>3, AbortTransDoes

LEMMA CallsEndTrans ==
    ASSUME Types, Calls, NEW s \in Server, EndTrans(s) PROVE Calls'
<1>1. trans[s].phase = "open" /\ UNCHANGED <<current, epochTime, clock, currentDB>>
    BY EndTransDoes
<1>2. CASE Given(s)
    BY <1>1, <1>2, CallsGiven DEF Given
<1>3. CASE TransIs(s, "commit", trans[s].sent, currentDB[s] \cup {s}, {}, trans[s].done)
           /\ trans[s].sent = Updates
  <2>1. \A t \in currentDB[s] : Carried(s, t) => Carried(s, t)'
      BY <1>1, <1>3 DEF Carried, TransIs, First, Parts
  <2> QED
      BY <1>1, <1>3, <2>1, CallsTransIs DEF Active
<1> QED
    BY <1>2, <1>3, EndTransDoes

LEMMA CallsLocalCommit ==
    ASSUME Types, Calls, NEW s \in Server, LocalCommit(s) PROVE Calls'
<1>1. trans[s].phase = "commit" /\ UNCHANGED <<current, epochTime, clock, currentDB>>
    BY LocalCommitDoes
<1>2. CallsAt(s)
    BY CallsAll
<1>3. CASE trans[s].done
           /\ TransIs(s, "commit", trans[s].sent, trans[s].todo \ {s}, trans[s].ok, TRUE)
  <2>1. \A t \in currentDB[s] : Carried(s, t) => Carried(s, t)'
      BY <1>1, <1>3 DEF Carried, TransIs
  <2>2. trans[s].ok # {} => s \in trans[s].ok
      BY <1>1, <1>2, <1>3 DEF CallsAt, Pending
  <2> QED
      BY <1>1, <1>3, <2>1, <2>2, CallsTransIs DEF Active
<1>4. CASE TransIs(s, "commit", trans[s].sent, trans[s].todo \ {s}, trans[s].ok \cup {s}, TRUE)
  <2>1. \A t \in currentDB[s] : Carried(s, t) => Carried(s, t)'
      BY <1>1, <1>4 DEF Carried, TransIs
  <2> QED
      BY <1>1, <1>4, <2>1, CallsTransIs DEF Active
<1> QED
    BY <1>3, <1>4, LocalCommitDoes

LEMMA CallsCommitEnd ==
    ASSUME Types, Calls, NEW s \in Server, CommitEnd(s) PROVE Calls'
<1>1. /\ trans[s].phase = "commit" /\ trans[s].todo = {}
      /\ TransIs(s, "release", trans[s].sent, currentDB[s], trans[s].ok, trans[s].done)
      /\ UNCHANGED <<current, epochTime, clock, currentDB>>
    BY CommitEndDoes
<1>2. CallsAt(s)
    BY CallsAll
<1>3. \A t \in currentDB[s] : Carried(s, t)'
    BY <1>1 DEF Carried, TransIs
<1>4. trans[s].ok # {} => s \in trans[s].ok
    BY <1>1, <1>2 DEF CallsAt, Pending
<1> QED
    BY <1>1, <1>3, <1>4, CallsTransIs DEF Active

-----------------------------------------------------------------------------
(* Calls: the remote calls.                                                *)

\* A call for the transaction of s touches no transaction of another server.
LEMMA CallsOther ==
    ASSUME Types, Transactions, Calls, NEW s \in Server, NEW t \in Server, Active(s),
           Quiet(t) \/ Stored(s, t),
           NEW u \in Server, u # s, trans'[u] = trans[u], currentDB'[u] = currentDB[u],
           UNCHANGED <<epochTime, clock>>,
           \A w \in Server : w # t => current'[w] = current[w]
    PROVE  CallsAt(u)'
<1>1. trans[u].tid # trans[s].tid
  <2>1. 0 < trans[s].tid.epoch
      BY DEF Transactions, TransOK
  <2>2. Active(u) => trans[u].tid.epoch # trans[s].tid.epoch
      BY DEF Transactions, Distinct
  <2>3. ~Active(u) => trans[u].tid.epoch = 0
      BY DEF Transactions, TransOK, NoTrans, Zero
  <2> QED
      BY <2>1, <2>2, <2>3
<1>2. ASSUME NEW w \in Server, Carries(u, w)' PROVE Carries(u, w) /\ current'[w] = current[w]
  <2>1. CASE w # t
      BY <1>2, <2>1 DEF Carries
  <2>2. CASE w = t /\ Quiet(t)
      BY <1>2, <2>2, QuietCarries
  <2>3. CASE w = t /\ Stored(s, t)
      BY <1>1, <1>2, <2>3 DEF Stored, Carries
  <2> QED
      BY <2>1, <2>2, <2>3
<1>3. currentDB[u] \subseteq Server
    BY TypeFacts
<1> QED
    BY <1>2, <1>3, CallsAll, CallsKeep DEF Leader

\* The updates that a server has got are those that were sent.
LEMMA StoredData ==
    ASSUME Types, NEW s \in Server, NEW t \in Server, Stored(s, t),
           t \in trans[s].todo, Carries(s, t) => Carried(s, t)
    PROVE  current'[t].data = First(trans[s].tid, trans[s].sent + 1)
<1>1. trans[s].sent \in Nat
    BY TypeFacts, ReplicaAssumption
<1>2. CASE trans[s].sent = 0
    BY <1>2 DEF Stored, First
<1>3. CASE trans[s].sent # 0
  <2>1. current[t].data = First(trans[s].tid, trans[s].sent)
      BY <1>3 DEF Stored, Carried
  <2>2. current'[t].data = current[t].data \cup {<<trans[s].tid, trans[s].sent + 1>>}
      BY <1>3 DEF Stored
  <2>3. 1 .. (trans[s].sent + 1) = (1 .. trans[s].sent) \cup {trans[s].sent + 1}
      BY <1>1
  <2> QED
      BY <2>1, <2>2, <2>3 DEF First
<1> QED
    BY <1>2, <1>3

LEMMA CallsContact ==
    ASSUME Types, Control, Transactions, Tids, Calls,
           NEW s \in Server, NEW t \in Server, Contact(s, t)
    PROVE  Calls'
<1>1. /\ t \in trans[s].todo /\ t # s /\ Active(s)
      /\ \A u \in Server : u # t => current'[u] = current[u]
      /\ UNCHANGED <<epochTime, clock>>
    BY ContactLast, ContactDoes
<1>2. PICK good \in BOOLEAN, ok \in SUBSET Server : Called(s, t, good, ok)
    BY ContactLast, ContactDoes
<1>3. /\ trans'[s].tid = trans[s].tid /\ trans'[s].phase = trans[s].phase
      /\ trans'[s].sent = trans[s].sent /\ trans'[s].todo = trans[s].todo \ {t}
      /\ trans'[s].ok = ok /\ trans'[s].done = trans[s].done
      /\ \A u \in Server : u # s => trans'[u] = trans[u]
    BY <1>2 DEF Called, TransIs
<1>4. /\ \A u \in Server : u # s => currentDB'[u] = currentDB[u]
      /\ currentDB'[s] \subseteq currentDB[s] /\ currentDB[s] \subseteq Server
      /\ ~good => t \notin currentDB'[s]
  <2>1. currentDB' = IF good THEN currentDB ELSE [currentDB EXCEPT ![s] = @ \ {t}]
      BY <1>2 DEF Called
  <2> QED
      BY <2>1 DEF Types
<1>5. Quiet(t) \/ Stored(s, t)
    BY <1>2 DEF Called, Installed
<1>6. ok = IF good /\ trans[s].phase \in {"update", "commit"}
           THEN trans[s].ok \cup {t} ELSE trans[s].ok
    BY <1>2 DEF Called
<1>7. CallsAt(s)
    BY CallsAll
<1>8. ASSUME Leader(s)', NEW w \in currentDB'[s], Carries(s, w)' PROVE Carried(s, w)'
  <2>1. Leader(s) /\ w \in currentDB[s] /\ w \in Server
      BY <1>1, <1>4, <1>8 DEF Leader
  <2>2. Carries(s, w) => Carried(s, w)
      BY <1>1, <1>7, <2>1 DEF CallsAt
  <2>3. CASE w # t
    <3>1. current'[w] = current[w] /\ Carried(s, w)
        BY <1>1, <1>3, <1>8, <2>1, <2>2, <2>3 DEF Carries
    <3>2. trans[s].ok \subseteq ok
        BY <1>6
    <3> QED
        BY <1>3, <2>3, <3>1, <3>2 DEF Carried
  <2>4. CASE w = t
    <3>1. good
        BY <1>4, <1>8, <2>4
    <3>2. Stored(s, t)
        BY <1>2, <1>8, <2>4, <3>1 DEF Called, Installed, Carries, NoCurrent
    <3>3. current'[t].data = First(trans[s].tid, trans[s].sent + 1)
        BY <1>1, <2>2, <2>4, <3>2, StoredData
    <3> QED
        BY <1>3, <2>4, <3>2, <3>3 DEF Carried, Stored
  <2> QED
      BY <2>3, <2>4
<1>9. ASSUME trans[s].phase = "commit", ok # {} PROVE s \in ok \/ Pending(s)'
  <2>1. trans[s].ok # {} => s \in trans[s].ok \/ Pending(s)
      BY <1>7, <1>9 DEF CallsAt
  <2>2. trans[s].ok = {} => Pending(s)
    <3>1. SUFFICES ASSUME trans[s].ok = {} PROVE Pending(s)
        OBVIOUS
    <3>2. good
        BY <1>6, <1>9, <3>1
    <3>3. Installed(s, t)
        BY <1>2, <1>9, <3>2 DEF Called, Stored
    <3>4. ~trans[s].done
        BY <1>1, <3>1, <3>3, InstalledData
    <3>5. s \in trans[s].todo
        BY <1>9, <3>4 DEF Transactions, CommitOK
    <3> QED
        BY <1>9, <3>4, <3>5 DEF Pending
  <2>3. s \in trans[s].ok \/ Pending(s)
      BY <2>1, <2>2
  <2> QED
      BY <1>1, <1>3, <1>6, <2>3 DEF Pending
<1>10. trans[s].phase = "release" => ok = trans[s].ok
    BY <1>6
<1>11. CallsAt(s)'
    BY <1>3, <1>7, <1>8, <1>9, <1>10 DEF CallsAt
<1>12. ASSUME NEW u \in Server, u # s PROVE CallsAt(u)'
    BY <1>1, <1>3, <1>4, <1>5, <1>12, CallsOther
<1> QED
    BY <1>11, <1>12, CallsNext

LEMMA CallsTransact ==
    ASSUME Types, Control, Transactions, Tids, Calls, NEW s \in Server, Transact(s) PROVE Calls'
<1>1. CASE AbortEnd(s)
  <2>1. Given(s) /\ UNCHANGED <<current, epochTime, clock, currentDB>>
      BY <1>1, AbortEndDoes
  <2> QED
      BY <2>1, CallsGiven DEF Given
<1>2. CASE ReleaseEnd(s)
  <2>1. trans' = [trans EXCEPT ![s] = NoTrans] /\ UNCHANGED <<current, epochTime, clock, currentDB>>
      BY <1>2, ReleaseEndDoes
  <2> QED
      BY <2>1, CallsGiven
<1>3. ASSUME NEW t \in Server, Contact(s, t) PROVE Calls'
    BY <1>3, CallsContact
<1> QED
    BY <1>1, <1>2, <1>3, CallsBegin, CallsUpdate, CallsUpdateEnd, CallsUndoEnd, CallsAbortTrans,
       CallsEndTrans, CallsLocalCommit, CallsCommitEnd DEF Transact

\* No step lets a remote transaction carry updates that were not sent.
LEMMA CallsStep ==
    ASSUME Types, Control, Transactions, Tids, Calls, [Next]_vars PROVE Calls'
<1>1. CASE UNCHANGED vars \/ Lapse
  <2>1. UNCHANGED <<current, trans, currentDB, epochTime, clock>>
    <3>1. CASE UNCHANGED vars
        BY <3>1 DEF vars, tidVars
    <3>2. CASE Lapse
        BY <3>2 DEF Lapse, tidVars
    <3> QED
        BY <1>1, <3>1, <3>2
  <2> QED
      BY <2>1, CallsSame DEF Leader
<1>2. ASSUME NEW s \in Server, Election(s) \/ Recovery(s) \/ Transact(s) \/ Restart(s) PROVE Calls'
    BY <1>2, CallsElection, CallsRecovery, CallsTransact, CallsRestart
<1> QED
    BY <1>1, <1>2 DEF Next

=============================================================================
