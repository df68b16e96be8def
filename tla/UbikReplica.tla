---------------------------- MODULE UbikReplica ----------------------------
(***************************************************************************)
(* The database on several servers: recovery, which finds, fetches, labels *)
(* and distributes the newest copy, and write transactions, which the sync *)
(* site carries to the servers that are current.  The election is reduced  *)
(* to one holder of the mandate at a time (UbikPromises), and a local      *)
(* commit to one step (UbikDatabase).  Servers crash and restart, mandates *)
(* end at any time, and calls get lost before or after they are executed.  *)
(* ts->up has no variable: a call to a server that is down is a lost call. *)
(***************************************************************************)
EXTENDS UbikServers

CONSTANTS
    NoOne,         \* in place of a server: nobody
    Updates,       \* the UBIKDISK_BulkUpdate calls of a transaction
    MaxEpoch,      \* bound on the epochs of database versions
    MaxTid         \* bound on ubik_dbase->tidCounter

ASSUME ReplicaAssumption ==
    /\ NoOne \notin Server
    /\ Updates \in Nat \ {0}
    /\ MaxEpoch \in Nat /\ MaxTid \in Nat

VARIABLES
    site,        \* who would get 1 from ubeacon_AmSyncSite, or NoOne
    disk,        \* the label and the data of each server's database file
    version,     \* ubik_dbase->version, the version in memory
    current,     \* ubik_currentTrans, the remote transaction of a server
    trans,       \* the write transaction that began at a server as sync site
    state,       \* urecovery_state
    thread,      \* where the recovery thread is in urecovery_Interact
    known,       \* ts->version
    currentDB,   \* the servers with ts->currentDB set
    epochTime,   \* ubik_epochTime
    tidCounter,  \* ubik_dbase->tidCounter
    clock,       \* the time in epochs, of which every mandate has one
    faults,      \* history: lost calls and restarts so far
    acked,       \* history: the transactions whose ubik_EndTrans returned 0
    aborted      \* history: those that were given up before any commit

dbVars == <<disk, version>>
recVars == <<state, thread, known>>
tidVars == <<epochTime, tidCounter, clock>>
clientVars == <<acked, aborted>>
vars == <<site, dbVars, current, trans, recVars, currentDB, tidVars, faults, clientVars>>
-----------------------------------------------------------------------------
(* Versions, transactions and what they are kept in. *)

Version == [epoch : Nat, counter : Nat]
Zero == [epoch |-> 0, counter |-> 0]

\* vcmp(v, w) > 0
Newer(v, w) ==
    \/ v.epoch > w.epoch
    \/ v.epoch = w.epoch /\ v.counter > w.counter

Tid == [epoch : 0 .. MaxEpoch, counter : 0 .. MaxTid]
Parts(tid) == {tid} \X (1 .. Updates)    \* what a transaction writes
Garbage == {<<Zero, 0>>}                 \* a file that was received in part

NoTrans == [tid |-> Zero, phase |-> "none", sent |-> 0, todo |-> {}, ok |-> {},
            done |-> TRUE]
NoCurrent == [tid |-> Zero, data |-> {}, done |-> TRUE]
Asleep == [at |-> "asleep", todo |-> {}, heard |-> {}, best |-> NoOne]

\* The next server of a loop over ubik_servers.
NextIn(todo) == CHOOSE t \in todo : \A u \in todo : t <= u

\* dbase->flags & DBWRITING
DBWRITING(s) == trans[s] # NoTrans \/ current[s] # NoCurrent

\* urecovery_AllBetter for a write transaction.
AllBetter(s) == site = s /\ "LABELDB" \in state[s]

\* Nobody at s holds dbase->versionLock during a call.
VersionFree(s) ==
    /\ thread[s].at \notin {"fetching", "sending"}
    /\ trans[s].phase \notin {"commit", "release", "undo", "abort"}

\* urecovery_CheckTid(atid) at server t: what ubik_currentTrans is afterwards.
CheckTid(t, atid) ==
    IF atid.epoch # current[t].tid.epoch \/ atid.counter > current[t].tid.counter
    THEN NoCurrent ELSE current[t]

\* urecovery_AbortAll(ubik_dbase): the records stay, but can do nothing more.
AbortAll(s) ==
    /\ current' = [current EXCEPT ![s].done = TRUE]
    /\ trans' = [trans EXCEPT ![s].done = TRUE]
-----------------------------------------------------------------------------
(* The election, as far as recovery and transactions see it. *)

\* The tid that a beacon carries: that of the write transaction, or one that
\* says that the last transaction is over.
BeaconTid(s) ==
    [epoch |-> epochTime[s],
     counter |-> IF DBWRITING(s) THEN tidCounter[s] ELSE tidCounter[s] + 1]

\* What cannot be given up halfway is over at u: a pass of recovery, and the calls
\* of a commit.
Settled(u) == thread[u].at = "asleep" /\ trans[u].phase # "commit"

\* A quorum votes for s, and each voter compares the tid of the beacon.  Servers that
\* are not sync site ask ubeacon_AmSyncSite all the time, whose no resets
\* urecovery_state; the sync site did before it sent its beacons.
Elected(s) ==
    /\ site = NoOne /\ clock < MaxEpoch
    /\ \A u \in Server : Settled(u)
    /\ site' = s
    /\ clock' = clock + 1
    /\ state' = [u \in Server |-> {}]
    /\ \E voters \in SUBSET Server :
          /\ IsQuorum(voters, Magic)
          /\ current' = [t \in Server |->
                IF t \in voters THEN CheckTid(t, BeaconTid(s)) ELSE current[t]]
    /\ UNCHANGED <<dbVars, trans, thread, known, currentDB, epochTime, tidCounter, faults,
                   clientVars>>

\* ts->currentDB is never cleared when a mandate ends: here, a server that has
\* served as sync site starts again before it is elected for a second time.
Elect(s) == currentDB[s] = {} /\ Elected(s)

\* The sync site renews a vote; most of the time this changes nothing here.
Beacon(s, t) ==
    /\ site = s
    /\ CheckTid(t, BeaconTid(s)) # current[t]
    /\ current' = [current EXCEPT ![t] = CheckTid(t, BeaconTid(s))]
    /\ UNCHANGED <<site, dbVars, trans, recVars, currentDB, tidVars, faults, clientVars>>

\* The mandate runs out: ubeacon_AmSyncSite answers 0 from now on.
Lapse ==
    /\ site # NoOne
    /\ site' = NoOne
    /\ state' = [state EXCEPT ![site] = {}]
    /\ UNCHANGED <<dbVars, current, trans, thread, known, currentDB, tidVars, faults,
                   clientVars>>

\* A server dies, at any time but while it fetches a database, and starts again.
Restart(s) ==
    /\ thread[s].at # "fetching"
    /\ site' = IF site = s THEN NoOne ELSE site
    /\ version' = [version EXCEPT ![s] = disk[s].label]
    /\ current' = [current EXCEPT ![s] = NoCurrent]
    /\ trans' = [trans EXCEPT ![s] = NoTrans]
    /\ state' = [state EXCEPT ![s] = {}]
    /\ thread' = [thread EXCEPT ![s] = Asleep]
    /\ known' = [known EXCEPT ![s] = [t \in Server |-> Zero]]
    /\ currentDB' = [currentDB EXCEPT ![s] = {}]
    /\ epochTime' = [epochTime EXCEPT ![s] = 0]
    /\ tidCounter' = [tidCounter EXCEPT ![s] = 0]
    /\ faults' = faults + 1
    /\ aborted' = IF trans[s].phase \in {"open", "update", "undo", "abort"}
                  THEN aborted \cup {trans[s].tid} ELSE aborted
    /\ UNCHANGED <<disk, clock, acked>>
-----------------------------------------------------------------------------
(* The recovery thread, urecovery_Interact. *)

Others(s) == Server \ {s}

\* The rest of a pass: bestServer matters only while there is something to fetch.
Goto(s, at) ==
    [thread EXCEPT ![s] = [at |-> at, todo |-> {}, heard |-> {},
        best |-> IF at \in {"fetch", "fetching"} THEN @.best ELSE NoOne]]
\* Mutant: the server calls itself too.
LoopAll(s, at) ==
    [thread EXCEPT ![s] = [at |-> at, todo |-> Server, heard |-> {}, best |-> NoOne]]
Loop(s, at) ==
    [thread EXCEPT ![s] = [at |-> at, todo |-> Others(s), heard |-> {}, best |-> NoOne]]

\* UBIKDISK_GetVersion to t, which the sync site calls every minute.
Check(s, t) ==
    /\ thread[s].at = "asleep" /\ VersionFree(s) /\ AllBetter(s)
    /\ t # s /\ VersionFree(t) /\ disk[t].label # known[s][t]
    /\ known' = [known EXCEPT ![s][t] = disk[t].label]
    /\ currentDB' = [currentDB EXCEPT ![s] = @ \ {t}]
    /\ state' = [state EXCEPT ![s] = @ \ {"SENTDB"}]
    /\ UNCHANGED <<site, dbVars, current, trans, thread, tidVars, faults, clientVars>>

\* A pass begins with the first thing that is left to do.
Wake(s) ==
    /\ thread[s].at = "asleep" /\ site = s /\ "SENTDB" \notin state[s]
    /\ thread' = IF "FOUNDDB" \notin state[s] THEN Loop(s, "find")
                 ELSE IF "HAVEDB" \notin state[s] THEN [thread EXCEPT ![s].at = "fetch"]
                 ELSE Goto(s, "send")
    /\ UNCHANGED <<site, dbVars, current, trans, state, known, currentDB, tidVars, faults,
                   clientVars>>

\* bestDBVersion
BestVersion(s) == IF thread[s].best = NoOne THEN Zero ELSE known[s][thread[s].best]

\* UBIKDISK_GetVersion to t.  ts->version is assigned even when the call fails, with
\* what the calls before it have left.  Failures in a row are one fault.
Find(s, t) ==
    /\ thread[s].at = "find" /\ thread[s].todo # {} /\ t = NextIn(thread[s].todo)
    /\ \/ /\ site # t /\ VersionFree(t)
          /\ known' = [known EXCEPT ![s][t] = disk[t].label]
          /\ thread' = [thread EXCEPT ![s].todo = @ \ {t}, ![s].heard = @ \cup {t},
                ![s].best = IF Newer(disk[t].label, BestVersion(s)) THEN t ELSE @]
          /\ UNCHANGED faults
       \/ /\ \E v \in {known[s][u] : u \in Others(s)} :
                known' = [known EXCEPT ![s][t] = v]
          /\ thread' = [thread EXCEPT ![s].todo = @ \ {t}]
          /\ faults' = faults + (IF thread[s].todo \cup thread[s].heard = Others(s)
                                THEN 1 ELSE 0)
    /\ UNCHANGED <<site, dbVars, current, trans, state, currentDB, tidVars, clientVars>>

\* Mutant: the best database of whoever answered will do.
FindEndAny(s) ==
    /\ thread[s].at = "find" /\ thread[s].todo = {}
    /\ IF Newer(BestVersion(s), version[s])
       THEN /\ state' = [state EXCEPT ![s] = @ \cup {"FOUNDDB"}]
            /\ thread' = Goto(s, "fetch")
       ELSE /\ state' = [state EXCEPT ![s] = @ \cup {"FOUNDDB", "HAVEDB"}]
            /\ thread' = Goto(s, "label")
    /\ UNCHANGED <<site, dbVars, current, trans, known, currentDB, tidVars, faults,
                   clientVars>>

\* Is the best database of a quorum here, or has it to be fetched?
FindEnd(s) ==
    /\ thread[s].at = "find" /\ thread[s].todo = {}
    /\ IF ~IsQuorum(thread[s].heard \cup {s}, Magic)
       THEN /\ state' = [state EXCEPT ![s] = @ \ {"FOUNDDB"}]
            /\ thread' = Goto(s, "asleep")
       ELSE IF Newer(BestVersion(s), version[s])
       THEN /\ state' = [state EXCEPT ![s] = @ \cup {"FOUNDDB"}]
            /\ thread' = Goto(s, "fetch")
       ELSE /\ state' = [state EXCEPT ![s] = @ \cup {"FOUNDDB", "HAVEDB"}]
            /\ thread' = Goto(s, "label")
    /\ UNCHANGED <<site, dbVars, current, trans, known, currentDB, tidVars, faults,
                   clientVars>>

\* The database is without a label while UBIKDISK_GetFile overwrites it.
FetchStart(s) ==
    /\ thread[s].at = "fetch" /\ VersionFree(s)
    /\ AbortAll(s)
    /\ disk' = [disk EXCEPT ![s] = [label |-> Zero, data |-> Garbage]]
    /\ thread' = Goto(s, "fetching")
    /\ UNCHANGED <<site, version, state, known, currentDB, tidVars, faults, clientVars>>

FetchEnd(s) ==
    LET t == thread[s].best IN
    /\ thread[s].at = "fetching"
    /\ site # t /\ VersionFree(t)
    /\ disk' = [disk EXCEPT ![s] = disk[t]]
    /\ version' = [version EXCEPT ![s] = disk[t].label]
    /\ state' = [state EXCEPT ![s] = @ \cup {"HAVEDB"}]
    /\ thread' = Goto(s, "label")
    /\ UNCHANGED <<site, current, trans, known, currentDB, tidVars, faults, clientVars>>

\* Mutant: the label stays what it was.
LabelKeeps(s) ==
    /\ thread[s].at = "label" /\ VersionFree(s)
    /\ AbortAll(s)
    /\ epochTime' = [epochTime EXCEPT ![s] = clock]
    /\ state' = [state EXCEPT ![s] = @ \cup {"LABELDB"}]
    /\ thread' = Goto(s, "send")
    /\ UNCHANGED <<site, dbVars, known, currentDB, tidCounter, clock, faults, clientVars>>

\* The database gets a new epoch.
Label(s) ==
    /\ thread[s].at = "label" /\ VersionFree(s)
    /\ AbortAll(s)
    /\ epochTime' = [epochTime EXCEPT ![s] = clock]
    /\ version' = [version EXCEPT ![s] = [epoch |-> clock, counter |-> 1]]
    /\ disk' = [disk EXCEPT ![s].label = version'[s]]
    /\ state' = [state EXCEPT ![s] = @ \cup {"LABELDB"}]
    /\ thread' = Goto(s, "send")
    /\ UNCHANGED <<site, known, currentDB, tidCounter, clock, faults, clientVars>>

\* The database is sent when no write transaction is under way.
SendStart(s) ==
    /\ thread[s].at = "send" /\ VersionFree(s) /\ ~DBWRITING(s)
    /\ thread' = Loop(s, "sending")
    /\ UNCHANGED <<site, dbVars, current, trans, state, known, currentDB, tidVars, faults,
                   clientVars>>

\* SUBIKDISK_SendFile at t, of the database of s.
SendFile(s, t) ==
    /\ site # t /\ VersionFree(t)
    /\ AbortAll(t)
    /\ disk' = [disk EXCEPT ![t] = [label |-> version[s], data |-> disk[s].data]]
    /\ version' = [version EXCEPT ![t] = version[s]]

\* The loop of recovery over the servers that are to get the database.
Send(s, t) ==
    /\ thread[s].at = "sending" /\ thread[s].todo # {} /\ t = NextIn(thread[s].todo)
    /\ \/ /\ \/ known[s][t] = version[s] /\ UNCHANGED <<dbVars, current, trans>>
             \/ known[s][t] # version[s] /\ SendFile(s, t)
          /\ known' = [known EXCEPT ![s][t] = version[s]]
          /\ currentDB' = [currentDB EXCEPT ![s] = @ \cup {t}]
          /\ thread' = [thread EXCEPT ![s].todo = @ \ {t}, ![s].heard = @ \cup {t}]
          /\ UNCHANGED faults
       \/ /\ known[s][t] # version[s]
          /\ SendFile(s, t) \/ UNCHANGED <<dbVars, current, trans>>
          /\ thread' = [thread EXCEPT ![s].todo = @ \ {t}]
          /\ faults' = faults + 1
          /\ UNCHANGED <<known, currentDB>>
    /\ UNCHANGED <<site, state, tidVars, clientVars>>

SendEnd(s) ==
    /\ thread[s].at = "sending" /\ thread[s].todo = {}
    /\ state' = IF thread[s].heard = Others(s)
                THEN [state EXCEPT ![s] = @ \cup {"SENTDB"}] ELSE state
    /\ thread' = Goto(s, "asleep")
    /\ UNCHANGED <<site, dbVars, current, trans, known, currentDB, tidVars, faults,
                   clientVars>>
-----------------------------------------------------------------------------
(* The calls of a transaction at the servers it is sent to.  Each has what it *)
(* leaves of ubik_currentTrans, of the version and of the database, and       *)
(* whether it returns 0.                                                      *)

Remote(t, cur, n, data, good) ==
    [current |-> cur, counter |-> n, data |-> data, good |-> good]
Unchanged(t, cur, good) == Remote(t, cur, version[t].counter, disk[t].data, good)

\* Mutant: what an earlier transaction left behind stays in the log.
BulkUpdateAppends(t, tid, i) ==
    IF trans[t] # NoTrans THEN Unchanged(t, NoCurrent, FALSE)
    ELSE Unchanged(t, [tid |-> tid, data |-> current[t].data \cup {<<tid, i>>},
                       done |-> FALSE], TRUE)

\* SUBIKDISK_BulkUpdate of the i-th updates.  The first has UBULK_BEGIN in front,
\* which ends the current transaction; udisk_begin fails with USYNC when a write
\* transaction of t itself goes on.
BulkUpdate(t, tid, i) ==
    IF i = 1 THEN
        IF trans[t] # NoTrans THEN Unchanged(t, NoCurrent, FALSE)
        ELSE Unchanged(t, [tid |-> tid, data |-> {<<tid, 1>>}, done |-> FALSE], TRUE)
    ELSE LET cur == CheckTid(t, tid) IN
        IF cur.done THEN Unchanged(t, cur, FALSE)
        ELSE Unchanged(t, [cur EXCEPT !.data = @ \cup {<<tid, i>>}], TRUE)

\* SUBIKDISK_Commit
Commit(t, tid) ==
    LET cur == CheckTid(t, tid) IN
    IF cur.done THEN Unchanged(t, cur, FALSE)
    ELSE Remote(t, [cur EXCEPT !.done = TRUE], version[t].counter + 1,
                disk[t].data \cup cur.data, TRUE)

\* SUBIKDISK_ReleaseLocks and SUBIKDISK_Abort, which end the transaction.
ReleaseLocks(t, tid) ==
    Unchanged(t, NoCurrent, CheckTid(t, tid) # NoCurrent)
Abort(t, tid) ==
    Unchanged(t, NoCurrent, ~CheckTid(t, tid).done)

Execute(t, tr) ==
    CASE tr.phase = "update"  -> BulkUpdate(t, tr.tid, tr.sent + 1)
      [] tr.phase = "commit"  -> Commit(t, tr.tid)
      [] tr.phase = "release" -> ReleaseLocks(t, tr.tid)
      [] OTHER -> Abort(t, tr.tid)

\* Mutant: a server whose call failed is still current.
ContactedStays(s, t, good) ==
    /\ trans' = [trans EXCEPT ![s].todo = @ \ {t},
                              ![s].ok = IF good /\ trans[s].phase \in {"update", "commit"}
                                        THEN @ \cup {t} ELSE @]
    /\ UNCHANGED <<currentDB, state>>

\* The contact with t is over; WaitContactQuorum takes a server whose call failed
\* for one that is not current any more.
Contacted(s, t, good) ==
    /\ trans' = [trans EXCEPT ![s].todo = @ \ {t},
                              ![s].ok = IF good /\ trans[s].phase \in {"update", "commit"}
                                        THEN @ \cup {t} ELSE @]
    /\ currentDB' = IF good THEN currentDB ELSE [currentDB EXCEPT ![s] = @ \ {t}]
    /\ state' = IF good THEN state ELSE [state EXCEPT ![s] = @ \ {"SENTDB"}]

\* One of the calls that AsyncContactQuorum started: it is executed and answered,
\* executed only, or neither.
Contact(s, t) ==
    /\ t \in trans[s].todo \ {s}
    /\ \/ /\ VersionFree(t)
          /\ LET r == Execute(t, trans[s])
                 v == [version[t] EXCEPT !.counter = r.counter]
             IN /\ current' = [current EXCEPT ![t] = r.current]
                /\ version' = [version EXCEPT ![t] = v]
                /\ disk' = IF v = version[t] THEN disk
                           ELSE [disk EXCEPT ![t] = [label |-> v, data |-> r.data]]
                /\ \/ Contacted(s, t, r.good) /\ UNCHANGED faults
                   \/ r.good /\ Contacted(s, t, FALSE) /\ faults' = faults + 1
       \/ /\ Contacted(s, t, FALSE)
          /\ faults' = faults + 1
          /\ UNCHANGED <<current, dbVars>>
    /\ UNCHANGED <<site, thread, known, tidVars, clientVars>>
-----------------------------------------------------------------------------
(* Write transactions at the sync site. *)

\* AsyncContactQuorum calls the servers whose database is current.
AsyncContactQuorum(s, phase) ==
    trans' = [trans EXCEPT ![s].phase = phase, ![s].todo = currentDB[s], ![s].ok = {}]

GiveUp(s) ==
    /\ trans' = [trans EXCEPT ![s] = NoTrans]
    /\ aborted' = aborted \cup {trans[s].tid}

\* ubik_BeginTrans.  Nothing is sent before the first updates.
Begin(s) ==
    /\ VersionFree(s) /\ ~DBWRITING(s) /\ AllBetter(s)
    /\ tidCounter[s] + 2 <= MaxTid
    /\ tidCounter' = [tidCounter EXCEPT ![s] = @ + 2]
    /\ trans' = [trans EXCEPT ![s] =
           [NoTrans EXCEPT !.tid = [epoch |-> epochTime[s], counter |-> tidCounter'[s]],
                           !.phase = "open", !.done = FALSE]]
    /\ UNCHANGED <<site, dbVars, current, recVars, currentDB, epochTime, clock, faults,
                   clientVars>>

\* ubik_Write, or ubik_Flush of what was written.
Update(s) ==
    /\ trans[s].phase = "open" /\ ~trans[s].done /\ trans[s].sent < Updates
    /\ VersionFree(s) /\ AllBetter(s)
    /\ AsyncContactQuorum(s, "update")
    /\ UNCHANGED <<site, dbVars, current, recVars, currentDB, tidVars, faults, clientVars>>

\* WaitContactQuorum after an update: without a quorum the transaction is aborted
\* here and, at once, wherever a server is current.
UpdateEnd(s) ==
    /\ trans[s].phase = "update" /\ trans[s].todo = {}
    /\ IF IsQuorum({s} \cup (trans[s].ok \cap currentDB[s]), Magic)
       THEN trans' = [trans EXCEPT ![s].phase = "open", ![s].sent = @ + 1, ![s].ok = {}]
       ELSE trans' = [trans EXCEPT ![s].phase = "undo", ![s].sent = @ + 1,
                          ![s].done = TRUE, ![s].todo = currentDB[s], ![s].ok = {}]
    /\ UNCHANGED <<site, dbVars, current, recVars, currentDB, tidVars, faults, clientVars>>

UndoEnd(s) ==
    /\ trans[s].phase = "undo" /\ trans[s].todo = {}
    /\ trans' = [trans EXCEPT ![s].phase = "open"]
    /\ UNCHANGED <<site, dbVars, current, recVars, currentDB, tidVars, faults, clientVars>>

\* ubik_AbortTrans, when the caller wants it or after an error.
AbortTrans(s) ==
    /\ trans[s].phase = "open" /\ VersionFree(s)
    /\ \/ /\ ~AllBetter(s) \/ trans[s].sent = 0
          /\ GiveUp(s)
       \/ /\ AllBetter(s) /\ trans[s].sent > 0
          /\ AsyncContactQuorum(s, "abort")
          /\ UNCHANGED aborted
    /\ UNCHANGED <<site, dbVars, current, recVars, currentDB, tidVars, faults, acked>>

AbortEnd(s) ==
    /\ trans[s].phase = "abort" /\ trans[s].todo = {}
    /\ GiveUp(s)
    /\ UNCHANGED <<site, dbVars, current, recVars, currentDB, tidVars, faults, acked>>

\* ubik_EndTrans up to the start of the commits, with nothing left to flush.
EndTrans(s) ==
    /\ trans[s].phase = "open" /\ VersionFree(s)
    /\ trans[s].sent = Updates \/ ~AllBetter(s)
    /\ IF ~AllBetter(s) \/ (currentDB[s] = {} /\ ~IsQuorum({s}, Magic))
       THEN GiveUp(s)
       ELSE /\ trans' = [trans EXCEPT ![s].phase = "commit", ![s].ok = {},
                                      ![s].todo = currentDB[s] \cup {s}]
            /\ UNCHANGED aborted
    /\ UNCHANGED <<site, dbVars, current, recVars, currentDB, tidVars, faults, acked>>

\* udisk_commit at the sync site, during the remote commits.
LocalCommit(s) ==
    /\ trans[s].phase = "commit" /\ s \in trans[s].todo
    /\ IF trans[s].done
       THEN /\ trans' = [trans EXCEPT ![s].todo = @ \ {s}]
            /\ UNCHANGED dbVars
       ELSE /\ trans' = [trans EXCEPT ![s].todo = @ \ {s}, ![s].ok = @ \cup {s},
                                      ![s].done = TRUE]
            /\ version' = [version EXCEPT ![s].counter = @ + 1]
            /\ disk' = [disk EXCEPT ![s] = [label |-> version'[s],
                                            data |-> @.data \cup Parts(trans[s].tid)]]
    /\ UNCHANGED <<site, current, recVars, currentDB, tidVars, faults, clientVars>>

\* WaitContactQuorum after the commits, and the wait for servers that may not have
\* noticed that they are cut off.  Then the locks are released, whatever the outcome.
CommitEnd(s) ==
    /\ trans[s].phase = "commit" /\ trans[s].todo = {}
    /\ known' = [known EXCEPT ![s] = [t \in Server |->
                    IF t \in trans[s].ok \ {s} THEN version[s] ELSE known[s][t]]]
    /\ trans' = [trans EXCEPT ![s].phase = "release", ![s].todo = currentDB[s]]
    /\ UNCHANGED <<site, dbVars, current, state, thread, currentDB, tidVars, faults,
                   clientVars>>

\* Mutant: success is told whatever the remote servers said.
ReleaseEndAlone(s) ==
    /\ trans[s].phase = "release" /\ trans[s].todo = {}
    /\ trans' = [trans EXCEPT ![s] = NoTrans]
    /\ acked' = acked \cup {trans[s].tid}
    /\ UNCHANGED <<site, dbVars, current, recVars, currentDB, tidVars, faults, aborted>>

\* The end of ubik_EndTrans.  A sync site that could not commit gives up its mandate.
ReleaseEnd(s) ==
    /\ trans[s].phase = "release" /\ trans[s].todo = {}
    /\ trans' = [trans EXCEPT ![s] = NoTrans]
    /\ acked' = IF IsQuorum(trans[s].ok, Magic) THEN acked \cup {trans[s].tid} ELSE acked
    /\ IF s \in trans[s].ok THEN UNCHANGED <<site, state>>
       ELSE /\ site' = IF site = s THEN NoOne ELSE site
            /\ state' = [state EXCEPT ![s] = {}]
    /\ UNCHANGED <<dbVars, current, thread, known, currentDB, tidVars, faults, aborted>>
-----------------------------------------------------------------------------
Init ==
    /\ site = NoOne
    /\ version = [s \in Server |-> [epoch |-> 1, counter |-> 1]]
    /\ disk = [s \in Server |-> [label |-> version[s], data |-> {}]]
    /\ current = [s \in Server |-> NoCurrent]
    /\ trans = [s \in Server |-> NoTrans]
    /\ state = [s \in Server |-> {}]
    /\ thread = [s \in Server |-> Asleep]
    /\ known = [s \in Server |-> [t \in Server |-> Zero]]
    /\ currentDB = [s \in Server |-> {}]
    /\ epochTime = [s \in Server |-> 0]
    /\ tidCounter = [s \in Server |-> 0]
    /\ clock = 1 /\ faults = 0
    /\ acked = {} /\ aborted = {}

Election(s) == Elect(s) \/ \E t \in Server : Beacon(s, t)

Recovery(s) ==
    \/ Wake(s) \/ FindEnd(s) \/ FetchStart(s) \/ FetchEnd(s)
    \/ Label(s) \/ SendStart(s) \/ SendEnd(s)
    \/ \E t \in Server : Check(s, t) \/ Find(s, t) \/ Send(s, t)

Transact(s) ==
    \/ Begin(s) \/ Update(s) \/ UpdateEnd(s) \/ UndoEnd(s)
    \/ AbortTrans(s) \/ AbortEnd(s)
    \/ EndTrans(s) \/ LocalCommit(s) \/ CommitEnd(s) \/ ReleaseEnd(s)
    \/ \E t \in Server : Contact(s, t)

Next ==
    \/ Lapse
    \/ \E s \in Server : Election(s) \/ Recovery(s) \/ Transact(s) \/ Restart(s)

Spec == Init /\ [][Next]_vars

\* A server may be elected again without a restart.
SecondTermSpec == Init /\ [][Next \/ \E s \in Server : Elected(s)]_vars
-----------------------------------------------------------------------------
(* Properties. *)

\* The variables keep to their types; in particular, the loops of urecovery_Interact
\* and WaitContactQuorum run over ubik_servers, where a server does not find itself.
ReplicaTypeOK ==
    /\ site \in Server \cup {NoOne}
    /\ \A s \in Server :
          /\ disk[s].label \in Version /\ version[s] \in Version
          /\ \A d \in disk[s].data \cup current[s].data :
                d \in Garbage \cup (Tid \X (1 .. Updates))
          /\ current[s].tid \in Tid /\ trans[s].tid \in Tid
          /\ trans[s].phase \in {"none", "open", "update", "undo", "abort", "commit",
                                 "release"}
          /\ trans[s].sent \in 0 .. Updates
          /\ trans[s].todo \cup trans[s].ok \cup currentDB[s] \subseteq Server
          /\ state[s] \subseteq {"FOUNDDB", "HAVEDB", "LABELDB", "SENTDB"}
          /\ thread[s].at \in {"asleep", "find", "fetch", "fetching", "label",
                               "send", "sending"}
          /\ thread[s].todo \cup thread[s].heard \subseteq Others(s)
          /\ thread[s].best \in Others(s) \cup {NoOne}
          /\ \A t \in Server : known[s][t] \in Version
          /\ epochTime[s] \in Nat /\ tidCounter[s] \in Nat
    /\ acked \cup aborted \subseteq Tid

\* A transaction that ubik_EndTrans reported as committed is in the database of
\* every later sync site, once that has a database at all (the comment in
\* ubik_EndTrans: "the transaction is gauranteed to make it into the new quorum").
CommittedSurvives ==
    \A s \in Server : AllBetter(s) => \A tid \in acked : Parts(tid) \subseteq disk[s].data

\* Two databases with the same version are the same: recovery decides by versions
\* alone what has to be sent and what is best.
SameVersionSameData ==
    \A s, t \in Server :
        disk[s].label = disk[t].label /\ disk[s].label # Zero => disk[s] = disk[t]

\* What was given up before any commit is in no database, although the calls that
\* abort it elsewhere may be lost and its tid is followed by others.
AbortedNowhere ==
    \A s \in Server, tid \in aborted : disk[s].data \cap Parts(tid) = {}

\* ts->currentDB tells the truth: between commits, a sync site sends updates only
\* to servers that have its database.
CurrentIsCurrent ==
    \A s \in Server :
        AllBetter(s) /\ trans[s].phase \notin {"commit"} =>
            \A t \in currentDB[s] : disk[t] = disk[s]

\* What some quorum would elect and then find as the best database.  A server that is
\* fetching counts as what it fetches.
Source(s) == disk[IF thread[s].at = "fetching" THEN thread[s].best ELSE s]
Outcomes ==
    LET copies == {[host |-> s, db |-> Source(s)] : s \in Server}
        NotBeaten(c) == {d \in copies : ~Newer(d.db.label, c.db.label)}
    IN {c.db.data : c \in {c \in copies : IsQuorum({d.host : d \in NotBeaten(c)}, Magic)}}

Store == INSTANCE UbikStore
    WITH Transaction <- {Parts(tid) : tid \in Tid},
         outcomes <- Outcomes,
         acked <- {Parts(tid) : tid \in acked}

\* The replicated database behaves like one that keeps what it promised.
ImplementsStore == Store!StoreSpec
=============================================================================
