------------------------------ MODULE UbikLock ------------------------------
(***************************************************************************)
(* Threads of one server: clients whose transactions lock the database,    *)
(* the recovery thread that sends it, and the handlers of the calls of a   *)
(* remote sync site.  What a thread does with dbase->versionLock and the   *)
(* global ubik_llock held is one step; a step that starts a remote call    *)
(* keeps versionLock.  The beacon handler has only ubik_llock.  Like the   *)
(* clients of Ubik, a transaction takes one lock, of the same byte.        *)
(***************************************************************************)
EXTENDS Integers, FiniteSets

CONSTANTS
    Client,     \* threads that run transactions, and their transactions
    Handler,    \* threads that serve a remote sync site
    Recovery,   \* the thread of urecovery_Interact
    MaxRounds,  \* bounds on the transactions of each client and the passes of recovery
    MaxTid,     \* bound on the transactions of the remote sync site
    MaxVersion  \* bound on the versions of the database

ASSUME LockAssumption ==
    /\ MaxRounds \in [Client \cup {Recovery} -> Nat]
    /\ MaxTid \in Nat /\ MaxVersion \in Nat
    /\ Client \cap Handler = {} /\ Recovery \notin Client \cup Handler
    /\ \A c \in Client \cup Handler \cup {Recovery} : c \notin 0 .. MaxTid

VARIABLES
    at,         \* what a thread does next, or that it sleeps
    kind,       \* the type of a client's transaction
    rounds,     \* how many transactions a client began
    live,       \* dbase->activeTrans
    done,       \* the transactions with TRDONE
    writing,    \* dbase->flags & DBWRITING
    readers,    \* dbase->readers
    held,       \* the locks, on the activeLocks of their transactions
    want,       \* the transactions whose lock has LWANT
    on,         \* whose lock a thread sleeps on in ulock_SetLock
    current,    \* ubik_currentTrans, or 0
    ptr,        \* atrans of a handler in ulock_SetLock
    call,       \* the transaction of the remote sync site and how far it is
    site,       \* ubeacon_AmSyncSite
    version,    \* dbase->version
    seen,       \* history: the version when a client's transaction got its lock
    late        \* history: a call was given up although it was being served

transVars == <<live, done, writing, readers, held, want, current>>
clientVars == <<kind, rounds, seen>>
remoteVars == <<ptr, call>>
vars == <<at, transVars, on, clientVars, remoteVars, site, version, late>>

Thread == Client \cup Handler \cup {Recovery}
Trans == Client \cup (1 .. MaxTid)
Nobody == 0

Kind(t) == IF t \in Client THEN kind[t] ELSE "write"

\* Nobody holds dbase->versionLock during a remote call.
VersionFree == \A th \in Thread : at[th] \notin {"committing", "sending"}
-----------------------------------------------------------------------------
(* ulock and udisk *)

\* Mutant: nobody tells those who wait for the write transaction.
WokenLocksOnly(t) ==
    [th \in Thread |->
        IF at[th] = "lockWait" /\ on[th] = t /\ t \in want THEN "lock" ELSE at[th]]

\* osi_Wakeup of those who sleep on the lock of t and have said so in LWANT, and of
\* those who wait for the write transaction to end.
Woken(t) ==
    [th \in Thread |->
        CASE at[th] = "lockWait" /\ on[th] = t /\ t \in want -> "lock"
          [] at[th] = "beginWait" -> "begin"
          [] at[th] = "sendWait" -> "send"
          [] OTHER -> at[th]]

\* Mutant: the locks are not released.
EndLocked(t) ==
    /\ live' = live \ {t}
    /\ done' = done \ {t}
    /\ UNCHANGED <<held, want>>
    /\ IF Kind(t) = "write" /\ writing
       THEN writing' = FALSE /\ UNCHANGED readers
       ELSE readers' = readers - 1 /\ UNCHANGED writing
    /\ on' = [th \in Thread |-> IF Woken(t)[th] = "lockWait" THEN on[th] ELSE Nobody]

\* udisk_end, with ulock_ReleaseAllLocks.
End(t) ==
    /\ live' = live \ {t}
    /\ done' = done \ {t}
    /\ held' = {l \in held : l.trans # t}
    /\ want' = want \ {t}
    /\ IF Kind(t) = "write" /\ writing
       THEN writing' = FALSE /\ UNCHANGED readers
       ELSE readers' = readers - 1 /\ UNCHANGED writing
    /\ on' = [th \in Thread |-> IF Woken(t)[th] = "lockWait" THEN on[th] ELSE Nobody]

\* Mutant: only a write lock is in the way.
ConflictsWrites(type) == {l \in held : l.type = "write"}

\* The locks that a new lock of this type has to wait for.
Conflicts(type) == {l \in held : type = "write" \/ l.type = "write"}

\* Mutant: LWANT is not set.
SleepUnwanted(th, type) ==
    /\ \E l \in Conflicts(type) : on' = [on EXCEPT ![th] = l.trans]
    /\ at' = [at EXCEPT ![th] = "lockWait"]
    /\ UNCHANGED <<held, want>>

\* LWANT is set on one of them, both locks are released, and th sleeps.
Sleep(th, type) ==
    /\ \E l \in Conflicts(type) :
          want' = want \cup {l.trans} /\ on' = [on EXCEPT ![th] = l.trans]
    /\ at' = [at EXCEPT ![th] = "lockWait"]
    /\ UNCHANGED held

\* The new lock record is added to the transaction t.
Grant(th, t, type, pc) ==
    /\ Conflicts(type) = {}
    /\ held' = held \cup {[trans |-> t, type |-> type]}
    /\ at' = [at EXCEPT ![th] = pc]
    /\ UNCHANGED <<want, on>>
-----------------------------------------------------------------------------
(* The clients of this server. *)

\* udisk_begin
BeginLocal(c, type) ==
    /\ live' = live \cup {c}
    /\ IF type = "write" THEN writing' = TRUE /\ UNCHANGED readers
       ELSE readers' = readers + 1 /\ UNCHANGED writing
    /\ UNCHANGED <<done, held, want, current>>

\* ubik_BeginTrans, or ubik_BeginTransReadAny
Begin(c, type) ==
    /\ at[c] = "idle" /\ VersionFree /\ rounds[c] < MaxRounds[c]
    /\ type = "write" => site
    /\ rounds' = [rounds EXCEPT ![c] = @ + 1]
    /\ kind' = [kind EXCEPT ![c] = type]
    /\ IF type = "write" /\ writing
       THEN at' = [at EXCEPT ![c] = "beginWait"] /\ UNCHANGED transVars
       ELSE at' = [at EXCEPT ![c] = "open"] /\ BeginLocal(c, type)
    /\ UNCHANGED <<on, seen, remoteVars, site, version, late>>

\* Mutant: whoever is woken begins.
BeginAwakeOnce(c) ==
    /\ at[c] = "begin" /\ VersionFree
    /\ IF ~site THEN at' = [at EXCEPT ![c] = "idle"] /\ UNCHANGED transVars
       ELSE at' = [at EXCEPT ![c] = "open"] /\ BeginLocal(c, "write")
    /\ UNCHANGED <<on, clientVars, remoteVars, site, version, late>>

\* A write transaction that waited looks again whether there is one, and whether
\* this is still the sync site.
BeginAwake(c) ==
    /\ at[c] = "begin" /\ VersionFree
    /\ IF writing THEN at' = [at EXCEPT ![c] = "beginWait"] /\ UNCHANGED transVars
       ELSE IF ~site THEN at' = [at EXCEPT ![c] = "idle"] /\ UNCHANGED transVars
       ELSE at' = [at EXCEPT ![c] = "open"] /\ BeginLocal(c, "write")
    /\ UNCHANGED <<on, clientVars, remoteVars, site, version, late>>

\* ubik_SetLock, which asks only at the start whether the transaction is over or
\* the mandate has ended.
SetLock(c) ==
    /\ at[c] \in {"open", "lock"} /\ VersionFree
    /\ IF at[c] = "open" /\ (c \in done \/ (kind[c] = "write" /\ ~site))
       THEN /\ at' = [at EXCEPT ![c] = "failed"]
            /\ UNCHANGED <<held, want, on, seen>>
       ELSE \/ Sleep(c, kind[c]) /\ UNCHANGED seen
            \/ /\ Grant(c, c, kind[c], "locked")
               /\ seen' = [seen EXCEPT ![c] = version]
    /\ UNCHANGED <<live, done, writing, readers, current, kind, rounds, remoteVars, site,
                   version, late>>

\* ubik_EndTrans of a write transaction starts the remote commits, and all calls of
\* it keep versionLock.
EndTrans(c) ==
    /\ at[c] = "locked" /\ VersionFree /\ kind[c] = "write" /\ site
    /\ at' = [at EXCEPT ![c] = "committing"]
    /\ UNCHANGED <<transVars, on, clientVars, remoteVars, site, version, late>>

\* udisk_commit, then the end of ubik_EndTrans.
Commit(c) ==
    /\ at[c] = "committing"
    /\ version' = IF c \in done THEN version ELSE version + 1
    /\ End(c)
    /\ at' = [Woken(c) EXCEPT ![c] = "idle"]
    /\ seen' = [seen EXCEPT ![c] = 0]
    /\ UNCHANGED <<current, kind, rounds, remoteVars, site, late>>

\* ubik_AbortTrans, or ubik_EndTrans of a transaction that has nothing to commit.
Abort(c) ==
    /\ at[c] \in {"locked", "failed"} /\ VersionFree
    /\ End(c)
    /\ at' = [Woken(c) EXCEPT ![c] = "idle"]
    /\ seen' = [seen EXCEPT ![c] = 0]
    /\ UNCHANGED <<current, kind, rounds, remoteVars, site, version, late>>
-----------------------------------------------------------------------------
(* Recovery sends the database when no write transaction is under way. *)

\* A pass that waits goes on even when the mandate is over.
SendStart ==
    /\ at[Recovery] \in {"idle", "send"} /\ VersionFree
    /\ at[Recovery] = "idle" => site /\ rounds[Recovery] < MaxRounds[Recovery]
    /\ at' = [at EXCEPT ![Recovery] = IF writing THEN "sendWait" ELSE "sending"]
    /\ rounds' = IF at[Recovery] = "idle" THEN [rounds EXCEPT ![Recovery] = @ + 1]
                 ELSE rounds
    /\ UNCHANGED <<transVars, on, kind, seen, remoteVars, site, version, late>>

SendEnd ==
    /\ at[Recovery] = "sending"
    /\ at' = [at EXCEPT ![Recovery] = "idle"]
    /\ UNCHANGED <<transVars, on, clientVars, remoteVars, site, version, late>>

-----------------------------------------------------------------------------
(* The calls of a remote sync site: UBIKDISK_BulkUpdate with UBULK_BEGIN and *)
(* UBULK_LOCK, then UBIKDISK_Commit and UBIKDISK_ReleaseLocks.               *)

\* The mandate of this server ends, and another server is the sync site.
Lapse ==
    /\ site
    /\ site' = FALSE
    /\ UNCHANGED <<at, transVars, on, clientVars, remoteVars, version, late>>

\* A thread is given the call with the updates of a new transaction.
Call(h) ==
    /\ ~site /\ call.phase = "over" /\ call.tid < MaxTid
    /\ at[h] = "idle"
    /\ call' = [tid |-> call.tid + 1, phase |-> "calling", by |-> h]
    /\ ptr' = [ptr EXCEPT ![h] = call'.tid]
    /\ at' = [at EXCEPT ![h] = "bulk"]
    /\ UNCHANGED <<transVars, on, clientVars, site, version, late>>

\* The remote sync site stops waiting for its calls, or dies.
GiveUp ==
    /\ call.phase # "over"
    /\ call' = [call EXCEPT !.phase = "over", !.by = Nobody]
    /\ late' = (late \/ call.phase = "calling")
    /\ UNCHANGED <<at, transVars, on, clientVars, ptr, site, version>>

\* The call that h serves returns.
Return(h, good) ==
    call' = IF call.by # h THEN call
            ELSE [call EXCEPT !.phase = IF good THEN "updated" ELSE "over", !.by = Nobody]

\* UBULK_BEGIN of SUBIKDISK_BulkUpdate.  It ends the transaction of an earlier call,
\* but not one of this server, and gives up both locks before it goes on.
BulkBegin(h) ==
    /\ at[h] = "bulk" /\ VersionFree
    /\ IF writing /\ current = Nobody
       THEN /\ at' = [at EXCEPT ![h] = "idle"]
            /\ Return(h, FALSE)
            /\ UNCHANGED <<transVars, on>>
       ELSE /\ live' = (live \ {current}) \cup {ptr[h]}
            /\ done' = done \ {current}
            /\ held' = {l \in held : l.trans # current}
            /\ want' = want \ {current}
            /\ writing' = TRUE
            /\ at' = [Woken(current) EXCEPT ![h] = "relock"]
            /\ on' = [th \in Thread |-> IF Woken(current)[th] = "lockWait" THEN on[th]
                                        ELSE Nobody]
            /\ current' = ptr[h]
            /\ UNCHANGED <<readers, call>>
    /\ UNCHANGED <<clientVars, ptr, site, version, late>>

\* UBULK_LOCK, for the transaction that is current now.
BulkLock(h) ==
    /\ at[h] = "relock" /\ VersionFree /\ current # Nobody
    /\ ptr' = [ptr EXCEPT ![h] = current]
    /\ IF current \in done
       THEN /\ at' = [at EXCEPT ![h] = "idle"]
            /\ Return(h, FALSE)
            /\ UNCHANGED <<held, want, on>>
       ELSE \/ Sleep(h, "write") /\ UNCHANGED call
            \/ Grant(h, current, "write", "idle") /\ Return(h, TRUE)
    /\ UNCHANGED <<live, done, writing, readers, current, clientVars, site, version,
                   late>>

\* There is none any more: ulock_SetLock reads through a null pointer, and the server
\* starts again.
BulkNull(h) ==
    /\ at[h] = "relock" /\ VersionFree /\ current = Nobody
    /\ at' = [th \in Thread |-> "idle"]
    /\ live' = {} /\ done' = {} /\ held' = {} /\ want' = {}
    /\ writing' = FALSE /\ readers' = 0
    /\ on' = [th \in Thread |-> Nobody]
    /\ seen' = [c \in Client |-> 0]
    /\ call' = [call EXCEPT !.phase = "over", !.by = Nobody]
    /\ site' = FALSE
    /\ UNCHANGED <<current, kind, rounds, ptr, version, late>>

\* ulock_SetLock goes on after its sleep.
BulkAwake(h) ==
    /\ at[h] = "lock" /\ VersionFree /\ ptr[h] \in live
    /\ \/ Sleep(h, "write") /\ UNCHANGED call
       \/ Grant(h, ptr[h], "write", "idle") /\ Return(h, TRUE)
    /\ UNCHANGED <<live, done, writing, readers, current, clientVars, ptr, site, version,
                   late>>

\* The same, when the transaction was freed in the meantime: the lock record gets lost
\* with it, or is on the list of the transaction that has its memory now.
BulkDangling(h) ==
    /\ at[h] = "lock" /\ VersionFree /\ ptr[h] \notin live
    /\ \/ Sleep(h, "write") /\ UNCHANGED call
       \/ /\ Conflicts("write") = {}
          /\ at' = [at EXCEPT ![h] = "idle"]
          /\ Return(h, TRUE)
          /\ UNCHANGED <<held, want, on>>
       \/ \E t \in live : Kind(t) = "write" /\ Grant(h, t, "write", "idle")
                          /\ Return(h, TRUE)
    /\ UNCHANGED <<live, done, writing, readers, current, clientVars, ptr, site, version,
                   late>>

\* urecovery_CheckTid ends a transaction that is older than the call.
Older == current # Nobody /\ current < call.tid

\* SUBIKDISK_Commit
RemoteCommit ==
    /\ call.phase = "updated" /\ VersionFree
    /\ IF current = call.tid /\ current \notin done
       THEN /\ version' = version + 1
            /\ done' = done \cup {current}
            /\ call' = [call EXCEPT !.phase = "committed"]
            /\ UNCHANGED <<at, live, writing, readers, held, want, current, on>>
       ELSE /\ call' = [call EXCEPT !.phase = "over"]
            /\ IF Older THEN End(current) /\ at' = Woken(current) /\ current' = Nobody
               ELSE UNCHANGED <<at, transVars, on>>
            /\ UNCHANGED version
    /\ UNCHANGED <<clientVars, ptr, site, late>>

\* SUBIKDISK_ReleaseLocks
ReleaseLocks ==
    /\ call.phase = "committed" /\ VersionFree
    /\ call' = [call EXCEPT !.phase = "over"]
    /\ IF current = Nobody THEN UNCHANGED <<at, transVars, on>>
       ELSE End(current) /\ at' = Woken(current) /\ current' = Nobody
    /\ UNCHANGED <<clientVars, ptr, site, version, late>>

\* A beacon, whose tid says what the sync site does.  Its handler has no versionLock.
Beacon ==
    /\ ~site /\ current # Nobody
    /\ Older \/ call.phase = "over"
    /\ End(current) /\ at' = Woken(current) /\ current' = Nobody
    /\ UNCHANGED <<clientVars, remoteVars, site, version, late>>

\* Mutant: the transactions of this server go on.
SendFileKeeps ==
    /\ ~site /\ VersionFree /\ call.phase = "over" /\ version < MaxVersion
    /\ version' = version + 1
    /\ UNCHANGED <<at, transVars, on, clientVars, remoteVars, site, late>>

\* SUBIKDISK_SendFile, with urecovery_AbortAll.
SendFile ==
    /\ ~site /\ VersionFree /\ call.phase = "over" /\ version < MaxVersion
    /\ done' = live
    /\ version' = version + 1
    /\ UNCHANGED <<at, live, writing, readers, held, want, current, on, clientVars,
                   remoteVars, site, late>>
-----------------------------------------------------------------------------
Init ==
    /\ at = [th \in Thread |-> "idle"]
    /\ kind = [c \in Client |-> "read"]
    /\ rounds = [th \in Client \cup {Recovery} |-> 0]
    /\ live = {} /\ done = {} /\ held = {} /\ want = {}
    /\ writing = FALSE /\ readers = 0
    /\ on = [th \in Thread |-> Nobody]
    /\ current = Nobody
    /\ ptr = [h \in Handler |-> Nobody]
    /\ call = [tid |-> 0, phase |-> "over", by |-> Nobody]
    /\ site = TRUE
    /\ version = 0
    /\ seen = [c \in Client |-> 0]
    /\ late = FALSE

\* What a thread does that has started something.
ClientStep(c) == BeginAwake(c) \/ SetLock(c) \/ EndTrans(c) \/ Commit(c) \/ Abort(c)
RecoveryStep == (at[Recovery] # "idle" /\ SendStart) \/ SendEnd
HandlerStep(h) ==
    BulkBegin(h) \/ BulkLock(h) \/ BulkNull(h) \/ BulkAwake(h) \/ BulkDangling(h)
SiteStep == RemoteCommit \/ ReleaseLocks

Next ==
    \/ \E c \in Client : ClientStep(c) \/ \E type \in {"read", "write"} : Begin(c, type)
    \/ SendStart \/ SendEnd \/ Lapse
    \/ \E h \in Handler : Call(h) \/ HandlerStep(h)
    \/ GiveUp \/ SiteStep \/ Beacon \/ SendFile

\* Threads run, clients end their transactions, and the remote sync site goes on with
\* its transaction once a call has returned and sends beacons.  It need not give up a
\* call that does not return.
Fairness ==
    /\ \A c \in Client : WF_vars(ClientStep(c))
    /\ \A h \in Handler : WF_vars(HandlerStep(h))
    /\ WF_vars(RecoveryStep) /\ WF_vars(SiteStep) /\ WF_vars(Beacon)

Spec == Init /\ [][Next]_vars /\ Fairness
-----------------------------------------------------------------------------
(* Properties. *)

\* The variables keep to their types; in particular, only transactions on
\* dbase->activeTrans have locks, and ubik_currentTrans is one of them or NULL.
LockTypeOK ==
    /\ \A th \in Thread :
          /\ at[th] \in {"idle", "begin", "beginWait", "open", "lock", "lockWait",
                         "locked", "failed", "committing", "send", "sendWait",
                         "sending", "bulk", "relock"}
          /\ on[th] \in Trans \cup {Nobody}
    /\ \A c \in Client :
          /\ kind[c] \in {"read", "write"}
          /\ rounds[c] \in 0 .. MaxRounds[c] /\ seen[c] \in Nat
    /\ rounds[Recovery] \in 0 .. MaxRounds[Recovery]
    /\ live \subseteq Trans /\ done \subseteq live /\ want \subseteq live
    /\ held \subseteq [trans : live, type : {"read", "write"}]
    /\ current \in {Nobody} \cup (live \ Client)
    /\ writing \in BOOLEAN /\ site \in BOOLEAN /\ late \in BOOLEAN
    /\ readers \in Nat /\ version \in Nat
    /\ \A h \in Handler : ptr[h] \in 0 .. MaxTid
    /\ call.tid \in 0 .. MaxTid /\ call.by \in Handler \cup {Nobody}
    /\ call.phase \in {"over", "calling", "updated", "committed"}

\* A write lock excludes every other lock.
Exclusion ==
    \A l \in held : l.type = "write" => held = {l}

\* dbase->flags and dbase->readers count the transactions of dbase->activeTrans: at
\* most one of them writes ("at most one write transaction occurs at any one time",
\* ubik.c), whoever ended the others, with dbase->versionLock or without.
WritersCounted ==
    /\ Cardinality({t \in live : Kind(t) = "write"}) = (IF writing THEN 1 ELSE 0)
    /\ readers = Cardinality({t \in live : Kind(t) = "read"})

\* No wakeup is lost: whoever sleeps on a lock or on dbase->flags sleeps on something
\* that is there, and that will be announced when it goes.
SleepersAreWoken ==
    \A th \in Thread :
        /\ at[th] \in {"beginWait", "sendWait"} => writing
        /\ at[th] = "lockWait" =>
              on[th] \in want /\ \E l \in held : l.trans = on[th]

\* While a transaction has its lock and was not aborted, nobody else changes the
\* database: no commit of a thread of this server or of the remote sync site, and no
\* database received.
RepeatableRead ==
    \A c \in Client : at[c] = "locked" /\ c \notin done => seen[c] = version

\* Unless a call was given up while it was served, whoever has the lock waits for nobody:
\* a client is between its lock and its end, and a remote transaction has all its calls
\* returned, or the handler of the next one is about to end it.  So no threads wait for
\* each other in a circle.
HoldersRun ==
    ~late => \A l \in held :
        IF l.trans \in Client THEN at[l.trans] \in {"locked", "committing"}
        ELSE /\ l.trans = current
             /\ call.phase = "calling" => at[call.by] = "bulk"

\* While something is under way, somebody can go on: a thread that does not sleep, or
\* the remote sync site, whose next call or beacon ends the transaction that is current.
SomeoneRuns ==
    ~late /\ (\E th \in Thread : at[th] # "idle") =>
        \/ \E th \in Thread : at[th] \notin {"idle", "beginWait", "sendWait", "lockWait"}
        \/ current # Nobody /\ ~site /\ (Older \/ call.phase # "calling")

\* Every thread ends what it has started, unless the remote sync site gave up
\* a call that was being served: its handler may then take the lock of the next
\* transaction, whose own handler waits for it for ever.
EveryoneReturns ==
    (\E th \in Thread : at[th] # "idle") ~> (late \/ \A th \in Thread : at[th] = "idle")
=============================================================================
