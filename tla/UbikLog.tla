------------------------------ MODULE UbikLog ------------------------------
(***************************************************************************)
(* Transactions of one server on its disk: the buffer cache and the redo   *)
(* log of disk.c, the files of phys.c, and the replay of the log when the  *)
(* server starts (recovery.c).  The log has new values only: updates go to *)
(* the log and to buffers in memory; a commit writes its end record and    *)
(* syncs the log, and only then writes buffers, truncations and the label  *)
(* to the database file and discards the log.                              *)
(*                                                                         *)
(* A crash can come between any two writes to the disk, and what was       *)
(* written since the last fsync of a file may or may not be there          *)
(* afterwards: every position of the database file, its length and its     *)
(* label separately, and of the log a shorter part of what was appended.   *)
(* (A log cut within a record reads like one that ends before it.)  The    *)
(* steps of a commit are actions of their own for this reason alone: the   *)
(* server's lock is held throughout, so nobody else sees them.             *)
(*                                                                         *)
(* A position stands for a piece of the file that is written at once.  The *)
(* log is kept as what replaying it amounts to: the last value it has for  *)
(* each position.  Database locks keep readers away from the pages that a  *)
(* write transaction changed, so readers appear only as the buffers they   *)
(* fill.  Only one database file is ever used (uphys_getnfiles).           *)
(***************************************************************************)
EXTENDS Integers, FiniteSets

CONSTANTS
    Size,          \* bound: positions of the database file
    PageSize,      \* UBIK_PAGESIZE, in positions
    Value,         \* what can be written to a position
    ubik_nBuffers, \* buffers of the cache
    NetworkOrder,  \* is the byte order of this host that of htonl
    MaxVersion     \* bound: commits

ASSUME LogAssumption ==
    /\ Size \in Nat /\ PageSize \in Nat \ {0}
    /\ ubik_nBuffers \in Nat /\ MaxVersion \in Nat
    /\ Value \subseteq Nat \ {0}
    /\ NetworkOrder \in BOOLEAN

VARIABLES
    \* the database file: what processes read, and what a crash may leave
    disk,          \* [len, data]
    unsure,        \* [len, data]: the sets of values that may survive
    label,         \* counter of its version, 0 if it has no label
    labels,        \* those that may survive
    \* the log file
    log,           \* its contents, summed up
    logs,          \* what may survive
    \* memory
    cached, dirty, \* pages in buffers, those modified
    mem,           \* contents of the buffers, 0 outside of them
    trans,         \* the write transaction; "failed" after a failed udisk_write
    cutAt,         \* length in its activeTruncs, NoCut if none
    version,       \* dbase->version.counter
    phase,         \* what is going on: "idle", or the next step of it
    goal           \* history: the file the transaction asks for

fileVars   == <<disk, unsure, label, labels>>
logVars    == <<log, logs>>
bufferVars == <<cached, dirty, mem>>
transVars  == <<trans, cutAt, goal>>
vars == <<fileVars, logVars, bufferVars, transVars, version, phase>>

Position == 0 .. Size - 1
Data     == [Position -> Value \cup {0}]
NoCut    == Size + 1
PageOf(c) == c \div PageSize
Page     == {PageOf(c) : c \in Position}
Larger(a, b) == IF a >= b THEN a ELSE b

-----------------------------------------------------------------------------
(* Files: what is beyond the length is 0, which is also what a hole reads. *)

Image == {img \in [len : 0 .. Size, data : Data] :
              \A c \in Position : c >= img.len => img.data[c] = 0}

Empty == [len |-> 0, data |-> [c \in Position |-> 0]]

\* uphys_write of one position.
Put(img, c, v) == [len |-> Larger(img.len, c + 1), data |-> [img.data EXCEPT ![c] = v]]

\* uphys_truncate, which also extends.
Cut(img, n) == [len  |-> n,
                data |-> [c \in Position |-> IF c < n THEN img.data[c] ELSE 0]]

\* The file is now img, but not synced.
WriteFile(img) ==
    /\ disk' = img
    /\ unsure' = [len  |-> unsure.len \cup {img.len},
                  data |-> [c \in Position |-> unsure.data[c] \cup {img.data[c]}]]

Certain(img) == [len |-> {img.len}, data |-> [c \in Position |-> {img.data[c]}]]

\* uphys_setlabel up to its fsync.
WriteLabel(n) ==
    /\ label' = n
    /\ labels' = labels \cup {n}

\* fsync on the database file, which holds the label too.
SyncFile ==
    /\ unsure' = Certain(disk)
    /\ labels' = {label}
    /\ UNCHANGED <<disk, label>>

Survivors == {img \in Image :
                 /\ img.len \in unsure.len
                 /\ \A c \in Position : c < img.len => img.data[c] \in unsure.data[c]}

-----------------------------------------------------------------------------
(* The log.  A record after the first end or abort is never read. *)

NoLog == [touched |-> {}, data |-> [c \in Position |-> 0],
          cut |-> FALSE, len |-> 0, mark |-> "open", version |-> 0]

\* udisk_LogWriteData
LogData(l, c, v) ==
    IF l.mark # "open" THEN l
    ELSE [touched |-> l.touched \cup {c}, data |-> [l.data EXCEPT ![c] = v],
          cut |-> l.cut, len |-> Larger(l.len, c + 1), mark |-> l.mark, version |-> l.version]

\* udisk_LogTruncate
LogTruncate(l, n) ==
    IF l.mark # "open" THEN l
    ELSE [touched |-> l.touched \cup {c \in Position : c >= n},
          data |-> [c \in Position |-> IF c < n THEN l.data[c] ELSE 0],
          cut |-> TRUE, len |-> n, mark |-> l.mark, version |-> l.version]

\* udisk_LogEnd, and udisk_LogOpcode with LOGABORT
LogMark(l, mark, n) ==
    IF l.mark # "open" THEN l ELSE [l EXCEPT !.mark = mark, !.version = n]

WriteLog(l) ==
    /\ log' = l
    /\ logs' = logs \cup {l}

SyncLog ==
    /\ logs' = {log}
    /\ UNCHANGED log

\* First pass of ReplayLog.  Opcodes are written with htonl and compared as they
\* are read.
IsCommitted(l) == l.mark = "end" /\ NetworkOrder

\* Second pass of ReplayLog.
Replayed(img, l) ==
    [len  |-> IF l.cut THEN l.len ELSE Larger(img.len, l.len),
     data |-> [c \in Position |-> IF c \in l.touched THEN l.data[c] ELSE img.data[c]]]

\* What a server has after urecovery_Initialize, given what is on its disk.
Recovered(img, n, l) ==
    IF IsCommitted(l) THEN [image |-> Replayed(img, l), version |-> l.version]
    ELSE [image |-> img, version |-> IF n = 0 THEN 1 ELSE n]

\* What it would have if the machine crashed now.
Outcomes == {Recovered(img, n, l) : img \in Survivors, n \in labels, l \in logs}

-----------------------------------------------------------------------------
(* The buffer cache. *)

\* uphys_read takes a short page for the end of the file.
Readable(p) == (p + 1) * PageSize <= disk.len

\* The contents of the buffers when the pages kept are in them: those that were
\* not are read from the file, or start out as zeroes.
Buffers(kept) ==
    [c \in Position |->
        IF PageOf(c) \notin kept THEN 0
        ELSE IF PageOf(c) \in cached THEN mem[c]
        ELSE IF Readable(PageOf(c)) THEN disk.data[c] ELSE 0]

\* Mutant: a buffer is reused whether or not it is dirty.
SlotsAny(p) == {kept \cup {p} : kept \in {k \in SUBSET cached : 
                    Cardinality(k \cup {p}) <= ubik_nBuffers}}

\* newslot: any clean buffers may have been reused, dirty ones never are.
Slots(p) == {kept \cup {p} : kept \in {k \in SUBSET cached : 
                 dirty \subseteq k /\ Cardinality(k \cup {p}) <= ubik_nBuffers}}

\* DRead for a reader.  A short page is not kept.
Read(p) ==
    /\ phase = "idle"
    /\ \E kept \in Slots(p) :
           LET now == IF p \in cached \/ Readable(p) THEN kept ELSE kept \ {p} IN
           /\ cached' = now
           /\ mem' = Buffers(now)
    /\ UNCHANGED <<fileVars, logVars, dirty, transVars, version, phase>>

\* The file as one reads it through the buffers.
View == [len |-> disk.len,
         data |-> [c \in Position |-> IF PageOf(c) \in cached THEN mem[c] ELSE disk.data[c]]]

-----------------------------------------------------------------------------
(* A write transaction up to its end. *)

\* udisk_begin.  Its LOGNEW record has no effect on a replay.
Begin ==
    /\ phase = "idle" /\ trans = "none"
    /\ version < MaxVersion
    /\ trans' = "active"
    /\ cutAt' = NoCut
    /\ goal' = disk
    /\ UNCHANGED <<fileVars, logVars, bufferVars, version, phase>>

\* What the callers of Ubik do: nobody calls ubik_Truncate, and somebody who did
\* had better not leave a gap afterwards (udisk_write extends the truncation over
\* it, so that old data stays in the gap).
CallerTouches(n) == cutAt = NoCut \/ n <= cutAt

\* udisk_write, when there are buffers.
Write(c, v) ==
    /\ phase = "idle" /\ trans = "active" /\ CallerTouches(c)
    /\ WriteLog(LogData(log, c, v))
    /\ cutAt' = IF cutAt = NoCut THEN NoCut ELSE Larger(cutAt, c + 1)
    /\ \E kept \in Slots(PageOf(c)) :
           /\ cached' = kept
           /\ mem' = [Buffers(kept) EXCEPT ![c] = v]
    /\ dirty' = dirty \cup {PageOf(c)}
    /\ goal' = Put(goal, c, v)
    /\ UNCHANGED <<fileVars, trans, version, phase>>

\* udisk_write when every buffer is dirty: UIOERROR, with the data in the log.
\* Its callers then abort.
WriteFails(c, v) ==
    /\ phase = "idle" /\ trans = "active" /\ CallerTouches(c)
    /\ Slots(PageOf(c)) = {}
    /\ WriteLog(LogData(log, c, v))
    /\ cutAt' = IF cutAt = NoCut THEN NoCut ELSE Larger(cutAt, c + 1)
    /\ trans' = "failed"
    /\ UNCHANGED <<fileVars, bufferVars, goal, version, phase>>

\* udisk_truncate
Truncate(n) ==
    /\ phase = "idle" /\ trans = "active" /\ CallerTouches(n)
    /\ WriteLog(LogTruncate(log, n))
    /\ cutAt' = IF cutAt > n THEN n ELSE cutAt
    /\ goal' = Cut(goal, n)
    /\ UNCHANGED <<fileVars, bufferVars, trans, version, phase>>

\* udisk_abort: the abort record is synced, then the log discarded.
AbortLog ==
    /\ phase = "idle" /\ trans \in {"active", "failed"}
    /\ log' = LogMark(log, "abort", 0)
    /\ logs' = {log'}
    /\ phase' = "aborting"
    /\ trans' = "aborted"
    /\ UNCHANGED <<fileVars, bufferVars, cutAt, goal, version>>

\* Mutant: the dirty pages stay, as clean ones.
DAbortKeeps ==
    /\ dirty' = {}
    /\ UNCHANGED <<cached, mem>>

\* DAbort: the dirty pages are dropped.
DAbort ==
    /\ cached' = cached \ dirty
    /\ mem' = Buffers(cached')
    /\ dirty' = {}

AbortDiscard ==
    /\ phase = "aborting"
    /\ WriteLog(NoLog)
    /\ DAbort
    /\ phase' = "idle"
    /\ UNCHANGED <<fileVars, transVars, version>>

\* udisk_end
End ==
    /\ phase = "idle" /\ trans \in {"committed", "aborted"}
    /\ trans' = "none"
    /\ cutAt' = NoCut
    /\ goal' = Empty
    /\ UNCHANGED <<fileVars, logVars, bufferVars, version, phase>>

-----------------------------------------------------------------------------
(* udisk_commit, up to the next crash. *)

\* udisk_LogEnd: the end record, then the fsync that decides.
CommitLog ==
    /\ phase = "idle" /\ trans = "active"
    /\ trans' = "committed"
    /\ version' = version + 1
    /\ WriteLog(LogMark(log, "end", version'))
    /\ phase' = "logged"
    /\ UNCHANGED <<fileVars, bufferVars, cutAt, goal>>

\* Mutant: the log is not synced before the database file is written.
CommitUnsynced ==
    /\ phase = "logged"
    /\ phase' = "flush"
    /\ UNCHANGED <<logVars, fileVars, bufferVars, transVars, version>>

CommitSync ==
    /\ phase = "logged"
    /\ SyncLog
    /\ phase' = "flush"
    /\ UNCHANGED <<fileVars, bufferVars, transVars, version>>

\* udisk_LogEnd fails, in its write or in its fsync: udisk_commit returns with
\* TRDONE set and everything else as it is.
CommitFails ==
    /\ \/ /\ phase = "idle" /\ trans = "active"
          /\ version' = version + 1
          /\ UNCHANGED logVars
       \/ /\ phase = "logged"
          /\ UNCHANGED <<version, logVars>>
    /\ trans' = "committed"
    /\ phase' = "idle"
    /\ UNCHANGED <<fileVars, bufferVars, cutAt, goal>>

\* The file after DFlush, which writes whole pages.
FlushLength(n) ==
    /\ n >= disk.len /\ \A p \in dirty : n >= (p + 1) * PageSize
    /\ n = disk.len \/ \E p \in dirty : n = (p + 1) * PageSize

Flushed(n) ==
    [len |-> n,
     data |-> [c \in Position |-> IF PageOf(c) \in dirty THEN mem[c] ELSE disk.data[c]]]

\* DFlush
CommitFlush ==
    /\ phase = "flush"
    /\ \E n \in 0 .. Size : FlushLength(n) /\ WriteFile(Flushed(n))
    /\ phase' = "sync"
    /\ UNCHANGED <<label, labels, logVars, bufferVars, transVars, version>>

\* DSync, which syncs the file only if there is a dirty page.
CommitPages ==
    /\ phase = "sync"
    /\ IF dirty # {} THEN SyncFile ELSE UNCHANGED fileVars
    /\ dirty' = {}
    /\ phase' = "truncs"
    /\ UNCHANGED <<logVars, cached, mem, transVars, version>>

\* DoTruncs, with DTrunc: pages that start beyond the length leave the cache.
CommitTruncs ==
    /\ phase = "truncs"
    /\ IF cutAt = NoCut THEN UNCHANGED <<disk, unsure, cached, mem>>
       ELSE /\ WriteFile(Cut(disk, cutAt))
            /\ cached' = {p \in cached : p * PageSize < cutAt}
            /\ mem' = Buffers(cached')
    /\ cutAt' = NoCut
    /\ phase' = "label"
    /\ UNCHANGED <<label, labels, logVars, dirty, trans, goal, version>>

CommitLabel ==
    /\ phase = "label"
    /\ WriteLabel(version)
    /\ phase' = "fsync"
    /\ UNCHANGED <<disk, unsure, logVars, bufferVars, transVars, version>>

CommitLabelSync ==
    /\ phase = "fsync"
    /\ SyncFile
    /\ phase' = "discard"
    /\ UNCHANGED <<logVars, bufferVars, transVars, version>>

CommitDiscard ==
    /\ phase = "discard"
    /\ WriteLog(NoLog)
    /\ phase' = "idle"
    /\ UNCHANGED <<fileVars, bufferVars, transVars, version>>

-----------------------------------------------------------------------------
(* Crash and restart. *)

\* The server dies, or panics because a write failed, and the system writes out
\* what it still has, or the machine stops and does not.
Crash ==
    /\ phase # "down"
    /\ \E img \in Survivors : disk' = img /\ unsure' = Certain(img)
    /\ \E n \in labels : label' = n /\ labels' = {n}
    /\ \E l \in logs : log' = l /\ logs' = {l}
    /\ cached' = {} /\ dirty' = {} /\ mem' = Empty.data
    /\ trans' = "none" /\ cutAt' = NoCut /\ goal' = Empty
    /\ version' = 0
    /\ phase' = "down"

\* ReplayLog
StartReplay ==
    /\ phase = "down"
    /\ phase' = IF IsCommitted(log) THEN "replay" ELSE "clear"
    /\ UNCHANGED <<fileVars, logVars, bufferVars, transVars, version>>

\* The data and truncations of the log.
ReplayRecords ==
    /\ phase = "replay"
    /\ WriteFile(Replayed(disk, log))
    /\ phase' = "relabel"
    /\ UNCHANGED <<label, labels, logVars, bufferVars, transVars, version>>

ReplayLabel ==
    /\ phase = "relabel"
    /\ WriteLabel(log.version)
    /\ phase' = "resync"
    /\ UNCHANGED <<disk, unsure, logVars, bufferVars, transVars, version>>

\* Mutant: the log is discarded before what it had is on the disk.
ReplayUnsynced ==
    /\ phase = "resync"
    /\ phase' = "clear"
    /\ UNCHANGED <<fileVars, logVars, bufferVars, transVars, version>>

ReplaySync ==
    /\ phase = "resync"
    /\ SyncFile
    /\ phase' = "clear"
    /\ UNCHANGED <<logVars, bufferVars, transVars, version>>

ReplayClear ==
    /\ phase = "clear"
    /\ WriteLog(NoLog)
    /\ phase' = "initialize"
    /\ UNCHANGED <<fileVars, bufferVars, transVars, version>>

\* InitializeDB.  A file without a label is a new database.
InitializeDB ==
    /\ phase = "initialize"
    /\ version' = IF label = 0 THEN 1 ELSE label
    /\ label' = version' /\ labels' = {version'}
    /\ unsure' = IF label = 0 THEN Certain(disk) ELSE unsure
    /\ phase' = "idle"
    /\ UNCHANGED <<disk, logVars, bufferVars, transVars>>

-----------------------------------------------------------------------------

Init ==
    /\ disk = Empty /\ unsure = Certain(Empty)
    /\ label = 0 /\ labels = {0}
    /\ log = NoLog /\ logs = {NoLog}
    /\ cached = {} /\ dirty = {} /\ mem = Empty.data
    /\ trans = "none" /\ cutAt = NoCut /\ goal = Empty
    /\ version = 0
    /\ phase = "down"

Commit == \/ CommitLog \/ CommitSync \/ CommitFlush \/ CommitPages
          \/ CommitTruncs \/ CommitLabel \/ CommitLabelSync \/ CommitDiscard

Replay == \/ StartReplay \/ ReplayRecords \/ ReplayLabel \/ ReplaySync
          \/ ReplayClear \/ InitializeDB

Next ==
    \/ \E p \in Page : Read(p)
    \/ Begin
    \/ \E c \in Position, v \in Value : Write(c, v) \/ WriteFails(c, v)
    \/ \E n \in 0 .. Size : Truncate(n)
    \/ AbortLog \/ AbortDiscard \/ End
    \/ Commit
    \/ Crash \/ Replay

Spec == Init /\ [][Next]_vars

\* The same when writing the end record can fail.
IOErrorSpec == Init /\ [][Next \/ CommitFails]_vars

-----------------------------------------------------------------------------
(* Properties. *)

Log == [touched : SUBSET Position, data : Data, cut : BOOLEAN, len : 0 .. Size,
        mark : {"open", "end", "abort"}, version : Nat]

TypeOK ==
    /\ disk \in Image /\ goal \in Image
    /\ unsure \in [len : SUBSET (0 .. Size), data : [Position -> SUBSET (Value \cup {0})]]
    /\ disk.len \in unsure.len /\ \A c \in Position : disk.data[c] \in unsure.data[c]
    /\ label \in Nat /\ version \in Nat
    /\ label \in labels /\ labels \subseteq Nat
    /\ log \in logs /\ logs \subseteq Log
    /\ cached \subseteq Page /\ dirty \subseteq cached
    /\ mem \in Data
    /\ trans \in {"none", "active", "failed", "committed", "aborted"}
    /\ cutAt \in 0 .. NoCut
    /\ phase \in {"idle", "aborting",
                  "logged", "flush", "sync", "truncs", "label", "fsync", "discard",
                  "down", "replay", "relabel", "resync", "clear", "initialize"}

(* What readers are served when no transaction is open is what a crash would
   leave, contents and version: a finished or aborted transaction leaves
   nothing in memory only, and nothing on the disk only (the comment on the log
   format in recovery.c). *)
ServedIsDurable ==
    phase = "idle" /\ trans \notin {"active", "failed"} =>
        Outcomes = {[image |-> View, version |-> version]}

(* Past the fsync of udisk_LogEnd, "THERE IS NO GOING BACK": whatever a crash
   does to the file while it is written, the transaction is there afterwards. *)
CommitDurable ==
    \/ phase \in {"flush", "sync", "truncs", "label", "fsync", "discard"}
    \/ phase = "idle" /\ trans = "committed"
    => Outcomes = {[image |-> goal, version |-> version]}

DB == INSTANCE UbikDatabase WITH Image <- Image, outcomes <- Outcomes

(* A crash at any moment, also during recovery, leaves a whole database: the
   one before the transaction or the one after it, with its version. *)
ImplementsDatabase == DB!DatabaseSpec

(* udisk_end: "if it hasn't committed before you call this routine, we'll
   abort the trans for you". *)
EndLeavesNothing == phase = "idle" /\ trans = "none" => dirty = {}

(* "the only repair is to complete the transaction by playing the log": after
   it, later transactions find what was committed, and keep it. *)
BytesKept == phase = "idle" /\ trans = "committed" => disk.data = goal.data

-----------------------------------------------------------------------------
(* Why it works, for hosts in network order and transactions that write whole
   pages.  All of what follows is about what a crash can leave. *)

Settled == unsure = Certain(disk) /\ labels = {label}

\* Whichever of the values of u are in the file, replaying l makes img of it.
Fixes(u, l, img) ==
    /\ \A c \in Position :
           IF c \in l.touched THEN l.data[c] = img.data[c]
           ELSE /\ u.data[c] = {img.data[c]}
                /\ \A n \in u.len : c >= n => img.data[c] = 0
    /\ IF l.cut THEN l.len = img.len
       ELSE \A n \in u.len : Larger(n, l.len) = img.len

Pins(l, img) == Fixes(unsure, l, img)

\* Replaying l changes nothing: it was replayed, or committed, before.
Stale(l) == l.mark = "end" => l.version = label /\ Pins(l, disk)

WellFormed(l) ==
    /\ \A c \in Position : IF l.cut THEN c >= l.len => c \in l.touched /\ l.data[c] = 0
                           ELSE c \in l.touched => c < l.len
    /\ l.mark = "end" => l.version > 0

Survives(c) == cutAt = NoCut \/ c < cutAt

\* Flushing the buffers and truncating makes the goal of the file.
BuffersMakeGoal ==
    /\ \A c \in Position :
           /\ PageOf(c) \in dirty => c \in log.touched
           /\ Survives(c) => goal.data[c] = IF PageOf(c) \in dirty THEN mem[c] ELSE disk.data[c]
    /\ IF cutAt = NoCut THEN FlushLength(goal.len) ELSE goal.len = cutAt /\ log.cut

Committing == phase \in {"flush", "sync", "truncs", "label", "fsync", "discard"}
Restarting == phase \in {"down", "replay", "relabel", "resync", "clear", "initialize"}
Ended      == phase = "idle" /\ trans \notin {"active", "failed"}

BuffersInv ==
    \A c \in Position : /\ PageOf(c) \in cached
                        /\ PageOf(c) \notin dirty \/ phase = "sync"
                        => mem[c] = disk.data[c]

IdleInv ==
    /\ phase \in {"idle", "aborting"} => version = label /\ label > 0
    /\ phase \in {"idle", "aborting", "initialize"} => \A l \in logs : Stale(l)
    /\ phase = "idle" => log.mark = "open"
    /\ Ended \/ phase = "initialize" => log = NoLog /\ dirty = {}
    /\ Ended /\ trans = "committed" => disk = goal
    /\ phase = "idle" /\ trans = "active" => Pins(log, goal) /\ BuffersMakeGoal
    /\ phase = "aborting" => trans = "aborted"

CommitInv ==
    /\ phase = "logged" =>
           /\ version = label + 1 /\ label > 0
           /\ \A l \in logs : l = log \/ Stale(l)
    /\ phase = "logged" \/ Committing =>
           /\ trans = "committed" /\ log.mark = "end" /\ log.version = version
           /\ Pins(log, goal)
    /\ phase \in {"logged", "flush"} => BuffersMakeGoal
    /\ Committing => logs = {log}
    /\ phase \in {"sync", "truncs"} =>
           /\ cutAt # NoCut => log.cut
           /\ goal = IF cutAt = NoCut THEN disk ELSE Cut(disk, cutAt)
    /\ phase \in {"label", "fsync", "discard"} => disk = goal
    /\ phase \in {"truncs", "label", "fsync", "discard"} => dirty = {}
    /\ phase \in {"fsync", "discard"} => label = version

RestartInv ==
    /\ Restarting => trans = "none" /\ cached = {} /\ dirty = {}
    /\ Restarting /\ phase # "initialize" => logs = {log}
    /\ phase \in {"replay", "relabel", "resync"} => log.mark = "end"
    /\ phase \in {"relabel", "resync"} => Pins(log, disk)
    /\ phase = "resync" => label = log.version
    /\ phase = "clear" => Stale(log)

SettledInv ==
    /\ \/ phase \in {"idle", "aborting", "logged", "flush", "truncs", "discard"}
       \/ phase \in {"down", "replay", "clear", "initialize"}
       \/ phase = "sync" /\ dirty = {}
       => Settled
    /\ phase = "sync" => labels = {label}

LogInv ==
    /\ TypeOK
    /\ \A l \in logs : WellFormed(l)
    /\ BuffersInv
    /\ IdleInv
    /\ CommitInv
    /\ RestartInv
    /\ SettledInv

=============================================================================
