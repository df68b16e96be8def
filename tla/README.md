# Verification of two protocols of OSF DCE 1.2.2: Ubik and datagram RPC

The repository is the source of OSF DCE 1.2.2: threads (`src/threads`), RPC
(`src/rpc`), directory (`src/directory`), security (`src/security`), time
(`src/time`), administration (`src/admin`) and the distributed file system DFS
(`src/file`). This project is about two protocols in it. The larger part is
**Ubik** (`src/file/ncsubik`), the library that keeps a small database on several
servers; the other is the **datagram protocol of the RPC runtime**
(`src/rpc/runtime`), which promises that a call is executed at most once.

Ubik is the database that DFS keeps of itself. The fileset location server
(`flserver`) and the backup database server (`bakserver`) are built on it. It
elects a *sync site* among the servers, finds and distributes the newest
database after failures, and runs update transactions on all servers. Almost
everything in it is hard to test: it is about clocks, lost calls, restarts and
what is on the disk when the machine stops. The datagram protocol is about
packets that are lost, late and repeated, and about a listener and call executors
that share one call handle.

## 1. Inventory

### Ubik

| part | source | state | operations |
|---|---|---|---|
| server list | `beacon.c` `ubeacon_InitServerList` | the servers, their number, the "magic" host | read once at startup |
| vote module | `vote.c` | last vote (`ubik_lastYesTime`, `lastYesHost`, `lastYesClaim`, `lastYesState`), lowest host and sync site heard of | `SUBIKVOTE_Beacon`, `uvote_ShouldIRun`, `uvote_CheckSyncSite`, `uvote_ResetState` |
| beacon module | `beacon.c` | `ubik_amSyncSite`, `syncSiteUntil`, `ts->up` | the beacon thread `ubeacon_Interact`, `ubeacon_AmSyncSite`, `ubeacon_ResetState` |
| recovery | `recovery.c` | `urecovery_state`, `ts->version`, `ts->currentDB`, the label on disk | `urecovery_Interact`, `urecovery_Initialize`, `urecovery_CheckTid`, `urecovery_ResetState` |
| disk transactions | `disk.c`, `phys.c` | pages, label, log, buffer cache, deferred truncations | `udisk_begin/read/write/truncate/commit/abort/end`, `ReplayLog` |
| transactions | `ubik.c`, `remote.c` | active and write transactions, `ubik_currentTrans` on the others | `ubik_BeginTrans`, `ubik_EndTrans`, `ubik_AbortTrans`, `SUBIKDISK_*` |
| locks | `lock.c` | locks of transactions, `dbase->versionLock`, `ubik_llock` | `ulock_SetLock`, `ulock_ReleaseAllLocks`, `ubik_versionLock`, `ubik_hold` |
| client, pipes, debug | `ubikclient.c`, `upipe.c`, `udebug.c` | last server used | retry loop |

How the parts interact. Each server process has a beacon thread and a recovery
thread, a pool of RPC threads (`tpq`) on which beacons and fan-out calls run,
and server threads that execute `SUBIKVOTE_*` and `SUBIKDISK_*` calls. They
share one lock (`ubik_hold`/`ubik_rele`), which is **released around every RPC**
and is not held for some comparisons that look as if it were. Calls between
servers fail, are repeated and may still be running at the other side after the
caller gave up. `ubik_ResetState` makes all modules of a server start again when
clocks disagree. A transaction of the sync site goes to every server whose
database is current (`AsyncContactQuorum`, `WaitContactQuorum`) and is a success
when a quorum committed it; a server that failed is not current any more and is
brought up to date by recovery.

What makes each part correct:

* election: never two sync sites; a voter never promises itself twice within
  `BIGTIME`; a mandate never outlives the votes that back it; when the machines
  keep up, somebody is elected;
* disk: after a crash the pages are those of a prefix of the committed
  transactions that includes every one whose commit returned, and the label
  names the last of them;
* recovery: a new sync site starts from a database at least as new as any
  transaction a quorum committed, and does not write before it does;
* transactions: a commit that returned to the client survives the loss of any
  minority of servers; no server commits what the sync site aborted;
* locks: one writer or many readers, no lost wakeup.

### The datagram protocol of the RPC runtime

| part | source | state | operations |
|---|---|---|---|
| client call handle | `dgccall.c` | the call's state, its sequence number, the server's boot time in the handle | `rpc__dg_call_start`, `rpc__dg_call_end`, timers |
| client listener | `dgclsn.c` | the same | responses, rejects, nocalls, workings, quacks |
| connection table of the server | `dgsct.c` | `scte->high_seq`, `high_seq_is_way_validated`, the attached call handle | find, make, back out, forget; the who-are-you question |
| server call handle | `dgscall.c` | `scall->c.state`, `call_seq`, `client_needs_sboot` | orphan, timer, reinitialization |
| server listener | `dgslsn.c` | the two above | requests, pings, acks, quits |
| call executor | `dgexec.c` | its place in `rpc__dg_execute_call` | filter, who-are-you, manager, response |
| conversation manager | `conv.c` | none | answers a who-are-you for the call the client is in |

An activity, which is a client thread's id in all its packets, numbers its calls.
The server remembers the highest number per activity, but only while it is up and for
ten minutes. So before a non-idempotent call of an unknown activity it asks the client
(who-are-you) which call it is in, and tells it its boot time. The listener changes the
call handle while an executor has it unlocked for that question. Correct
means: a non-idempotent call is executed at most once, by all instances of the server
together; calls are executed in order; results belong to the call; who is told that a
call was not executed can rely on it.

### The rest of the repository

Named in `PROJECT.json` under `components` with its state and why it is not
modelled: the other DFS components (`tkm`, `tkset`, `tkc`, `tpq`, `zlc`, `osi`,
Episode, cache manager, protocol exporter, servers), and the other DCE services.
Of these `tkm`, `tpq`, `zlc` and `osi` locks have small concurrent cores and are
the candidates for later work; the remainder is I/O, generated code, imported
code, or on-disk structures too large for model checking.

## 2. Plan

1. `UbikServers`, `UbikElection`, `UbikPromises`, `UbikElectionTimely`: the
   election. *Done: checked, and its safety and refinement proved.*
2. `UbikLog`: the redo log of one server, crash and replay, against an abstract
   database that only ever moves from one committed state to the next. *Done:
   checked, and its invariant, durability and refinement proved.*
3. `UbikReplica`, `UbikStore`: recovery and write transactions on several
   servers, over an abstract election, against an abstract store that keeps what
   it acknowledged. *Done: checked, and its five invariants and the refinement proved.*
4. `UbikLock`: the threads of one server, with `lock.c`, `udisk_begin`/`udisk_end`
   and the handlers of a remote sync site, with liveness. *Done: checked, and its
   safety proved, with the absence of circular waits.*
5. Transfers page by page over `UbikLog` (`SendFile`, `GetFile`,
   `udisk_Invalidate`), a process that dies with writes pending, reads at servers
   that are not sync site with the wait of `ubik_EndTrans`, and the client retry
   loop.
6. `RpcDg`, `RpcCalls`: at-most-once execution in the datagram protocol, against an
   abstract service. *Done: two races of the code shown by counterexamples; until one of
   them happens its six invariants and the refinement checked and proved.*
7. Callbacks of managers, cancels and windows of fragments in the datagram protocol;
   the state tables of the connection protocol (`cnassoc.c`, `cncall.c`).
8. Other components with the same treatment: `tkm`, `tpq`, `zlc`, `osi` locks.

Theorems worth proving: for (1) the inductive invariant, one sync site and the
refinement of `UbikPromises` (done); for (2) that the log and the pages together
always determine a committed database (done); for (3) that what is acknowledged
is in the database of every later sync site, and in every database that may survive
(the refinement of `UbikStore`) (done); for (4) exclusion, the counting of
transactions, that no wakeup is lost, repeatable reads, and that nobody waits for one who
waits, which `UbikLockProofs` proves (done); for
(6) at-most-once execution for any number of calls and restarts, which `RpcDgProofs`
proves until one of two races of the code happens, and with it the refinement of
`RpcCalls` (done).

## 3. The election

### What is modelled

`UbikServers` has the configuration and the weights of votes: a yes counts two,
one more for the *magic* host, and more than `ubik_nServers` is a quorum. A
server is its lowest address in host order, because addresses are only compared.

`UbikElection` is the vote and beacon modules together, one action per step that
the code takes under its lock or between two releases of it:

| action | code |
|---|---|
| `Doze`, `StartRound`, `StartLocal` | `ubeacon_Interact`: wake, ask `uvote_ShouldIRun`, send to the others (lock released), send to itself |
| `BecomeSyncSite`, `LoseElection`, `SkewedRound` | `ubeacon_wait_for_votes` and the end of the loop |
| `ReadClock`, `RefuseSkewed`, `PassSkew` | `SUBIKVOTE_Beacon` before `ubik_hold`: `time(0)`, then the authorization check, then the comparisons with the reading, which may be stale by then |
| `BeginReset`, `StoreYesTime`, `EndReset` | `ubik_ResetState` called by such a handler, without the lock: the beacon module's part and the `time(0)` of `uvote_ResetState`; the store of `ubik_lastYesTime`; the other statics and the answer |
| `RefuseStranger`, `VoteYes`, `VoteNo` | `SUBIKVOTE_Beacon` under the lock |
| `AskAmSyncSite` | `ubeacon_AmSyncSite`, which also clears `ubik_amSyncSite` |
| `ProbeUp` | `urecovery_Interact` marks a server up that answers its probe |
| `RpcFails`, `RpcRetries`, `NoThread` | what `ubeacon_send_beacon` meets: an error (the call lost, or running on unawaited), a repetition with the old arguments, no thread |
| `Restart` | the process dies and starts with the statics of `uvote_Init` |
| `Tick` | time passes |

The beacon thread calls `ubik_ResetState` under the lock, which is an effect inside
`SkewedRound`. A handler that finds the clocks too far apart calls it **without** the lock
(`vote.c:309-323`), so its three steps interleave with votes that other handlers
give under it. A vote given between the `time(0)` of the reset and the store
of it (`vote.c:203`) is overwritten with the older second, and its host is forgotten: so
`ubik_lastYesTime` *can* go back, and no property says that it does not. How far is
bounded by `ResetDelay`, the time from the `time(0)` of a reset to the end of its
stores, a few instructions between which the thread may be preempted.
`ResetAssumption` says how much of it the protocol bears: with the times of
`ubik.p.h` (75, 60 and 10 seconds) up to 6 seconds, with those for debugging (140, 90
and 40) up to 11. A thread that is held up longer breaks the promise to be silent
for `BIGTIME`, and nothing in the code prevents it.

Time is one counter; a server's `time(0)` is that counter plus a fixed
offset, as large as it likes: that voter and candidate have similar clocks is
concluded from the code's comparisons (`HandlersTimely`), not assumed. Clock
*drift* and clocks set back by hand are not modelled. `badhost` is the outcome
of authenticating the other servers at startup. `yesTime` is a history variable:
when a voter last voted for a candidate, which the voter itself forgets.

`UbikPromises` is the abstract specification: voters promise themselves to one
host at a time and a host is sync site only on the promises of a quorum.
`UbikElection!ImplementsPromises` maps the election to it: a promise is out while
the vote is at most `BIGTIME - ResetDelay` old, whether or not the voter remembers it.

`UbikElectionTimely` adds the scheduling under which nomination must end:
threads that are due run and beacons between connected servers are handled
before time passes, handlers of one instant one after the other (at one clock
reading their order is all that matters), and mishaps stop after `LastMishap`.
The claim is then a bound, which is stronger than an eventuality: `SiteElected`
says that from `ElectionTime` after the last mishap there always is a sync site, as long
as some server in contact has a quorum among the servers that know it and that it knows
(`Acquainted`).

### What is checked

| run | instance | properties |
|---|---|---|
| `MCElectionFaults` | 2 servers, 2 rounds, with equal clocks and one failed or repeated beacon, or with one clock ahead by `MAXSKEW` and one restart; delays and resets of up to 1 | `TypeOK`, `VotesApart`, `OneSyncSite`, `LeaseBacked` |
| `MCElectionTimely` | 3 servers, one `badhost`, as many rounds as fit into 9 seconds, one restart or isolation in the first 2 | `TimelyTypeOK`, `SiteElected`, `OneSyncSite`, `ElectionInv`, `ImplementsPromises` |
| `MCElectionBadhost` | 4 servers, one `badhost` | violates `OneSyncSite` |

The times are scaled down, keeping the relation the header demands
(`BIGTIME - SMALLTIME > MAXSKEW`) with no room to spare, so that every
comparison that is off by one is caught; the mutants in `PROJECT.json` show it.
Two rounds are enough for the conflicts the safety properties are about: two
candidates, or one candidate renewing. `MCElectionFaults` has every interleaving
of handlers, with stale readings and resets without the lock, which two
servers suffice for: of two servers each votes for both. With equal clocks and a repeated
beacon a reset does overwrite a later vote there. The run with three
servers has the majorities that two do not, and the mandate that passes from one to the
other; handlers of one instant run one after the other there, which keeps it finite
enough. In `MCElectionTimely` server 3 could not authenticate server 1, so it refuses its
beacons and gives the extra vote to server 2: with three servers this must not
matter. When server 2 is lost, the other two cannot elect anybody (`Enough`).

`QuietUntil` skips the time after startup in which a server that "just voted" cannot vote for others; the
timely run needs it too, and covers that time through its restarts. A single
mishap is a bound of the runs only; the proofs have none. `MCElectionTimely` has
`ElectionTime = 8` for `BIGTIME = 3` and `POLLTIME = 2`: the promise to the lost
site has to lapse, every server waits up to `POLLTIME` before it looks, and the
winner needs a second round when its first vote request found a voter still
bound; with 6 the property fails.

### Findings

* `MCElectionBadhost` (code): the magic host is computed from the servers that
  could be authenticated (`beacon.c:382`), so two servers can disagree about it,
  while the dropped server still counts in `ubik_nServers`. With an even number
  of servers two halves then elect one sync site each, against the comment at
  `beacon.c:158-161`.

### What is proved

For every finite set of servers, all constants that satisfy the assumptions
of the modules, any number of rounds, faults and restarts and any delay:

* `UbikServersProofs`: `QuorumsMeet`, two quorums share a voter, by counting.
* `UbikPromisesProofs`: promises to one host at a time and quorums of them leave
  room for one holder (`PromisesExclude`).
* `UbikElectionProofs`: `TypeCorrect`; `ElectionInvariant`, and from it
  `VotesStayApart`, `MandatesBacked`, `NeverTwoSyncSites`;
  and `ElectionImplementsPromises`; for `UbikElectionTimely`, `TimelyTypeCorrect`,
  `NeverTwoSitesCutOff` and `CutOffImplementsPromises`: a server that loses contact never
  leaves two sync sites, and promises stay those of `UbikPromises`.

`OneSyncSite` is far from inductive. The invariant that is, `ElectionInv`, says
how a mandate goes back to votes: a handler's clock reading lies between the
start of the round and now and, once it passed the comparison, tells how far the
two clocks are apart (`HandlersTimely`); what a voter remembers accounts for all
the votes it gave, also after it forgot them, up to the `ResetDelay` that a reset may have
put its clock reading back (`VotesRemembered`), so votes for
different hosts are more than `BIGTIME - ResetDelay` apart (`VotesApart`); a yes that a
candidate counts was really given (`AnswersTrue`); so a mandate ends at most
`SMALLTIME` after the votes of a quorum of voters with close clocks
(`LeaseBacked`). Two mandates at one time have a voter in common, who voted for
both hosts within less than that: `SMALLTIME`, `MAXSKEW` and `ResetDelay` fit into
`BIGTIME` by the two assumptions on the times. The theorems that need a
common magic host (`NeverTwoSyncSites`, `ElectionImplementsPromises`,
`NeverTwoSitesCutOff` and `CutOffImplementsPromises`) state it: `MagicAgreed`, or an odd number of servers.

Every step of `UbikElectionTimely` is one of `UbikElection` or leaves its variables
alone (`TimelySteps`), but for `BrokenRpcFails`, the call between servers that lost
contact; that one keeps `ElectionInv` and leaves promises and sync sites alone, whatever
the bound on such servers is.

`SiteElected` is model-checked only: it is a bounded liveness property, and
depends on the schedule of all servers.

### What is left out

The version and the tid that beacons carry (the tid is in sections 5 and 6), what
a voter believes of the sync site (`uvote_CheckSyncSite`, which decides about
reads at other servers and may outlive the mandate), the vote counters kept for debugging, `SUBIKVOTE_Debug` and the
read-only calls, authentication itself, and the choice among several bindings of
one server, of which the repetition of a beacon remains.

## 4. The log of one server

### What is modelled

`UbikLog` is `disk.c`, `phys.c` and the replay in `recovery.c` for one database
file: the log of new values, the buffer cache, commit and abort, crashes and
restart. The variables of the disk come in pairs, what processes read and what a
crash may leave: `disk`/`unsure` (each position and the length separately),
`label`/`labels`, `log`/`logs`. A write adds a possibility, an `fsync` removes
all but the last, and `Crash` picks one of each. The server's lock is held during
a whole commit, so its steps are separate actions only because a crash can come
between them.

| action | code |
|---|---|
| `Read` | `DRead` for a reader, with any choice of the buffers that `newslot` reuses |
| `Begin`, `Write`, `WriteFails`, `Truncate`, `End` | `udisk_begin`, `udisk_write` (with and without a buffer left), `udisk_truncate`, `udisk_end` |
| `AbortLog`, `AbortDiscard` | `udisk_abort`: the abort record, synced; then log and dirty pages discarded |
| `CommitLog`, `CommitSync` | `udisk_LogEnd`: the end record; its `fsync`, which decides |
| `CommitFlush`, `CommitPages`, `CommitTruncs` | `DFlush`, `DSync`, `DoTruncs` |
| `CommitLabel`, `CommitLabelSync`, `CommitDiscard` | `uphys_setlabel`, its `fsync`, the truncation of the log, which nobody syncs |
| `CommitFails` | `udisk_LogEnd` fails (only in `IOErrorSpec`) |
| `Crash` | process or machine stops, at any moment, also during recovery |
| `StartReplay`, `ReplayRecords`, `ReplayLabel`, `ReplaySync`, `ReplayClear` | `ReplayLog` |
| `InitializeDB` | `InitializeDB`: a file without a label gets version 1 |

The log is kept as what its replay amounts to (`touched` positions and their last
data, the cut and the length, the mark of its end), not as a list of records:
`ReplayLog` applies records in order, and nothing else looks at them. Records
after an end or abort are never read, so they change nothing. The database file
keeps the difference between pages and bytes: `PageSize` positions are one page,
`uphys_read` does not read a page that is short, and `ReplayLog` writes exactly
the bytes that were logged.

`UbikDatabase` is the abstract specification: a set `outcomes` of databases that
a crash might leave; it has one element, or two while a commit is undecided, the
old database and the new one with the next version. `UbikLog` implements it with
`Outcomes`, what `urecovery_Initialize` would make of each thing that the disk
may contain at this moment.

### What is checked

| run | instance | properties |
|---|---|---|
| `MCLogCrash` | 2 pages of one position | `LogInv`, `ServedIsDurable`, `CommitDurable`, `ImplementsDatabase` |
| `MCLogPartialPage` | 1 page of two positions | violates `BytesKept` |
| `MCLogEndFails` | as `MCLogCrash`, the end record may fail | violates `EndLeavesNothing` |

All have two values, a single buffer, at most two commits of a new database
(`MaxVersion = 3`) and as many aborts, crashes and restarts as one likes. With
one buffer and two pages, `newslot` has to reuse a clean buffer and fails on a
dirty one. Two positions are the fewest of which one can be written and the other
be lost. Two commits are needed for a stale log to come back after a later
one was started. `ShortLog` cuts a transaction off when more than five different
logs might survive: overwriting, extending and truncating fit in it, in any order.
`CHECK_DEADLOCK` stays on: the server can always go on, if only by a crash.

`ServedIsDurable` says that between transactions readers see what a crash would
leave, so that no page of an aborted or finished transaction lives in memory
only. `CommitDurable` is "THERE IS NO GOING BACK" at the `fsync` of the end
record: whatever a crash then leaves of the pages, the length and the label, the
replay makes the goal of the transaction of it. `goal` is a history variable, the
file that the calls of the transaction ask for.

No liveness is claimed: a commit or a replay is a sequence of steps without
waiting, and a server that crashes forever never finishes one.

### Findings

* `MCLogPartialPage` (code): after a replay the file may end within a page, as
  `ReplayLog` writes exactly the bytes of the log, whereas a commit writes whole
  pages. `uphys_read` reports such a page as end of file, `udisk_write` then starts it
  from zeroes (`DNew`), and the next commit overwrites what was committed.
* `MCLogEndFails` (code): `udisk_commit` sets `TRDONE` before `udisk_LogEnd`. When
  that fails, `udisk_end` thinks the transaction is over and does not abort it:
  the dirty buffers stay, for readers to see and for the next transaction to flush.
A third one needs no run of its own, since any restart test on a little-endian host shows
it: opcodes are written with `htonl` (`disk.c:210`) and compared as read
(`recovery.c:217`), so that no log is ever replayed there, although part of a synced commit
may already be in the file. The constant `NetworkOrder` is the byte order of the host; with
`NetworkOrder = FALSE` in `MCLogCrash.cfg` TLC finds `CommitDurable` violated.

### What is proved

`UbikLogProofs` proves, for files, caches and sets of values of any size and any
history, `LogInvariant`, `LogServesDurable`, `LogCommitDurable` and
`LogImplementsDatabase`. They have two hypotheses, which are the first finding
above and the byte order: `PageSize = 1`, which stands for callers that write whole
pages, and `NetworkOrder`. Without the first the next transaction may overwrite
committed data, without the second a crash may undo half of a commit.

The invariant `LogInv` is about all that a crash can leave. `Pins(l, img)` says
that replaying `l` makes `img` of any file that may survive: what the log does not
touch is certain, what it touches it sets. `Stale(l)` says that a log changes
nothing, being without an end or replayed before; this is what saves the
truncation of the log that is never synced. While a transaction is open its log
pins the goal, and the buffers and the cut would make the same of the file
(`BuffersMakeGoal`): the first is the path through a crash, the second the path
without one, and they agree. From the `fsync` of the end record to the end of
the commit the log is the only one that may survive and pins the goal, whatever
is flushed meanwhile, until the file is the goal, synced (`SettledInv`) and
labelled. `OutcomesInv` of the proof module turns this into the value of
`Outcomes` in each phase; `LogServesDurable` and `LogCommitDurable` are cases
of it, and in the refinement each action keeps `Outcomes`, except `CommitLog`,
which is `Offer`, and `CommitSync` and `Crash`, which are `Decide`.

### What is assumed and left out

* A crash leaves a shorter part of the log, never one with a hole in it: the log
  has no checksum. A record that is cut reads as the end of the log.
* When only the process dies, the system writes out what it had before the server
  starts again; a process that dies with writes pending is not in the model.
* Readers and the writer are kept apart by database locks (`lock.c`), so a reader
  never reads a page with uncommitted data.
* Nobody calls `ubik_Truncate`. The model includes truncation, but not a write
  that leaves a gap behind it (`CallerTouches`): `udisk_write` then extends the
  truncation over the gap, where old data stays.
* Files received from other servers, which are one step in `UbikReplica`, and
  `udisk_Invalidate`; several transactions at a time and their counters, which are
  in `UbikLock`. There is only one database file (`uphys_getnfiles`).
* The intermediate values of a position that a replay writes several times, and
  the read cache's hash chains and its order of reuse (any clean buffer may go).

## 5. The replicas

### What is modelled

`UbikReplica` is the database on several servers: `urecovery_Interact` of every
server, the write transactions of the sync site, and the `SUBIKDISK_*` handlers
of the others. It stands on the two parts before it, by their abstract
specifications: of the election remains that at most one server holds the
mandate (`UbikPromises`), of a local commit that it is one step
(`UbikDatabase`). A database is the set of the writes in it, which is enough to
see that one is missing, is there although it was aborted, or was mixed in.

| action | code |
|---|---|
| `Elect`, `Beacon` | a quorum of voters, each comparing the tid of the beacon with its own transaction (`urecovery_CheckTid`) |
| `Lapse`, `Restart` | the mandate ends (`ubeacon_AmSyncSite` resets `urecovery_state`); the process starts again with the label on the disk |
| `Wake`, `Check` | a pass of `urecovery_Interact` begins with what is left to do; the version check of every minute |
| `Find`, `FindEnd` | `UBIKDISK_GetVersion` to each server in turn; is the best database of a quorum here? |
| `FetchStart`, `FetchEnd`, `Label` | `UBIKDISK_GetFile` from the best server; the new epoch |
| `SendStart`, `Send`, `SendEnd` | `UBIKDISK_SendFile` to each server that has another version |
| `Begin`, `Update`, `UpdateEnd`, `UndoEnd` | `ubik_BeginTrans`, `ubik_Flush` with its `BulkUpdate` calls and what it does without a quorum |
| `EndTrans`, `LocalCommit`, `CommitEnd`, `ReleaseEnd` | `ubik_EndTrans`: remote commits and the local one in any order, the versions that follow, release of the locks, the result |
| `AbortTrans`, `AbortEnd` | `ubik_AbortTrans` |
| `Contact` | one call of `AsyncContactQuorum`: lost, executed without an answer, or executed and answered, in any order with the others |

What a call does at its server is an operator of its own (`BulkUpdate`, `Commit`,
`ReleaseLocks`, `Abort`). `acked` and `aborted` are history variables.

`UbikStore` is the abstract specification: a set of databases that may survive,
to which a commit adds one and of which failures and successes remove some, and
a client is told of success only when every one of them has its transaction.
(`Offer` may remove others in the step that adds one: with one server, or with two
of which one has the greater weight, the first write of a commit already decides.)
`UbikReplica!ImplementsStore` maps the servers to it: a database may survive when
some quorum would elect a server and that server then finds it as the best.
`Outcomes` computes this from the labels on the disks.

### What is checked

| run | instance | properties |
|---|---|---|
| `MCReplica` | 3 servers, 2 mandates, transactions of one update; three things happen, transactions or faults, and at most two faults | `ReplicaTypeOK`, `CommittedSurvives`, `SameVersionSameData`, `AbortedNowhere`, `CurrentIsCurrent`, `ImplementsStore` |
| `MCReplicaSecondTerm` | 3 servers, 3 mandates, one fault | violates `CommittedSurvives` |

Three servers are the fewest of which one may be lost, and the fewest where the
majority of one mandate and that of the next share a server without being equal.
Two mandates are what the properties compare: one that commits and one that must
find it. A fault is a call that is lost, before or after its execution, or a
restart. Two of them make a server miss a commit and be asked afterwards, or let
the answer get lost of the commit that decides. `MaxEpoch` counts the version of
the empty database too. A transaction of several updates is `Updates = 2`, which
the runs leave out for their size; `BulkUpdate` has both cases, and the properties
depend only on the first.

### Findings

* `MCReplicaSecondTerm` (code): `ts->currentDB` is cleared by a failed call or a
  failed comparison, never when the mandate ends. A server that is elected again
  relabels its database, which ends its own transaction, but its `ubik_EndTrans` still
  commits at the servers of the first term; the answers are a quorum, the client
  is told of success, and the relabelled database, which has a higher version,
  overwrites theirs.

### What is assumed and left out

* One mandate at a time, each with an epoch above the ones before. `Label` takes
  the time of the server's clock; equal or inverted epochs need clocks that differ
  by more than a mandate lasts.
* A pass of recovery and the calls of a commit are over when another server is elected
  (`Settled`). A call has a timeout, and the promises of a quorum last `BIGTIME`;
  the code does not compare the two.
* `Elect` keeps out the finding: a server that has served starts again before its next
  election. In `MCReplicaSecondTerm` it need not.
* A database is received in one step, or not at all. In the code a transfer that breaks
  off leaves a mixed file with the label 0.0 on the disk (`remote.c:984`), but
  `ubik_dbase->version` stays what it was, and the recovery of that server compares the
  latter (`recovery.c:786`): it can take its mixed file for the best database, give it a
  new label and distribute it.
* A server does not restart between `FetchStart` and `FetchEnd`. If it does, its file
  is mixed and has the label 0.0, which nobody prefers; but the copy it had before is
  gone, and that copy may have been one of the quorum that acknowledged a transaction.
  Until it has fetched a database again, fewer servers have that transaction than the
  theorems say.
* A server has no read transactions here, so `ubik_dbase->writeTidCounter` is its
  `tidCounter`. `ts->up` has no variable: a call to a server that is down is a lost
  call. `GetVersion` calls that fail in a row are one fault.
* A call that its caller gave up is executed before the caller goes on, or never
  (`Contact`). In the code its handler may still wait for the lock; a `SUBIKDISK_Commit`
  that is executed late, when a newer transaction of the same epoch is current, passes
  `urecovery_CheckTid`, which ends only transactions with smaller counters
  (`recovery.c:150`), and commits the newer one. `UbikLock` has late handlers of
  `SUBIKDISK_BulkUpdate`, but no data of several servers.
* The calls of older servers (`SUBIKDISK_Begin`, `Lock`, `Write`, `Truncate`),
  reads at other servers with the wait of `ubik_EndTrans` for them, the caches of
  callers, and bindings.

### What is proved

For every finite set of servers, any number of updates in a transaction and of
mandates, and any loss of calls and restarts, from `ServerAssumption` and
`ReplicaAssumption` alone: `TypesHold`, `VersionTells`, `GivenUpIsGone`,
`CurrentTellsTruth` and `CommitsSurvive`, in `UbikReplicaSafety`. They state the five
invariants of `MCReplica` for `Spec`; `SecondTermSpec`, in which they do not hold,
differs by one conjunct of `Elect`.

None of the five is inductive. `ReplicaInv` is, in eight parts, each of which needs
the ones before it:

| part | what it says, and why it is needed |
|---|---|
| `Types` | the variables are functions of the right records |
| `Control` | one server at most acts for the mandate that was given last: it holds it, or is still in the pass of recovery that began with it, or has labelled its database for it (`Leader`). All else compares a database with that of this server |
| `Transactions` | transactions of earlier mandates are over (`done`) or can reach no server, and a commit is that of the leader; which of its servers were called |
| `Tids`, `Labels` | no tid and no label is ahead of the mandates, and those of the last mandate come from its leader. Without this a new tid or label could be one that is already on some disk |
| `Calls` | a remote transaction with the tid of the leader's has exactly the updates that were sent to it. This is what makes the copies that a commit writes equal, although each server computes its own |
| `Copies` | equal versions have equal data; the leader's copy is the newest of its epoch, or one commit behind; nothing of a transaction is anywhere before its commit begins. During a commit a copy may be ahead of the leader's, and then is the one the leader is about to write |
| `Promises` | a quorum has every promised transaction, and no copy without it is as new as one with it (`Kept`); so a pass of recovery that asked a quorum has found one that has it (`Found`). A transaction counts as promised once `ubik_EndTrans` knows a quorum of successful commits, before the client is told, and a server that is fetching counts as what it fetches |

`UbikReplicaProofs` has the parts up to `Calls`, `UbikReplicaSafety` the other two
and the theorems. Both begin a step with what it *does* (`SendDoes`, `ContactDoes`,
...), said once in terms of single servers, and each part is then shown to be kept by
each action. `Updates` is arbitrary there; the runs have `Updates = 1`.

`ReplicasImplementStore` (`Spec => ImplementsStore`) proves the refinement for the same
constants. A copy is `Electable` when a quorum has nothing newer, and the outcomes are
the data of the electable copies. The argument goes over the writes to a disk:

* A write that makes the copy of one server better makes no other copy electable
  (`OutcomesGrow`), and when it copies what another server has it adds nothing
  (`OutcomesCopied`). Fetching, sending, and the second and later writes of a commit are
  of this kind: `Decide`.
* The first write of a commit, at whatever server, adds the leader's next database. The
  leader's copy is the newest then (`LeaderNewest`, from `Copies`), hence electable, and
  the new one after it: `Offer`.
* A new label makes its copy the best of all. That it was an outcome already is what
  `Chosen` adds to `ReplicaInv`: from the end of the search to the label, the database
  that a pass has found is electable, as it was the best of the quorum that answered.
* At the end of a transaction a quorum has it, which meets the quorum of every electable
  copy, and by `Kept` no copy without it is as new as one with it: `Acknowledge`.
* Any other step leaves the copies alone. `OutcomesExist` says that some copy is
  electable always, as `Decide` demands: among finitely many versions one is newest.

## 6. The locks of one server

### What is modelled

`UbikLock` is about the threads of one server: clients that run transactions
(`ubik_BeginTrans`, `ubik_SetLock`, `ubik_EndTrans`, `ubik_AbortTrans`), the
recovery thread that may send the database only while nobody writes, and the
handlers of a remote sync site after the mandate was lost. There are two levels
of locks: `dbase->versionLock` and `ubik_llock`, which threads take for each step,
and the locks that transactions hold (`lock.c`). A step of the model is what a
thread does between taking the former and sleeping, returning or calling another
server. `ulock_SetLock` and `udisk_begin` give both up while they sleep, and
`osi_SleepW` sleeps and releases in one step (`src/file/osi/osi_lock_pthread.c`).

| action | code |
|---|---|
| `Begin`, `BeginAwake` | `ubik_BeginTrans`, and its loop while `DBWRITING` |
| `SetLock` | `ubik_SetLock` and `ulock_SetLock`, before and after the sleep |
| `EndTrans`, `Commit`, `Abort` | the start of the remote commits, which keep `versionLock`; `udisk_commit`, `udisk_end`, `ulock_ReleaseAllLocks` |
| `SendStart`, `SendEnd` | recovery waits for `DBWRITING`, then sends |
| `BulkBegin`, `BulkLock`, `BulkAwake` | `SUBIKDISK_BulkUpdate`: it ends the transaction before it and begins its own; having given up both locks it takes the lock for the transaction that is current *now*, perhaps after a sleep |
| `BulkNull`, `BulkDangling` | the same when there is none, or when it was freed during the sleep: undefined behaviour. The server starts again, or the lock is lost, or it goes to the transaction that has the memory now |
| `RemoteCommit`, `ReleaseLocks`, `SendFile` | the other calls, with `urecovery_CheckTid` and `urecovery_AbortAll` |
| `Beacon` | `SUBIKVOTE_Beacon` ends the transaction, without `versionLock` |
| `Call`, `GiveUp`, `Lapse` | the remote sync site, which may give up a call that is still served |

All clients of Ubik lock one byte, once in each transaction
(`flserver/flprocs.c:188`, `bakserver/procs.c:311`); that is why a client deadlocks
neither with itself nor with another, and the model has one lock.

### What is checked

`MCLock` has two clients, of which one runs two transactions, the recovery thread,
two handlers and two remote transactions: the second client may have waited for
the first and be waited for by its next transaction, and the call of one remote
transaction can still be served when the next arrives. `CHECK_DEADLOCK` is off
because the numbers of transactions, passes and versions are bounded
(`MaxRounds`, `MaxTid`, `MaxVersion`). The properties are the types, `Exclusion`,
`WritersCounted` (the flag and the counter agree with the list of transactions,
whoever ended them), `SleepersAreWoken` (no wakeup is lost), `RepeatableRead`
(nobody changes the database under the lock of a transaction, except that it
aborts it), `HoldersRun` (whoever has the lock waits for nobody), `SomeoneRuns` (while
something is under way, a thread that does not sleep or the remote sync site can go on),
and the liveness property `EveryoneReturns`: every thread ends what it has started.
`HoldersRun` and `SomeoneRuns` are the absence of deadlocks, which TLC's own check for
them cannot see: a client may still begin, or a mandate lapse, while all others sleep
for ever.

The fairness is that of the code's scheduling: threads run, clients end their
transactions (`ubik_EndTrans` or `ubik_AbortTrans` is what every caller does), a
remote sync site whose call has returned goes on, and it sends beacons, which are
what ends a transaction that it forgot. Weak fairness is enough, since no thread
needs a lock that others may take for ever. A remote sync site need not give up a
call. `EveryoneReturns`, `HoldersRun` and `SomeoneRuns` except one case, which `late` records: after a call was
given up while it was served, its handler may take the lock for the transaction of
a newer call, whose handler then waits for a lock of its own transaction, and keeps
waiting until that transaction is ended.

### What is proved

`UbikLockProofs` proves, for any clients, handlers and bounds, `LockTypeCorrect`,
`LocksExclude`, `TransactionsCounted`, `WakeupsNotLost`, `ReadsRepeat`, `NoCircularWait`
and `SomeoneAlwaysRuns`. The invariant
`LockInv` adds two facts to these properties. A client is in its transaction exactly
while the transaction is on `dbase->activeTrans` (`ClientsIn`): handlers and beacons
end only remote transactions, so that `udisk_end` never runs twice for one
transaction and never decrements a counter for nothing. And a call is about a
transaction (`CallsRefer`). In `Counted`, the writer is one element of the list,
which makes the two sides of `udisk_end` (clear `DBWRITING`, or decrement `readers`)
keep both counts whatever transaction ends. For `SleepersAreWoken` the argument is
that whoever wakes removes the transaction, its locks and its `LWANT` in one step, so
who still sleeps sleeps on another transaction (`EndWakes`).

`ReadsRepeat` (`RepeatableRead`) rests on `ReadInv`, which is inductive together with
`LockInv`. Three things change the database. `udisk_commit` runs for a client in
`committing`, which still has its write lock (`ClientsLocked`), so by `Exclusion` nobody
else has one. `SUBIKDISK_SendFile` aborts what is on the list. `SUBIKDISK_Commit` is the
hard one: handlers may have taken the lock for another transaction than their own, or for
one that was freed. `CallsOwn` says that only the handler of the present call begins the
transaction with the present tid, and that it sleeps for the lock of this transaction as
long as this is current; an old handler that begins its own transaction in between makes
`current` differ from `call.tid`, which it then never equals again. Hence a call that has returned and
whose transaction is current has the lock (`CallLocked`), and a commit for any other
transaction is refused.

`NoCircularWait` (`HoldersRun`) and `SomeoneAlwaysRuns` (`SomeoneRuns`) are the part of
`EveryoneReturns` that is about states. While no call was given up that was being served,
one handler at most is busy: the one that the present call waits for, with the tid of that call, and after
`UBULK_BEGIN` the current transaction is its own (`OneCall`). So `UBULK_LOCK` finds the
transaction that it began and never a null or freed one (`NotNullNorDangling`), no beacon
or commit ends that transaction under it, and, since `UBULK_BEGIN` has taken the locks of
the transaction before, it waits for clients only. These are between their lock and their
end (`HoldInv`). For whoever waits until `DBWRITING` is cleared, `Counted` yields the
transaction that writes, and `RemoteInv` says that a remote one is current and that this
server is not the sync site any more. A client in that transaction runs or waits for
somebody who has the lock, and a remote transaction is left to the handler of its call or
to the sync site, whose next call or beacon ends it. That every state outside the three
waits has an action that is enabled is not proved; `EveryoneReturns`, a liveness property,
is model-checked only.

### What is left out

Locks of other byte ranges and other types than read and write, lock upgrades, a
second lock in one transaction, and what a transaction does between its lock and its
end (section 4); the calls of older servers.

## 7. The datagram protocol

### What is modelled

`RpcDg` has one client thread with its calls, numbered 1, 2, ..., and one server that may
restart. Requests and responses are of one packet. Packets stay in `sent`, so that they
can arrive late, repeatedly, in any order, or never. The server is the listener with its
two records, `scte` (the connection table entry of the activity) and `scall` (the call
handle attached to it), and a set `execs` of executors. The listener and the executors
interleave wherever the code unlocks the call handle.

| action | code |
|---|---|
| `CallStart`, `CallEnd`, `CallOver` | `rpc__dg_call_start` with its request; `rpc__dg_call_end`, which sends a quit when there is no answer; `rpc__dg_ccall_timer` |
| `Nocall`, `Timeout` | the request is repeated (`rpc__dg_do_nocall`); the call is given up |
| `ClientReceive` | `rpc__dg_do_response`, `rpc__dg_do_reject` after `rpc__dg_do_common_response` and `chk_sboot` |
| `WhoAreYou` | `conv_who_are_you`: the client's number and boot time check; the answer reaches any executor that waits, or none |
| `ServerReceive` | `rpc__dg_do_request` (`Request`, `Rerun`), pings and quits |
| `WrongBoot` | `rpc__dg_svr_chk_and_set_sboot` rejects a packet for an earlier instance |
| `ScallTimer`, `SctTimer`, `Crash` | acks and timers of the server; the connection is forgotten; the server restarts and forgets everything |
| `Begin`, `Ask`, `WayValidate`, `WayFail`, `Proceed` | `rpc__dg_execute_call` up to the manager, one action per stretch in which the call is locked: filter, the lock of the connection, back from the question, the lock of the call again |
| `Respond` | the manager returns, and the response is sent |

`ran` and `denied` are history variables: the non-idempotent calls that were started, with
the boot time of the instance, and the calls the client saw rejected with a status after which
`rpc__dg_call_did_mgr_execute` says that the manager was not called, with the boot time of
the instance that rejected. `races` is one too: which of the two races of the section
*Findings* have happened. `Race` notes it in the step that does the damage, whatever
follows: `NewCall` gives a call handle to another call while an executor that is not
orphaned still works on it, or `WayValidate` clears `client_needs_sboot` of a later call
than the one that the client has answered for.

`RpcCalls` is what a client thread is promised, without packets, boot times and handles: the
calls it makes, what it was told of the last one (nothing, a result and of which call, an
error), the non-idempotent calls whose managers have started, in this order, and the calls of
which it was told that they were denied. A manager may start long after the caller was told
an error, even when later calls have been made, but never after the manager of a later call,
not twice, and not after a denial; a result of a non-idempotent call is told only when its
manager has started. The server may lose track of its calls (`LoseTrack`), and from then on
promises nothing. `RpcDg` maps to it with `Told`, which reads `failed` and `all` of the call handle, with the
sequence numbers of `ran` and `denied`, and with `lost` once there was a race.

### What is checked

| run | instance | properties |
|---|---|---|
| `MCRpcDg` | 3 calls, the first and the last not idempotent and through fresh handles; one restart, one call given up | `RpcTypeOK`, `AtMostOnceUntilRaced`, `StartsInOrderUntilRaced`, `OwnReplyUntilRaced`, `RejectedNotExecutedUntilRaced`, `UnknownNotRunUntilRaced`, `ImplementsCallsUntilRaced` |
| `MCRpcReuse` | 2 calls, the first not idempotent; no restart | violates `OwnReply` |
| `MCRpcClear` | 2 calls, both not idempotent and through fresh handles; one restart | violates `AtMostOnce` |

The five guarantees are `AtMostOnce`, `StartsInOrder`, `OwnReply`, `RejectedNotExecuted` and
`UnknownNotRun` (`dg.c:1348-1350`: without a boot time "the server CAN'T have executed the
call"). **The code gives none of them unconditionally**: in the instance of `MCRpcDg` without
its constraints TLC finds each of the five violated after one of the two races. What it
does give is what the `...UntilRaced` properties say, that packets lost, late and repeated,
restarts, and calls given up do not break the guarantees as long as neither race has
happened; and that every step is one of `RpcCalls`, in which the server may lose track.

The constraint `Unraced` ends the exploration after a race, and leaves out nothing that the
properties speak of: a race is never undone (`RacesGrow` of `RpcDgProofs`), after it they
are vacuously true, and TLC still checks the state and the step in which it happens.
`RpcTypeOK` is meant for these states only, too. `OneGivenUp` is a bound: two calls given up
make an instance of several million states more. The theorems have no such bound. Two
non-idempotent calls are needed for a late request of one to meet a connection that was
validated for the other, and one of the other kind between them, for a call that need not
ask to overtake; both are fresh, since a call that begins with a boot time the client
already has cannot be asked about as if it were the first. One restart is enough for two
instances to get the same request. The
mutants show that a missing boot time check, a connection that forgets, a client that does
not compare numbers, a call that does not wait for the who-are-you, and a rejected call that
is backed out are found. `CHECK_DEADLOCK` is
off, because calls and restarts are bounded (`MaxCalls`, `MaxBoots`). No fairness is assumed and no
liveness claimed: the network may lose everything and the client then gives up.

### What is proved

`RpcDgProofs` proves the six invariants of `MCRpcDg` and the refinement for any number of
calls, given up or not, any number of restarts, any
set of non-idempotent calls and any fresh binding handles: `RpcTypes`, `CallsOnce`,
`CallsInOrder`, `RepliesOwn`, `RejectedNever`, `UnknownNever`, `DatagramImplementsCalls`.
They have no hypothesis about the behaviour: each is `Spec => []P`, where `P` is one of the
`...UntilRaced` properties (or `Unraced => RpcTypeOK`), or `Spec => ImplementsCallsUntilRaced`.

What is inductive is `UnracedInv`: as long as there was no race, `RpcInv` holds, and every
executor works on the call it was started for (`OwnCall`). A step without a race keeps
both (`NextInv`), and a race is not undone (`RacesGrow`).
`RpcInv` adds to the properties, from the network to the server:

* each packet is of a call the client came to and of an instance there was
  (`PacketTypes`), and requests of one call name one boot time (`RequestsAgree`);
* one executor at most may still run its call, and the connection remembers that call
  (`ServerInv`, `ExecOK`);
* a call that was started or rejected is `Closed` for the instance that did it: either the
  connection remembers it (`high` is not below), or the connection was forgotten, the client is
  past the call, and no answer that is under way would admit it. For the other instances it is
  `BoundTo` the first one: every request of it, and the client, name that boot time or none, so
  that a later instance rejects it or has to ask (`FinishedInv`);
* a call that an executor may run without asking (any more) is `Runnable`: overtaken, or
  `Known` to be of this instance, by the answer of the client or by a request that names the
  instance (`ExecInv`).

A call that is run is `Known`, while one that ran before is `Closed` or bound to another
instance, so it is not the same call; that is `AtMostOnce`. `StartsInOrder` needs the third
part of `Known`: what was started of later calls, the connection remembers. The proof has a
lemma for each action and part of the invariant that the action can disturb.

`DatagramImplementsCalls` sorts the steps by what they do to the caller (`ToldStep`): a call
starts, what was told stays, the call is answered, or it fails. Each is an action of
`RpcCalls` or a stutter, by facts of `RpcInv`: `Return` is told of the caller's own call
because `OwnReply` holds after the step; `Start` appends a number above all that were started
and not among the denied (`RunFacts`), and is one of the client's calls, perhaps not the last;
`Deny` is of a call that no instance has started (`DenialFacts`). `Make` needs one invariant
more, `Ended`: a call handle that has left the state `recv` was answered or has failed, so the
caller was told something before it makes the next call. A step with a race is `LoseTrack`, and
whatever comes after it is allowed. Nothing of the run's properties is
left to TLC alone; no liveness is claimed.

### Findings

* `MCRpcReuse` (code): *the handle is reused under an executor* (`dgexec.c:850`). The request
  of call 1 is late; the client has given it up and is in call 2. The server asks, is told 2,
  and `way_validate` raises `high_seq` to 2. It then gives up the lock of the connection and
  takes the lock of the call. In between the listener handles the request of call 2: since
  `call_seq` is 1 and `high_seq` 2, `rpc__dg_sct_inq_scall` takes the handle for one that was
  backed out (`dgsct.c:253`), and `rpc__dg_scall_reinit` makes it that of call 2. The executor
  of call 1 finds the state `recv` and the two numbers equal, goes on, calls the manager for
  call 1, although the client has been told that it failed, and sends the result as that of
  call 2. The comment at `dgexec.c:757-762` says that the number "must match this RPC's seq".
  The trace has 15 states.
* `MCRpcClear` (code): *the boot time of another binding* (`dgsct.c:968`). The client answers
  the question about call 1, which it then gives up, and makes call 2 through a fresh handle;
  the request of call 2 orphans call 1 at the server. Back from the question,
  `rpc__dg_sct_way_validate` clears `client_needs_sboot` in the handle that the connection has
  by now, which is that of call 2. So call 2 runs without a question, and the client still has
  no boot time for it. The server restarts; the new instance gets a repeated request of call 2,
  asks, and the client, which knows of no other instance (`conv.c:183`), answers: call 2 is executed
  again. `dgsct.c:806-808` says what the question is for, `dgsct.h:90-101` and `dg.h:1388-1408`
  describe the need of the flag. The trace has 21 states; call 2 is executed in its 14th while
  the client has no boot time for it, against `UnknownNotRun`.

A remark about a comment: `rpc__dg_call_did_mgr_execute` lists
`nca_s_wrong_boot_time` among the statuses for which "we KNOW we didn't execute the manager"
(`dg.c:1374-1382`). The instance that rejects did not; the one before may have. `denied`
therefore follows only the status of a failed who-are-you. Nor does the other reason of the
function to say no, an unknown boot time (`UnknownNotRun`), say anything about later: the
client still answers a who-are-you about a call that has timed out (`conv.c:147-193` asks only
for the handle and the boot time), and the manager may then start, which `Start` of `RpcCalls`
allows for any call that was not denied.

### What is left out

Callbacks of managers with their proxy numbers, maybe and broadcast calls, cancels,
authentication, fragments with their windows, reservations and queues, several activities, and
clients with `rpc_c_binding_infinite_timeout`. A ping is asked and answered in one step or is
lost: a late copy of the answer says nothing the client could not have heard before. The
connection is forgotten (`SctTimer`) only when the client is no longer in a call the server
knows, as the timers are ten minutes against at most a few.
