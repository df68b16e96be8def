---------------------------- MODULE UbikElection ----------------------------
(***************************************************************************)
(* Election of the sync site of a Ubik database: the vote module (vote.c), *)
(* which answers beacons, and the beacon module (beacon.c), which sends    *)
(* them and counts the answers.  The two "work intimately together", so    *)
(* they share one module.  Per server there are three kinds of thread:     *)
(*                                                                         *)
(*   - the beacon thread, ubeacon_Interact, at most one round at a time:   *)
(*     StartRound, StartLocal, then FinishRound once every answer is in;   *)
(*   - a thread for every beacon being answered, SUBIKVOTE_Beacon, which   *)
(*     reads the clock (ReadClock), compares clocks without the lock, then *)
(*     votes under the lock (VoteYes, VoteNo) or resets the election state *)
(*     without it (BeginReset, StoreYesTime, EndReset);                    *)
(*   - the recovery thread's probes, and anyone who asks                   *)
(*     ubeacon_AmSyncSite.                                                 *)
(*                                                                         *)
(* Beacons are lost, delayed, repeated and answered after the caller gave  *)
(* up; servers restart and lose all this state.  Time is one counter, and  *)
(* every server's time(0) runs at its own fixed distance from it, however  *)
(* large: what keeps the clocks of voter and candidate close enough is the *)
(* code's own comparison, not an assumption.                               *)
(*                                                                         *)
(* The database version and the tid that a beacon carries belong to the    *)
(* recovery and transaction modules and are left out here, as are          *)
(* urecovery_state and the vote counters kept for debugging.               *)
(***************************************************************************)
EXTENDS UbikServers

CONSTANTS
    SMALLTIME,  \* how long a sync site may act on a vote
    BIGTIME,    \* how long a voter keeps its promise
    MAXSKEW,    \* largest clock difference a voter accepts
    POLLTIME,   \* least time between the starts of two rounds of one server
    badhost,    \* badhost[s]: the servers whose bindings s could not authenticate
    Offsets,    \* the ways in which the clocks may differ
    QuietUntil, \* bound: first instant at which a beacon round starts
    MaxNow,     \* bound: last instant of a behaviour
    MaxDelay,   \* bound: how long a beacon is under way, its handling included
    ResetDelay, \* bound: from the time(0) of a reset to the end of its stores
    MaxRounds,  \* bound: beacon rounds started, over all servers
    MaxFaults,  \* bound: beacon RPCs that fail or are repeated
    MaxRestarts \* bound: servers restarted

\* ubik.p.h: "BIGTIME-SMALLTIME > MAXSKEW".
ASSUME TimeAssumption ==
    /\ SMALLTIME \in Nat \ {0} /\ BIGTIME \in Nat /\ MAXSKEW \in Nat /\ POLLTIME \in Nat
    /\ BIGTIME - SMALLTIME > MAXSKEW

\* How long a thread may be held up between reading the clock for a reset and
\* storing it.  The headers' times allow for 6 seconds, or 11 when debugging.
ASSUME ResetAssumption ==
    /\ ResetDelay \in Nat
    /\ BIGTIME - SMALLTIME + 2 > MAXSKEW + ResetDelay

ASSUME badhostAssumption ==
    /\ badhost \in [Server -> SUBSET Server]
    /\ \A s \in Server : s \notin badhost[s]

ASSUME BoundAssumption ==
    /\ Offsets \subseteq [Server -> Nat]
    /\ QuietUntil \in Nat /\ MaxNow \in Nat /\ MaxDelay \in Nat /\ MaxRounds \in Nat /\ MaxFaults \in Nat /\ MaxRestarts \in Nat

VARIABLES
    now,            \* time
    offset,         \* how far each server's clock is ahead of now
    \* vote.c
    lastYesTime,    \* when the server last voted yes, or last (re)started
    lastYesHost,    \* for whom
    lastYesClaim,   \* astart of that beacon
    lastYesState,   \* did that host claim to be sync site
    lowest,         \* [host, time]: lowestHost, lowestTime
    sync,           \* [host, time]: syncHost, syncTime; host 0 is none
    \* beacon.c
    amSyncSite,     \* ubik_amSyncSite
    syncSiteUntil,  \* valid only if amSyncSite
    up,             \* the other servers whose ts->up is set
    round,          \* [phase, astart]: what the beacon thread does, lastWakeupTime
    answer,         \* answer[s][t]: beacon_args of s for t, [code, voteTime]
    \* the RPC runtime
    beacons,        \* SUBIKVOTE_Beacon calls not yet finished
    \* history and bounds
    yesTime,        \* yesTime[v][c]: when v last voted yes for c, 0 if never
    rounds, faults, restarts

voteVars   == <<lastYesTime, lastYesHost, lastYesClaim, lastYesState, lowest, sync, yesTime>>
beaconVars == <<amSyncSite, syncSiteUntil, up, round, answer>>
vars == <<now, offset, voteVars, beaconVars, beacons, rounds, faults, restarts>>

\* ubik_servers at s, without s itself: a bad host is taken off the list, but
\* still counts in ubik_nServers.
ubik_servers(s) == Server \ ({s} \cup badhost[s])

MagicOf(s) == MagicHost(s, badhost[s])

\* time(0) at server s.  Real clocks count from 1970, so that a time of 0 is
\* always longer than BIGTIME ago; Init starts late enough for that to hold.
time(s) == now + offset[s]

-----------------------------------------------------------------------------
(* Types                                                                   *)

Host == Server \cup {NoHost}

\* One call of SUBIKVOTE_Beacon: its arguments, how far it has come, the time
\* it read last, and whether the caller still waits for it.
Beacon == [src : Server, dst : Server, astate : BOOLEAN, astart : Nat,
           stage : {"sent", "read", "checked", "reset", "stored"}, time : Nat, live : BOOLEAN]

Answer == [code : {"none", "wait", "ok", "USKEWED", "failed"}, voteTime : Nat]

NoRound  == [phase |-> "asleep", astart |-> 0]
NoAnswer == [code |-> "none", voteTime |-> 0]
Waiting  == [code |-> "wait", voteTime |-> 0]

TypeOK ==
    /\ now \in Nat
    /\ offset \in [Server -> Nat]
    /\ lastYesTime \in [Server -> Nat]
    /\ lastYesHost \in [Server -> Host]
    /\ lastYesClaim \in [Server -> Nat]
    /\ lastYesState \in [Server -> BOOLEAN]
    /\ lowest \in [Server -> [host : Host, time : Nat]]
    /\ sync \in [Server -> [host : Server \cup {0}, time : Nat]]
    /\ amSyncSite \in [Server -> BOOLEAN]
    /\ syncSiteUntil \in [Server -> Nat]
    /\ up \in [Server -> SUBSET Server]
    /\ round \in [Server -> [phase : {"asleep", "sending", "waiting"}, astart : Nat]]
    /\ answer \in [Server -> [Server -> Answer]]
    /\ beacons \subseteq Beacon
    /\ yesTime \in [Server -> [Server -> Nat]]
    /\ rounds \in Nat /\ faults \in Nat /\ restarts \in Nat

-----------------------------------------------------------------------------
(* Startup of all servers: uvote_Init and the statics of both files.       *)

Init ==
    /\ now = BIGTIME + 1
    /\ offset \in Offsets
    /\ lastYesTime = [s \in Server |-> time(s)]
    /\ lastYesHost = [s \in Server |-> NoHost]
    /\ lastYesClaim = [s \in Server |-> 0]
    /\ lastYesState = [s \in Server |-> FALSE]
    /\ lowest = [s \in Server |-> [host |-> NoHost, time |-> 0]]
    /\ sync = [s \in Server |-> [host |-> 0, time |-> 0]]
    /\ amSyncSite = [s \in Server |-> FALSE]
    /\ syncSiteUntil = [s \in Server |-> 0]
    /\ up = [s \in Server |-> ubik_servers(s)]
    /\ round = [s \in Server |-> NoRound]
    /\ answer = [s \in Server |-> [t \in Server |-> NoAnswer]]
    /\ beacons = {}
    /\ yesTime = [s \in Server |-> [t \in Server |-> 0]]
    /\ rounds = 0 /\ faults = 0 /\ restarts = 0

-----------------------------------------------------------------------------
(* ubik_ResetState() at the server s that calls it: the vote module starts *)
(* again as if restarted, and the beacon module forgets who is up.  The    *)
(* beacon thread wakes if it sleeps, unless it made the call.              *)

\* Mutant: lastYesHost is cleared to 0, the best host there is.
ForgetVotesBest(s) ==
    /\ lastYesHost' = [lastYesHost EXCEPT ![s] = 0]
    /\ lastYesClaim' = [lastYesClaim EXCEPT ![s] = 0]
    /\ lastYesState' = [lastYesState EXCEPT ![s] = FALSE]
    /\ lowest' = [lowest EXCEPT ![s] = [host |-> NoHost, time |-> 0]]
    /\ sync' = [sync EXCEPT ![s] = [host |-> 0, time |-> 0]]
    /\ UNCHANGED yesTime

\* What the reset stores after lastYesTime.
ForgetVotes(s) ==
    /\ lastYesHost' = [lastYesHost EXCEPT ![s] = NoHost]
    /\ lastYesClaim' = [lastYesClaim EXCEPT ![s] = 0]
    /\ lastYesState' = [lastYesState EXCEPT ![s] = FALSE]
    /\ lowest' = [lowest EXCEPT ![s] = [host |-> NoHost, time |-> 0]]
    /\ sync' = [sync EXCEPT ![s] = [host |-> 0, time |-> 0]]
    /\ UNCHANGED yesTime

\* Mutant: a server that starts is free to vote at once.
uvote_InitFree(s) ==
    /\ lastYesTime' = [lastYesTime EXCEPT ![s] = 0]
    /\ ForgetVotes(s)

\* The statics of vote.c as they are after startup.  A server that (re)starts
\* has forgotten whom it promised its vote, so it pretends it just voted for
\* someone else.
uvote_Init(s) ==
    /\ lastYesTime' = [lastYesTime EXCEPT ![s] = time(s)]
    /\ ForgetVotes(s)

\* "as if we were restarted"; where nobody can vote in the middle of it.
uvote_ResetState(s) == uvote_Init(s)

ubeacon_ResetState(s) ==
    /\ amSyncSite' = [amSyncSite EXCEPT ![s] = FALSE]
    /\ up' = [up EXCEPT ![s] = {}]
    /\ UNCHANGED syncSiteUntil

\* osi_Wakeup(&beacon_ResetState): a sleeping beacon thread runs at once.
WakeThread(s) == round' = [round EXCEPT ![s] = IF @.phase = "asleep" THEN NoRound ELSE @]

ubik_ResetState(s) == uvote_ResetState(s) /\ ubeacon_ResetState(s)

-----------------------------------------------------------------------------
(* The beacon thread                                                       *)

\* ubeacon_AmSyncSite() at s.  A call that finds the votes expired also clears
\* amSyncSite: callers that keep the result use AmSyncSiteCall as well.
ubeacon_AmSyncSite(s) ==
    \/ ubik_nServers = 1
    \/ amSyncSite[s] /\ syncSiteUntil[s] > time(s)

AmSyncSiteCall(s) == amSyncSite' = [amSyncSite EXCEPT ![s] = ubeacon_AmSyncSite(s)]

uvote_ShouldIRun(s) ==
    \/ lastYesTime[s] + BIGTIME < time(s)
    \/ /\ ~(lastYesState[s] /\ lastYesHost[s] # s)
       /\ ~(lastYesHost[s] < s)

NewBeacon(s, t, astate, astart) ==
    [src |-> s, dst |-> t, astate |-> astate, astart |-> astart,
     stage |-> "sent", time |-> 0, live |-> TRUE]

\* The thread sleeps until POLLTIME after it last woke.
Awake(s) ==
    /\ round[s].phase = "asleep"
    /\ ubik_nServers # 1
    /\ round[s].astart + POLLTIME <= time(s)
    /\ now >= QuietUntil

Doze(s) ==
    /\ rounds < MaxRounds
    /\ Awake(s)
    /\ ~uvote_ShouldIRun(s)
    /\ round' = [round EXCEPT ![s].astart = time(s)]
    /\ UNCHANGED <<now, offset, voteVars, amSyncSite, syncSiteUntil, up, answer,
                   beacons, rounds, faults, restarts>>

\* Send a beacon to every server that is up.  The lock is released while the
\* RPC threads are started.
StartRound(s) ==
    /\ rounds < MaxRounds
    /\ Awake(s)
    /\ uvote_ShouldIRun(s)
    /\ AmSyncSiteCall(s)
    /\ beacons' = beacons \cup {NewBeacon(s, t, ubeacon_AmSyncSite(s), time(s)) : t \in up[s]}
    /\ answer' = [answer EXCEPT ![s] = [t \in Server |-> IF t \in up[s] THEN Waiting ELSE NoAnswer]]
    /\ round' = [round EXCEPT ![s] = [phase |-> "sending", astart |-> time(s)]]
    /\ rounds' = rounds + 1
    /\ UNCHANGED <<now, offset, voteVars, syncSiteUntil, up, faults, restarts>>

\* The beacon to the server itself goes last, and asks again whether s is sync
\* site: the answer may have changed since the others were sent.
StartLocal(s) ==
    /\ round[s].phase = "sending"
    /\ AmSyncSiteCall(s)
    /\ beacons' = beacons \cup {NewBeacon(s, s, ubeacon_AmSyncSite(s), round[s].astart)}
    /\ answer' = [answer EXCEPT ![s][s] = Waiting]
    /\ round' = [round EXCEPT ![s].phase = "waiting"]
    /\ UNCHANGED <<now, offset, voteVars, syncSiteUntil, up, rounds, faults, restarts>>

\* ubeacon_wait_for_votes, then the decision at the end of the loop.
Yes(s) == {t \in Server : answer[s][t].code = "ok" /\ answer[s][t].voteTime > 0}

Skewed(s) == \E t \in Server \ {s} : answer[s][t].code = "USKEWED"

Failed(s) == {t \in Server \ {s} : answer[s][t].code \in {"failed", "USKEWED"}}

Answered(s) == {t \in Server \ {s} : answer[s][t].code = "ok"}

\* Mutant: syncSiteUntil is counted from the newest vote.
newestYesVote(s) ==
    CHOOSE m \in {answer[s][t].voteTime : t \in Yes(s)} :
        \A t \in Yes(s) : m >= answer[s][t].voteTime

oldestYesVote(s) ==
    CHOOSE m \in {answer[s][t].voteTime : t \in Yes(s)} :
        \A t \in Yes(s) : m <= answer[s][t].voteTime

Elected(s) == ~Skewed(s) /\ IsQuorum(Yes(s), MagicOf(s))

RoundOver(s) ==
    /\ round[s].phase = "waiting"
    /\ \A t \in Server : answer[s][t].code # "wait"

EndOfRound(s) ==
    /\ answer' = [answer EXCEPT ![s] = [t \in Server |-> NoAnswer]]
    /\ UNCHANGED <<now, offset, beacons, rounds, faults, restarts>>

BackToSleep(s) == round' = [round EXCEPT ![s].phase = "asleep"]

\* Enough votes: s is sync site until SMALLTIME after the oldest of them.
BecomeSyncSite(s) ==
    /\ RoundOver(s)
    /\ Elected(s)
    /\ amSyncSite' = [amSyncSite EXCEPT ![s] = TRUE]
    /\ syncSiteUntil' = [syncSiteUntil EXCEPT
           ![s] = IF @ < oldestYesVote(s) + SMALLTIME THEN oldestYesVote(s) + SMALLTIME ELSE @]
    /\ up' = [up EXCEPT ![s] = (@ \ Failed(s)) \cup Answered(s)]
    /\ EndOfRound(s)
    /\ BackToSleep(s)
    /\ UNCHANGED voteVars

LoseElection(s) ==
    /\ RoundOver(s)
    /\ ~Skewed(s) /\ ~Elected(s)
    /\ amSyncSite' = [amSyncSite EXCEPT ![s] = FALSE]
    /\ up' = [up EXCEPT ![s] = (@ \ Failed(s)) \cup Answered(s)]
    /\ EndOfRound(s)
    /\ BackToSleep(s)
    /\ UNCHANGED <<voteVars, syncSiteUntil>>

\* A voter complained about the clocks: the candidate starts all over.
SkewedRound(s) ==
    /\ RoundOver(s)
    /\ Skewed(s)
    /\ ubik_ResetState(s)
    /\ EndOfRound(s)
    /\ BackToSleep(s)

-----------------------------------------------------------------------------
(* SUBIKVOTE_Beacon(astate, astart) at r.dst                               *)

\* The call returns to a caller that still waits; one that gave up, or
\* restarted, never sees the result.
Reply(r, code, voteTime) ==
    answer' = IF r.live
              THEN [answer EXCEPT ![r.src][r.dst] = [code |-> code, voteTime |-> voteTime]]
              ELSE answer

\* now = time(0), the first thing the handler does: the authorization check
\* that follows may go to the registry and take long.
ReadClock(r) ==
    /\ r.stage = "sent"
    /\ beacons' = (beacons \ {r}) \cup {[r EXCEPT !.stage = "read", !.time = time(r.dst)]}
    /\ UNCHANGED <<now, offset, voteVars, beaconVars, rounds, faults, restarts>>

\* The four comparisons made before ubik_hold(), in their order.
TooSlow(r)       == r.time - r.astart > MAXSKEW
TooFarAhead(r)   == r.astart - r.time > MAXSKEW
ClockWentBack(r) == lastYesTime[r.dst] > r.time
BehindVote(r)    == lastYesTime[r.dst] - r.astart > MAXSKEW

MustReset(r) == ~TooSlow(r) /\ (TooFarAhead(r) \/ ClockWentBack(r))

Refused(r) == ~MustReset(r) /\ (TooSlow(r) \/ BehindVote(r))

RefuseSkewed(r) ==
    /\ r.stage = "read"
    /\ Refused(r)
    /\ beacons' = beacons \ {r}
    /\ Reply(r, "USKEWED", 0)
    /\ UNCHANGED <<now, offset, voteVars, amSyncSite, syncSiteUntil, up, round,
                   rounds, faults, restarts>>

\* A handler resets the state without the lock: votes may be given between
\* its time(0) and the store, and between that store and the others.
BeginReset(r) ==
    /\ r.stage = "read"
    /\ MustReset(r)
    /\ ubeacon_ResetState(r.dst)
    /\ WakeThread(r.dst)
    /\ beacons' = (beacons \ {r}) \cup {[r EXCEPT !.stage = "reset", !.time = time(r.dst)]}
    /\ UNCHANGED <<now, offset, voteVars, answer, rounds, faults, restarts>>

StoreYesTime(r) ==
    /\ r.stage = "reset"
    /\ lastYesTime' = [lastYesTime EXCEPT ![r.dst] = r.time]
    /\ beacons' = (beacons \ {r}) \cup {[r EXCEPT !.stage = "stored"]}
    /\ UNCHANGED <<now, offset, lastYesHost, lastYesClaim, lastYesState, lowest, sync, yesTime,
                   beaconVars, rounds, faults, restarts>>

EndReset(r) ==
    /\ r.stage = "stored"
    /\ ForgetVotes(r.dst)
    /\ beacons' = beacons \ {r}
    /\ Reply(r, "USKEWED", 0)
    /\ UNCHANGED <<now, offset, lastYesTime, amSyncSite, syncSiteUntil, up, round,
                   rounds, faults, restarts>>

PassSkew(r) ==
    /\ r.stage = "read"
    /\ ~MustReset(r) /\ ~Refused(r)
    /\ beacons' = (beacons \ {r}) \cup {[r EXCEPT !.stage = "checked"]}
    /\ UNCHANGED <<now, offset, voteVars, beaconVars, rounds, faults, restarts>>

\* The caller is no server that the voter knows.
Stranger(r) == r.src # r.dst /\ r.src \notin ubik_servers(r.dst)

RefuseStranger(r) ==
    /\ r.stage = "checked"
    /\ Stranger(r)
    /\ beacons' = beacons \ {r}
    /\ Reply(r, "failed", 0)
    /\ UNCHANGED <<now, offset, voteVars, amSyncSite, syncSiteUntil, up, round,
                   rounds, faults, restarts>>

\* The lowest host heard from in the last BIGTIME seconds, the voter included.
LowestHeard(r) ==
    LET old   == lowest[r.dst]
        heard == IF r.src <= old.host \/ old.time + BIGTIME < r.time
                 THEN [host |-> r.src, time |-> r.time] ELSE old
    IN  IF r.dst <= heard.host \/ heard.time + BIGTIME < r.time
        THEN [host |-> r.dst, time |-> r.time] ELSE heard

\* Mutant: without a sync site the variable holds NoHost, as lowest does.
SyncHeardNoHost(r) ==
    LET old   == sync[r.dst]
        heard == IF r.astate /\ old.time <= r.time
                 THEN [host |-> r.src, time |-> r.time] ELSE old
    IN  IF heard.time + BIGTIME < r.time THEN [host |-> NoHost, time |-> 0] ELSE heard

\* The sync site heard from in the last BIGTIME seconds.
SyncHeard(r) ==
    LET old   == sync[r.dst]
        heard == IF r.astate /\ old.time <= r.time
                 THEN [host |-> r.src, time |-> r.time] ELSE old
    IN  IF heard.time + BIGTIME < r.time THEN [host |-> 0, time |-> 0] ELSE heard

\* A host that is not sync site yet is refused in favour of a lower host or of
\* a sync site heard from recently.
Deferred(r) ==
    /\ ~r.astate
    /\ \/ /\ LowestHeard(r).host # r.src
          /\ LowestHeard(r).time + BIGTIME >= r.time
       \/ SyncHeard(r).host \notin {0, r.src}

\* Mutant: a promise binds nobody.
MayPromiseAnyone(r) ==
    /\ lastYesTime[r.dst] <= r.time
    /\ lastYesClaim[r.dst] <= r.astart

\* "Don't promise sync site support to more than one host every BIGTIME
\* seconds.  This is the heart of our invariants in this system."
MayPromise(r) ==
    /\ lastYesTime[r.dst] <= r.time
    /\ lastYesClaim[r.dst] <= r.astart
    /\ lastYesTime[r.dst] + BIGTIME < r.time \/ r.src = lastYesHost[r.dst]

Grants(r) == ~Deferred(r) /\ MayPromise(r)

Heard(r) ==
    /\ lowest' = [lowest EXCEPT ![r.dst] = LowestHeard(r)]
    /\ sync' = [sync EXCEPT ![r.dst] = SyncHeard(r)]

VoteYes(r) ==
    /\ r.stage = "checked"
    /\ ~Stranger(r) /\ Grants(r)
    /\ Heard(r)
    /\ lastYesTime' = [lastYesTime EXCEPT ![r.dst] = r.time]
    /\ lastYesHost' = [lastYesHost EXCEPT ![r.dst] = r.src]
    /\ lastYesClaim' = [lastYesClaim EXCEPT ![r.dst] = r.astart]
    /\ lastYesState' = [lastYesState EXCEPT ![r.dst] = r.astate]
    /\ yesTime' = [yesTime EXCEPT ![r.dst][r.src] = IF @ < r.time THEN r.time ELSE @]
    /\ beacons' = beacons \ {r}
    /\ Reply(r, "ok", r.time)
    /\ UNCHANGED <<now, offset, amSyncSite, syncSiteUntil, up, round, rounds, faults, restarts>>

VoteNo(r) ==
    /\ r.stage = "checked"
    /\ ~Stranger(r) /\ ~Grants(r)
    /\ Heard(r)
    /\ beacons' = beacons \ {r}
    /\ Reply(r, "ok", 0)
    /\ UNCHANGED <<now, offset, lastYesTime, lastYesHost, lastYesClaim, lastYesState, yesTime,
                   amSyncSite, syncSiteUntil, up, round, rounds, faults, restarts>>

-----------------------------------------------------------------------------
(* The environment                                                         *)

\* When the candidate sent the beacon, on the common time line.
SentAt(r) == r.astart - offset[r.src]

Resetting(r) == r.stage \in {"reset", "stored"}

Tick ==
    /\ now < MaxNow
    /\ \A r \in beacons :
           IF Resetting(r) THEN time(r.dst) < r.time + ResetDelay
                           ELSE now < SentAt(r) + MaxDelay
    /\ now' = now + 1
    /\ UNCHANGED <<offset, voteVars, beaconVars, beacons, rounds, faults, restarts>>

\* Any module may ask whether s still is sync site, and expire its votes.
AskAmSyncSite(s) ==
    /\ amSyncSite[s] /\ ~ubeacon_AmSyncSite(s)
    /\ AmSyncSiteCall(s)
    /\ UNCHANGED <<now, offset, voteVars, syncSiteUntil, up, round, answer,
                   beacons, rounds, faults, restarts>>

\* urecovery_Interact probes the servers that are down.
ProbeUp(s, t) ==
    /\ t \in ubik_servers(s) \ up[s]
    /\ s \in ubik_servers(t)
    /\ up' = [up EXCEPT ![s] = @ \cup {t}]
    /\ UNCHANGED <<now, offset, voteVars, amSyncSite, syncSiteUntil, round, answer,
                   beacons, rounds, faults, restarts>>

Fault == faults < MaxFaults /\ faults' = faults + 1 /\ UNCHANGED restarts

GiveUpOn(r) == (beacons \ {r}) \cup {[r EXCEPT !.live = FALSE]}

\* The RPC fails for its caller: the call was lost, or it goes on unawaited.
RpcFails(r) ==
    /\ Fault
    /\ r.live /\ r.src # r.dst
    /\ beacons' \in {beacons \ {r}, GiveUpOn(r)}
    /\ answer' = [answer EXCEPT ![r.src][r.dst] = [code |-> "failed", voteTime |-> 0]]
    /\ UNCHANGED <<now, offset, voteVars, amSyncSite, syncSiteUntil, up, round, rounds>>

\* ubeacon_send_beacon tries again, with the same arguments, after a reset of
\* its bindings or on the next binding; the first call may still be running.
RpcRetries(r) ==
    /\ Fault
    /\ r.live /\ r.src # r.dst /\ r.stage # "sent"
    /\ beacons' = GiveUpOn(r) \cup {NewBeacon(r.src, r.dst, r.astate, r.astart)}
    /\ UNCHANGED <<now, offset, voteVars, beaconVars, rounds>>

\* tpq_AddParSet found no thread: the beacon is never sent, and its cleared
\* arguments read as a no from a server that is up.
NoThread(r) ==
    /\ Fault
    /\ r.live /\ r.stage = "sent"
    /\ beacons' = beacons \ {r}
    /\ Reply(r, "ok", 0)
    /\ UNCHANGED <<now, offset, voteVars, amSyncSite, syncSiteUntil, up, round, rounds>>

\* The server process dies and a new one starts.  Its own calls go on
\* unawaited at the servers they reached; those it was answering fail.
Orphaned(s) == {[r EXCEPT !.live = FALSE] : r \in {q \in beacons : q.src = s /\ q.dst # s}}

Restart(s) ==
    /\ restarts < MaxRestarts
    /\ restarts' = restarts + 1
    /\ uvote_Init(s)
    /\ amSyncSite' = [amSyncSite EXCEPT ![s] = FALSE]
    /\ syncSiteUntil' = [syncSiteUntil EXCEPT ![s] = 0]
    /\ up' = [up EXCEPT ![s] = ubik_servers(s)]
    /\ round' = [round EXCEPT ![s] = NoRound]
    /\ beacons' = {r \in beacons : s \notin {r.src, r.dst}} \cup Orphaned(s)
    /\ answer' = [t \in Server |-> [u \in Server |->
           CASE t = s -> NoAnswer
             [] t # s /\ u = s /\ answer[t][u].code = "wait" -> [code |-> "failed", voteTime |-> 0]
             [] OTHER -> answer[t][u]]]
    /\ UNCHANGED <<now, offset, rounds, faults>>

-----------------------------------------------------------------------------

BeaconThread(s) ==
    \/ Doze(s) \/ StartRound(s) \/ StartLocal(s)
    \/ BecomeSyncSite(s) \/ LoseElection(s) \/ SkewedRound(s)

Handler(r) ==
    \/ ReadClock(r) \/ RefuseSkewed(r) \/ PassSkew(r)
    \/ BeginReset(r) \/ StoreYesTime(r) \/ EndReset(r)
    \/ RefuseStranger(r) \/ VoteYes(r) \/ VoteNo(r)

Network(r) == RpcFails(r) \/ RpcRetries(r) \/ NoThread(r)

Next ==
    \/ Tick
    \/ \E s \in Server : BeaconThread(s) \/ AskAmSyncSite(s) \/ Restart(s)
    \/ \E s, t \in Server : ProbeUp(s, t)
    \/ \E r \in beacons : Handler(r) \/ Network(r)

Spec == Init /\ [][Next]_vars

-----------------------------------------------------------------------------
(* Properties                                                              *)

SyncSites == {s \in Server : ubeacon_AmSyncSite(s)}

(* At no time do two servers act as sync site: ubeacon_AmSyncSite is what  *)
(* everything but the vote module asks before it writes.  With an even     *)
(* number of servers this rests on the magic host, "the one with the       *)
(* lowest internet address ... This acts as a tie-breaker" (beacon.c).     *)
OneSyncSite == \A a, b \in SyncSites : a = b

(* "A server can not reply ok to two different hosts in less than BIGTIME  *)
(* seconds" (vote.c), across stale clock readings, resets and restarts: a  *)
(* vote whose time a reset overwrites may cost ResetDelay - 1 seconds.     *)
VotesApart ==
    \A v, a, b \in Server :
        a # b /\ yesTime[v][a] > 0 /\ yesTime[v][b] > 0 =>
            \/ yesTime[v][a] + ResetDelay > yesTime[v][b] + BIGTIME
            \/ yesTime[v][b] + ResetDelay > yesTime[v][a] + BIGTIME

(* Whatever order answers, resets and restarts come in, syncSiteUntil      *)
(* never outruns the votes of a quorum of servers whose clocks are not too *)
(* far ahead of the sync site's: that is what a sync site's mandate is.    *)
Backs(v, a) ==
    /\ syncSiteUntil[a] <= yesTime[v][a] + SMALLTIME
    /\ offset[v] - offset[a] <= MAXSKEW

LeaseBacked ==
    \A a \in Server : syncSiteUntil[a] > 0 =>
        \E Q \in SUBSET Server : IsQuorum(Q, MagicOf(a)) /\ \A v \in Q : Backs(v, a)

(* Why these hold.  A handler's clock reading lies between the start of    *)
(* the round and now, and once it passed the comparison the two clocks are *)
(* known to be close.                                                      *)
HandlersTimely ==
    /\ \A s \in Server : round[s].astart <= time(s)
    /\ \A r \in beacons :
        /\ r.astart <= time(r.src)
        /\ r.stage # "sent" =>
            /\ r.time <= time(r.dst)
            /\ offset[r.dst] - offset[r.src] <= r.time - r.astart
        /\ r.stage = "checked" => r.time - r.astart <= MAXSKEW
        /\ Resetting(r) => time(r.dst) <= r.time + ResetDelay

(* The two variables that a voter keeps, lastYesTime and lastYesHost,      *)
(* account for every vote it ever gave, also after it forgot them, and to  *)
(* ResetDelay after a reset put back an older time.                        *)
VotesRemembered ==
    \A v \in Server :
        /\ lastYesTime[v] <= time(v)
        /\ \A c \in Server :
            /\ yesTime[v][c] <= time(v)
            /\ yesTime[v][c] <= lastYesTime[v] + ResetDelay
            /\ \/ yesTime[v][c] = 0
               \/ lastYesHost[v] \in {c, NoHost}
               \/ yesTime[v][c] + BIGTIME < yesTime[v][lastYesHost[v]] + ResetDelay

(* A yes that reached the candidate was given, no earlier than it says.    *)
AnswersTrue ==
    \A a, v \in Server : v \in Yes(a) =>
        /\ answer[a][v].voteTime <= yesTime[v][a]
        /\ offset[v] - offset[a] <= MAXSKEW

(* The inductive invariant of the election. *)
ElectionInv ==
    /\ TypeOK
    /\ now > BIGTIME
    /\ HandlersTimely /\ VotesRemembered /\ VotesApart /\ AnswersTrue /\ LeaseBacked

(* The election implements the promises of UbikPromises: the host a server *)
(* has out its promise to is the one it voted for in the last BIGTIME      *)
(* seconds (less what a reset may cost), whether or not it still remembers.*)
Promised(v, c) == yesTime[v][c] > 0 /\ time(v) + ResetDelay <= yesTime[v][c] + BIGTIME

promiseOf(v) ==
    IF \E c \in Server : Promised(v, c)
    THEN CHOOSE c \in Server : Promised(v, c) ELSE NoHost

Promises == INSTANCE UbikPromises
    WITH promise <- [v \in Server |-> promiseOf(v)], holders <- SyncSites

ImplementsPromises == Promises!PromisesSpec

=============================================================================
