------------------------- MODULE UbikElectionTimely -------------------------
(***************************************************************************)
(* UbikElection when the machine keeps up: beacons between live servers    *)
(* are answered, and threads that are due run, before time passes.  Then   *)
(* nominating a sync site has to end.  vote.c asks for an argument: "Not   *)
(* obvious that this process terminates: i.e. each guy could restart       *)
(* procedure and again think other side is lowest."                        *)
(*                                                                         *)
(* A server may crash and start again, or lose contact with all others, at *)
(* any moment; to the others, one that crashed for good is one that they   *)
(* lost contact with.  A beacon that cannot get through fails after up to  *)
(* MaxDelay.                                                               *)
(***************************************************************************)
EXTENDS UbikElection

CONSTANTS
    LastMishap,   \* bound: last instant at which one restarts or loses contact
    MaxIsolated,  \* bound: servers that lose contact
    ElectionTime  \* how long after the last mishap a sync site must be known

VARIABLES
    isolated,     \* servers that run but reach, and are reached by, no other
    disturbedAt   \* when a server last restarted or lost contact

timelyVars == <<vars, isolated, disturbedAt>>

TimelyTypeOK ==
    /\ TypeOK
    /\ isolated \subseteq Server
    /\ disturbedAt \in Nat

TimelyInit == Init /\ isolated = {} /\ disturbedAt = now

\* The call cannot reach its server; a reset that has begun is finished.
Broken(r) == r.src # r.dst /\ ~Resetting(r) /\ {r.src, r.dst} \cap isolated # {}

\* Nothing is left to do at this instant but wait for calls that will fail.
Idle ==
    /\ \A r \in beacons : Broken(r)
    /\ \A s \in Server :
        /\ round[s].phase # "sending"
        /\ ~RoundOver(s)
        /\ ~Awake(s)

TimelyTick == Idle /\ Tick /\ UNCHANGED <<isolated, disturbedAt>>

CrashAndRestart(s) ==
    now <= LastMishap /\ Restart(s) /\ disturbedAt' = now /\ UNCHANGED isolated

Isolate(s) ==
    /\ now <= LastMishap /\ Cardinality(isolated) < MaxIsolated /\ s \in Server \ isolated
    /\ isolated' = isolated \cup {s}
    /\ disturbedAt' = now
    /\ UNCHANGED vars

\* A call that cannot get through comes back with an error.
BrokenRpcFails(r) ==
    /\ Broken(r)
    /\ beacons' = beacons \ {r}
    /\ Reply(r, "failed", 0)
    /\ UNCHANGED <<now, offset, voteVars, amSyncSite, syncSiteUntil, up, round,
                   rounds, faults, restarts, isolated, disturbedAt>>

\* Handlers that run within one instant all read the same clock, so here they
\* run one after the other.
Alone(r) == \A q \in beacons : q.stage # "sent" => q = r

TimelyStep ==
    /\ \/ \E s \in Server : BeaconThread(s)
       \/ \E r \in beacons : ~Broken(r) /\ Alone(r) /\ Handler(r)
    /\ UNCHANGED <<isolated, disturbedAt>>

TimelyNext ==
    \/ TimelyTick
    \/ TimelyStep
    \/ \E s \in Server : CrashAndRestart(s) \/ Isolate(s)
    \/ \E r \in beacons : BrokenRpcFails(r)

TimelySpec == TimelyInit /\ [][TimelyNext]_timelyVars

-----------------------------------------------------------------------------

\* A server in contact with enough servers that it knows and that know it.
Acquainted(a) ==
    {v \in Server \ isolated : v = a \/ (v \in ubik_servers(a) /\ a \in ubik_servers(v))}

Enough == \E a \in Server \ isolated : IsQuorum(Acquainted(a), MagicOf(a))

(* However the servers' first beacons interleave, and whoever restarts or  *)
(* is cut off, once ElectionTime has passed since then and a quorum is in  *)
(* contact there is a sync site, and it does not lose its mandate between  *)
(* rounds.                                                                 *)
SiteElected ==
    Idle /\ Enough /\ now >= disturbedAt + ElectionTime => SyncSites # {}
=============================================================================
