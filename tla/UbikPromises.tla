---------------------------- MODULE UbikPromises ----------------------------
(***************************************************************************)
(* What the vote and beacon modules promise to the rest of Ubik, without   *)
(* clocks and messages: every voter has its promise out to at most one     *)
(* host at a time, and a host is sync site only on the promises of a       *)
(* quorum.  UbikElection implements this specification.                    *)
(***************************************************************************)
EXTENDS UbikServers

VARIABLES
    promise,   \* promise[v]: the host v supports at present, NoHost if none
    holders    \* the hosts that are sync site

promiseVars == <<promise, holders>>

Backed(c, p) == ubik_nServers = 1 \/ IsQuorum({v \in Server : p[v] = c}, Magic)

PromisesInit ==
    /\ promise = [v \in Server |-> NoHost]
    /\ holders = {c \in Server : ubik_nServers = 1}

\* A voter with no promise out gives one, or repeats the one it gave.
GivePromise(v, c) ==
    /\ promise[v] \in {NoHost, c}
    /\ promise' = [promise EXCEPT ![v] = c]
    /\ UNCHANGED holders

Take(c) ==
    /\ Backed(c, promise)
    /\ holders' = holders \cup {c}
    /\ UNCHANGED promise

\* Time passes or servers start again: promises end, but none that a remaining
\* holder needs.
Lapse ==
    /\ \E ended \in SUBSET Server :
           promise' = [v \in Server |-> IF v \in ended THEN NoHost ELSE promise[v]]
    /\ holders' \in SUBSET holders
    /\ \A c \in holders' : Backed(c, promise')

PromisesNext ==
    \/ Lapse
    \/ \E v, c \in Server : GivePromise(v, c)
    \/ \E c \in Server : Take(c)

PromisesSpec == PromisesInit /\ [][PromisesNext]_promiseVars

-----------------------------------------------------------------------------

PromisesTypeOK ==
    /\ promise \in [Server -> Server \cup {NoHost}]
    /\ holders \subseteq Server

(* Every holder is backed by a quorum, so there is at most one. *)
HoldersBacked == \A c \in holders : Backed(c, promise)

OneHolder == \A a, b \in holders : a = b
=============================================================================
