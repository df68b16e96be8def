------------------------------ MODULE RpcCalls ------------------------------
(***************************************************************************)
(* What the RPC runtime promises to a client thread, without packets, boot *)
(* times and call handles.  The thread makes one call after the other and  *)
(* is told a result or an error.  Managers of non-idempotent calls start   *)
(* in the order of the calls and once each, perhaps long after the caller  *)
(* was told an error.  A result is that of the caller's own call, which    *)
(* has started; a call of which the caller was told that it was denied     *)
(* never starts.  The server may lose track of its calls once, and from    *)
(* then on promises nothing.  RpcDg implements this specification.         *)
(***************************************************************************)
EXTENDS Naturals, Sequences

CONSTANTS
    MaxCalls,  \* bound on the calls, which are numbered
    NonIdem    \* the calls that are not idempotent

VARIABLES
    call,      \* the number of the current call, or of the last one
    told,      \* what its caller was told, and of which call a result is
    started,   \* the non-idempotent calls whose managers were started, in this order
    denied,    \* the calls of which the caller was told that they were never started
    lost       \* the server has lost track of its calls

callsVars == <<call, told, started, denied, lost>>

Nothing == [how |-> "nothing", of |-> 0]
Result(k) == [how |-> "result", of |-> k]
Error == [how |-> "error", of |-> 0]

CallsInit == call = 0 /\ told = Nothing /\ started = << >> /\ denied = {} /\ ~lost

\* The call before is over: its caller was told something.
Make ==
    /\ call = 0 \/ told # Nothing
    /\ call < MaxCalls
    /\ call' = call + 1
    /\ told' = Nothing
    /\ UNCHANGED <<started, denied, lost>>

\* A manager starts, of the current call or of one that its caller gave up.
Start(k) ==
    /\ k \in NonIdem /\ k <= call /\ k \notin denied
    /\ \A i \in DOMAIN started : started[i] < k
    /\ started' = Append(started, k)
    /\ UNCHANGED <<call, told, denied, lost>>

Return ==
    /\ told = Nothing
    /\ call \in NonIdem => \E i \in DOMAIN started : started[i] = call
    /\ told' = Result(call)
    /\ UNCHANGED <<call, started, denied, lost>>

\* Nobody knows whether the call was, or will be, started.
Fail ==
    /\ told = Nothing
    /\ told' = Error
    /\ UNCHANGED <<call, started, denied, lost>>

\* rpc__dg_call_did_mgr_execute says no, perhaps of a call that failed before.
Deny ==
    /\ told \in {Nothing, Error}
    /\ \A i \in DOMAIN started : started[i] # call
    /\ told' = Error
    /\ denied' = denied \cup {call}
    /\ UNCHANGED <<call, started, lost>>

\* The server gives a call handle, or what it knows of one, to the wrong call.
LoseTrack ==
    /\ ~lost /\ lost'
    /\ UNCHANGED <<call, told, started, denied>>

CallsNext ==
    \/ Make \/ Return \/ Fail \/ Deny
    \/ \E k \in NonIdem : Start(k)
    \/ LoseTrack
    \/ lost /\ lost'

CallsSpec == CallsInit /\ [][CallsNext]_callsVars
=============================================================================
