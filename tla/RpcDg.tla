------------------------------- MODULE RpcDg -------------------------------
(***************************************************************************)
(* The datagram protocol of the DCE RPC runtime: the calls of one client   *)
(* thread, which reuses one activity id, and a server that may restart.    *)
(* Requests and responses are of one packet.  What the order and the age   *)
(* of packets matter for are requests, quits, responses, rejects and       *)
(* who-are-you calls: these stay in "sent" and arrive any number of times. *)
(* A ping, and a quack, is answered in one step or lost, since a late copy *)
(* tells the client nothing it could not have heard before; an ack does    *)
(* what the timer of the server does without it.  Left out are callbacks   *)
(* of managers, maybe and broadcast calls, cancels, authentication, and    *)
(* clients that wait for ever (rpc_c_binding_infinite_timeout).            *)
(*                                                                         *)
(* An executor lets go of the locks while it asks who its client is, and   *)
(* comes back to a call handle that may have changed hands.  "races" notes *)
(* the two ways in which that goes wrong: the guarantees hold until then.  *)
(***************************************************************************)
EXTENDS Integers, Sequences

CONSTANTS
    MaxCalls,   \* bound on the calls; they are numbered as their sequence numbers
    MaxBoots,   \* bound on the boot times of the server, which are 1, 2, ...
    NonIdem,    \* the calls that are not idempotent
    Fresh       \* the calls made through a binding handle without a server boot time

ASSUME RpcAssumption ==
    /\ MaxCalls \in Nat \ {0} /\ MaxBoots \in Nat \ {0}
    /\ NonIdem \subseteq 1 .. MaxCalls
    /\ Fresh \subseteq 1 .. MaxCalls /\ 1 \in Fresh

VARIABLES
    ccall,      \* the client call handle
    sent,       \* every packet sent so far: any of them may arrive, at any time, again
    boot,       \* rpc_g_dg_server_boot_time of the server that is up
    scte,       \* the server's connection table entry of the activity
    scall,      \* scte->scall
    execs,      \* the call executors, with the seq of their request
    ran,        \* history: the non-idempotent calls started, in this order
    denied,     \* history: the calls rejected with a status that denies their execution,
                \* with the boot time of the server that rejected them
    races       \* history: which of the two races of the server have happened

clientVars == <<ccall, denied>>
serverVars == <<boot, scte, scall, execs, ran, races>>
vars == <<clientVars, sent, serverVars>>

Call == 1 .. MaxCalls
Boot == 1 .. MaxBoots
Unknown == 0

\* All packets have a sequence number and server_boot.  A response says whose result
\* it carries, and a reject has its status for a type.
Packet(type, seq, b, of) == [type |-> type, seq |-> seq, boot |-> b, of |-> of]
Header(type, seq, b) == Packet(type, seq, b, 0)
Send(p) == sent' = sent \cup {p}

NoScte == [live |-> FALSE, high |-> 0, validated |-> FALSE]
NoScall == [seq |-> 0, state |-> "none", needs |-> FALSE]
-----------------------------------------------------------------------------
(* The client. *)

\* rpc__dg_call_start, with the request transmitted.  The connection is free for a new
\* handle only when its last call is idle; the same handle acks that call implicitly.
\* Nobody looks at responses and rejects of earlier calls any more.
CallStart ==
    /\ ccall.seq < MaxCalls
    /\ LET seq == ccall.seq + 1
           b == IF seq \in Fresh THEN Unknown ELSE ccall.boot
       IN  /\ ccall.state = "idle" \/ (ccall.state = "final" /\ seq \notin Fresh)
           /\ ccall' = [seq |-> seq, state |-> "recv", boot |-> b, queued |-> TRUE,
                        failed |-> FALSE, all |-> FALSE, of |-> 0]
           /\ sent' = {p \in sent : p.type \in {"request", "quit", "way"}}
                         \cup {Header("request", seq, b)}
    /\ UNCHANGED <<denied, serverVars>>

Waiting == ccall.state = "recv" /\ ~ccall.failed /\ ~ccall.all

\* rpc__dg_do_nocall: the request is retransmitted while it is on the queue.  A ping
\* that overtook it brings a nocall, and the nocall may be late.
Nocall ==
    /\ Waiting /\ ccall.queued
    /\ Send(Header("request", ccall.seq, ccall.boot))
    /\ UNCHANGED <<clientVars, serverVars>>

\* recv_state_timer and ccall_timeout_timer give up a call.
Timeout ==
    /\ Waiting
    /\ ccall' = [ccall EXCEPT !.failed = TRUE]
    /\ UNCHANGED <<denied, sent, serverVars>>

\* rpc__dg_call_end.  A call that has no answer is orphaned at the server.
CallEnd ==
    /\ ccall.state = "recv" /\ (ccall.failed \/ ccall.all)
    /\ IF ccall.all
       THEN /\ ccall' = [ccall EXCEPT !.state =
                  IF ~ccall.failed /\ ccall.seq \in NonIdem THEN "final" ELSE "idle"]
            /\ UNCHANGED sent
       ELSE /\ ccall' = [ccall EXCEPT !.state = "orphan"]
            /\ Send(Header("quit", ccall.seq, ccall.boot))
    /\ UNCHANGED <<denied, serverVars>>

\* rpc__dg_ccall_timer: three seconds after a quit or an answer, or once the quit is
\* acknowledged, the call is over.
CallOver ==
    /\ ccall.state \in {"orphan", "final"}
    /\ ccall' = [ccall EXCEPT !.state = "idle"]
    /\ UNCHANGED <<denied, sent, serverVars>>

\* Mutant: the client takes packets and questions of any instance of the server.
RightBootAny(b) == TRUE

\* chk_sboot: whether a packet is from the instance of the server that was heard before.
RightBoot(b) == ccall.boot \in {Unknown, b}

\* Mutant: the sequence number is not compared.
InterestingAny(seq) == ccall.state # "idle" /\ ~ccall.all

\* rpc__dg_do_common_response: whether a packet is of interest to the current call.
Interesting(seq) == ccall.state # "idle" /\ seq = ccall.seq /\ ~ccall.all

\* rpc__dg_do_response
Response(p) ==
    /\ p.type = "response" /\ Interesting(p.seq) /\ ccall.state = "recv"
    /\ ccall' = IF RightBoot(p.boot)
                THEN [ccall EXCEPT !.boot = p.boot, !.queued = FALSE, !.all = TRUE,
                                   !.of = p.of]
                ELSE [ccall EXCEPT !.failed = TRUE]
    /\ UNCHANGED denied

\* rpc__dg_do_reject: in the orphan state a reject is as good as a quack.
Rejected(b) ==
    ccall' = CASE ~RightBoot(b) -> [ccall EXCEPT !.failed = TRUE]
               [] RightBoot(b) /\ ccall.state = "orphan" -> [ccall EXCEPT !.boot = b]
               [] OTHER -> [ccall EXCEPT !.boot = b, !.queued = FALSE, !.all = TRUE,
                                         !.failed = TRUE]

Reject(p) ==
    /\ p.type = "wayFailed" /\ Interesting(p.seq)
    /\ Rejected(p.boot)
    /\ denied' = IF ccall.state = "recv" /\ RightBoot(p.boot)
                 THEN denied \cup {[seq |-> p.seq, boot |-> p.boot]} ELSE denied

ClientReceive ==
    /\ \E p \in sent : Response(p) \/ Reject(p)
    /\ UNCHANGED <<sent, serverVars>>
-----------------------------------------------------------------------------
(* The server's listener. *)

\* rpc__dg_svr_chk_and_set_sboot
SbootOK(p) == p.boot \in {Unknown, boot}

\* A packet with the boot time of an instance that is no more is rejected with its own
\* header, which is why the client takes the reject for its own.
WrongBoot ==
    /\ ccall.state = "recv" /\ ~ccall.all /\ ~RightBoot(boot)
    /\ Rejected(ccall.boot)
    /\ UNCHANGED <<denied, sent, serverVars>>

\* rpc__dg_sct_inq_scall: the call handle is of use for a packet of this or a later
\* call, but not when its call was backed out or overtaken.
Usable(seq) == scall.state # "none" /\ scall.seq <= seq /\ scall.seq = scte.high

StateFor(seq) == IF Usable(seq) THEN scall.state ELSE "idle"

\* Mutant: the call handle is detached, but its executors are not stopped.
OrphanNobody ==
    /\ scall' = NoScall
    /\ UNCHANGED execs

\* rpc__dg_scall_orphan_call.  An executor that waits for a who-are-you comes back.
OrphanCall ==
    /\ scall' = NoScall
    /\ execs' = {[e EXCEPT !.orphan = TRUE] : e \in {f \in execs : f.stage = "way"}}

\* Mutant: a request of an earlier call makes the connection forget the later ones.
ScteRewound(seq) ==
    IF scte.live /\ scte.high <= seq THEN scte ELSE [scte EXCEPT !.live = TRUE, !.high = seq - 1]

\* rpc__dg_sct_get
Scte(seq) == IF scte.live THEN scte ELSE [NoScte EXCEPT !.live = TRUE, !.high = seq - 1]

Race(race) == races' = races \cup {race}

\* rpc__dg_sct_new_call, and a call executor, or rpc__dg_sct_backout_new_call when there
\* is none.  The handle may still have an executor: when a who-are-you has raised
\* high_seq, its call passes for idle, and the executor goes on with the new call.
NewCall(p) ==
    /\ IF \E e \in execs : ~e.orphan THEN Race("reuse") ELSE UNCHANGED races
    /\ \/ /\ scall' = [seq |-> p.seq, state |-> "recv", needs |-> p.boot = Unknown]
          /\ scte' = [Scte(p.seq) EXCEPT !.high = p.seq]
          /\ execs' = execs \cup {[seq |-> p.seq, stage |-> "ready", orphan |-> FALSE,
                                   answer |-> 0]}
       \/ /\ scall' = [seq |-> p.seq, state |-> "idle", needs |-> p.boot = Unknown]
          /\ scte' = [Scte(p.seq) EXCEPT !.high = p.seq - 1]
          /\ UNCHANGED execs

\* rpc__dg_do_request and do_request_common.  A repeated request for a call that has
\* its response is answered with it, and old requests are dropped.
Request(p) ==
    /\ p.type = "request" /\ SbootOK(p)
    /\ LET high == Scte(p.seq).high
           state == StateFor(p.seq)
       IN  \/ /\ p.seq = high /\ state = "recv"
              /\ scall' = [scall EXCEPT !.needs = (p.boot = Unknown)]
              /\ UNCHANGED <<scte, execs, races>>
           \/ /\ p.seq > high /\ state = "recv"
              /\ OrphanCall
              /\ UNCHANGED <<scte, races>>
           \/ /\ \/ p.seq = high /\ state = "idle" /\ p.seq \notin NonIdem
                 \/ p.seq > high /\ state \in {"idle", "final"}
              /\ NewCall(p)
    /\ UNCHANGED <<sent, clientVars>>

\* A rerun of a non-idempotent call is rejected.
Rerun(p) ==
    /\ p.type = "request" /\ SbootOK(p) /\ scte.live
    /\ p.seq = scte.high /\ StateFor(p.seq) = "idle" /\ p.seq \in NonIdem
    /\ Interesting(p.seq) /\ Rejected(boot)
    /\ UNCHANGED <<scte, scall, execs, sent, denied, races>>

\* rpc__dg_do_ping and ping_common, then rpc__dg_do_working: the server has the call.
PingWorking ==
    /\ Waiting /\ RightBoot(boot)
    /\ Usable(ccall.seq) /\ scall.seq = ccall.seq /\ scall.state = "recv"
    /\ ccall' = [ccall EXCEPT !.boot = boot,
                              !.queued = ccall.queued /\ ccall.seq \notin NonIdem]
    /\ UNCHANGED <<scte, scall, execs, sent, denied, races>>

\* rpc__dg_do_quit, whose quack may tell the client the boot time.
QuitReply(p) ==
    /\ p.type = "quit" /\ SbootOK(p) /\ Usable(p.seq)
    /\ IF scall.seq = p.seq /\ scall.state \in {"recv", "final"}
       THEN OrphanCall ELSE UNCHANGED <<scall, execs>>
    /\ \/ UNCHANGED ccall
       \/ /\ Interesting(p.seq) /\ ccall.state = "orphan" /\ RightBoot(boot)
          /\ ccall' = [ccall EXCEPT !.boot = boot]
    /\ UNCHANGED <<scte, sent, denied, races>>

ServerReceive ==
    /\ PingWorking \/ \E p \in sent : Request(p) \/ Rerun(p) \/ QuitReply(p)
    /\ UNCHANGED <<boot, ran>>

\* rpc__dg_do_ack, or rpc__dg_scall_timer when there is no ack.  The timer also lets go
\* of a call handle that was idle for long, whether or not it has an executor.
ScallTimer ==
    /\ \/ /\ scall.state = "final"
          /\ scall' = [scall EXCEPT !.state = "idle"]
          /\ UNCHANGED execs
       \/ scall.state = "idle" /\ OrphanCall
    /\ UNCHANGED <<clientVars, sent, boot, scte, ran, races>>

\* rpc__dg_sct_timer forgets a connection after ten minutes without use.  By then the
\* client has long ended a call that the server knows of.
SctTimer ==
    /\ scte.live /\ scall.state = "none" /\ execs = {}
    /\ ccall.state = "idle" \/ ccall.seq # scte.high
    /\ scte' = NoScte
    /\ UNCHANGED <<clientVars, sent, boot, scall, execs, ran, races>>

Crash ==
    /\ boot < MaxBoots
    /\ boot' = boot + 1
    /\ scte' = NoScte /\ scall' = NoScall /\ execs' = {}
    /\ UNCHANGED <<clientVars, sent, ran, races>>
-----------------------------------------------------------------------------
(* The server's call executors: rpc__dg_execute_call. *)

\* What e does next.
Goes(e, stage) == execs' = (execs \ {e}) \cup {[e EXCEPT !.stage = stage, !.answer = 0]}

\* The executor ends, and the call with it.
EndOfCall(e) ==
    /\ execs' = execs \ {e}
    /\ scall' = [scall EXCEPT !.state = "idle"]

\* The manager is called.
Run(e) ==
    /\ Goes(e, "run")
    /\ ran' = IF e.seq \in NonIdem THEN Append(ran, [seq |-> e.seq, boot |-> boot])
              ELSE ran
    /\ UNCHANGED scall

\* Mutant: no call waits for a who-are-you.
WayNotNeeded == TRUE

\* RPC_DG_SCT_IS_WAY_VALIDATED
IsWayValidated == scte.validated /\ ~scall.needs

\* A call is run, or the client is asked first who it is.
Begin(e) ==
    /\ e.stage = "ready"
    /\ \/ /\ scall.state = "recv"
          /\ e.seq \notin NonIdem \/ (IsWayValidated /\ scall.seq = scte.high)
          /\ Run(e)
          /\ UNCHANGED sent
       \/ /\ scall.state # "recv"
             \/ (e.seq \in NonIdem /\ IsWayValidated /\ scall.seq # scte.high)
          /\ EndOfCall(e)
          /\ UNCHANGED <<ran, sent>>
       \/ /\ scall.state = "recv" /\ e.seq \in NonIdem /\ ~IsWayValidated
          /\ Goes(e, "ask")
          /\ UNCHANGED <<scall, ran, sent>>
    /\ UNCHANGED <<clientVars, boot, scte, races>>

\* The call was unlocked to lock the connection, which another executor may have
\* validated meanwhile.
Ask(e) ==
    /\ e.stage = "ask"
    /\ IF scall.state # "recv" THEN EndOfCall(e) /\ UNCHANGED sent
       ELSE /\ IF IsWayValidated THEN Goes(e, "relock") /\ UNCHANGED sent
               ELSE Goes(e, "way") /\ Send(Header("way", 0, boot))
            /\ UNCHANGED scall
    /\ UNCHANGED <<clientVars, boot, scte, ran, races>>

\* conv_who_are_you at the client, with conv_common.  Any executor that waits may be
\* the one that asked; an answer may also come too late for all of them.
WhoAreYou ==
    /\ \E p \in sent :
          /\ p.type = "way"
          /\ LET there == ccall.state # "idle" /\ RightBoot(p.boot)
                 answer == IF there THEN ccall.seq ELSE -1
             IN  /\ ccall' = IF there THEN [ccall EXCEPT !.boot = p.boot] ELSE ccall
                 /\ \/ UNCHANGED execs
                    \/ \E e \in execs :
                          /\ e.stage = "way" /\ p.boot = boot
                          /\ execs' = (execs \ {e}) \cup {[e EXCEPT !.answer = answer]}
    /\ UNCHANGED <<denied, sent, boot, scte, scall, ran, races>>

\* rpc__dg_sct_way_validate, back from the client: high_seq does not go backwards, and
\* whatever call handle the connection has now needs no boot time any more, also that
\* of a call later than the one the client answered for.
WayValidate(e) ==
    /\ e.stage = "way" /\ e.answer > 0
    /\ scte' = [scte EXCEPT !.validated = TRUE,
                            !.high = IF e.answer < scte.high THEN scte.high ELSE e.answer]
    /\ scall' = [scall EXCEPT !.needs = FALSE]
    /\ IF scall.needs /\ scall.seq > e.answer THEN Race("clear") ELSE UNCHANGED races
    /\ IF e.orphan THEN execs' = execs \ {e} ELSE Goes(e, "relock")
    /\ UNCHANGED <<clientVars, sent, boot, ran>>

\* Mutant: the call that is rejected is backed out, so that it can be tried again.
WayFailBackout(e) ==
    /\ e.stage = "way" /\ ~e.orphan /\ scall.state = "recv"
    /\ Send(Header("wayFailed", scall.seq, boot))
    /\ EndOfCall(e)
    /\ scte' = [scte EXCEPT !.high = scall.seq - 1]
    /\ UNCHANGED <<clientVars, boot, ran, races>>

\* It returns with an error: the answer was one, or there was none.
WayFail(e) ==
    /\ e.stage = "way"
    /\ \/ e.orphan /\ execs' = execs \ {e} /\ UNCHANGED <<scall, sent>>
       \/ ~e.orphan /\ scall.state # "recv" /\ EndOfCall(e) /\ UNCHANGED sent
       \/ /\ ~e.orphan /\ scall.state = "recv"
          /\ Send(Header("wayFailed", scall.seq, boot))
          /\ scall' = [scall EXCEPT !.state = "final"]
          /\ execs' = execs \ {e}
    /\ UNCHANGED <<clientVars, boot, scte, ran, races>>

\* The executor has the lock of its call again, and looks whether it is the current one.
Proceed(e) ==
    /\ e.stage = "relock"
    /\ IF scall.state = "recv" /\ scall.seq = scte.high
       THEN Run(e)
       ELSE EndOfCall(e) /\ UNCHANGED ran
    /\ UNCHANGED <<clientVars, sent, boot, scte, races>>

\* The manager returns, and the response is sent.
Respond(e) ==
    /\ e.stage = "run"
    /\ IF scall.state = "recv"
       THEN /\ Send(Packet("response", scall.seq, boot, e.seq))
            /\ scall' = [scall EXCEPT !.state =
                            IF e.seq \in NonIdem THEN "final" ELSE "idle"]
            /\ execs' = execs \ {e}
       ELSE EndOfCall(e) /\ UNCHANGED sent
    /\ UNCHANGED <<clientVars, boot, scte, ran, races>>
-----------------------------------------------------------------------------
Init ==
    /\ ccall = [seq |-> 0, state |-> "idle", boot |-> Unknown, queued |-> FALSE,
                failed |-> FALSE, all |-> FALSE, of |-> 0]
    /\ sent = {}
    /\ boot = 1
    /\ scte = NoScte /\ scall = NoScall /\ execs = {}
    /\ ran = << >> /\ denied = {} /\ races = {}

Next ==
    \/ CallStart \/ Nocall \/ Timeout \/ CallEnd \/ CallOver
    \/ ClientReceive \/ WhoAreYou
    \/ ServerReceive \/ WrongBoot \/ ScallTimer \/ SctTimer \/ Crash
    \/ \E e \in execs : Begin(e) \/ Ask(e)
    \/ \E e \in execs : WayValidate(e) \/ WayFail(e)
    \/ \E e \in execs : Proceed(e)
    \/ \E e \in execs : Respond(e)

Spec == Init /\ [][Next]_vars
-----------------------------------------------------------------------------
(* Properties. *)

\* Every variable has its type.  Only a call handle that is attached to the connection
\* has executors which may still run its call, and only a live connection has one.
RpcTypeOK ==
    /\ ccall \in [seq : 0 .. MaxCalls, state : {"idle", "recv", "final", "orphan"},
                  boot : 0 .. MaxBoots, queued : BOOLEAN, failed : BOOLEAN,
                  all : BOOLEAN, of : 0 .. MaxCalls]
    /\ sent \subseteq [type : {"request", "quit", "way", "response", "wayFailed"},
                       seq : 0 .. MaxCalls, boot : 0 .. MaxBoots, of : 0 .. MaxCalls]
    /\ boot \in Boot
    /\ scte \in [live : BOOLEAN, high : 0 .. MaxCalls, validated : BOOLEAN]
    /\ scall \in [seq : 0 .. MaxCalls, state : {"none", "idle", "recv", "final"},
                  needs : BOOLEAN]
    /\ execs \subseteq [seq : Call, stage : {"ready", "ask", "way", "relock", "run"},
                        orphan : BOOLEAN, answer : -1 .. MaxCalls]
    /\ races \subseteq {"reuse", "clear"}
    /\ ran \in Seq([seq : NonIdem, boot : Boot])
    /\ denied \subseteq [seq : Call, boot : Boot]
    /\ scte.live \/ (scall = NoScall /\ execs = {})
    /\ scall.state = "none" => \A e \in execs : e.orphan

(* What the runtime is to guarantee.  Each of the two races breaks some of this, so the   *)
(* runs show two counterexamples, and that it all holds until one of them happens.        *)

\* No non-idempotent call is executed twice, by one instance of the server or by two.
AtMostOnce ==
    \A i, j \in DOMAIN ran : i # j => ran[i].seq # ran[j].seq

\* Calls start in the order in which the client made them.
StartsInOrder ==
    \A i, j \in DOMAIN ran : i < j => ran[i].seq <= ran[j].seq

\* The results the client gets are of its call.
OwnReply ==
    ccall.all /\ ~ccall.failed =>
        /\ ccall.of = ccall.seq
        /\ ccall.seq \in NonIdem =>
              \E i \in DOMAIN ran : ran[i] = [seq |-> ccall.seq, boot |-> ccall.boot]

\* A call that was rejected because the who-are-you failed is never executed.
RejectedNotExecuted ==
    \A i \in DOMAIN ran, d \in denied : ran[i].seq # d.seq

\* A client that has no boot time for its call tells the caller, in
\* rpc__dg_call_did_mgr_execute, that the server cannot have executed it.
UnknownNotRun ==
    ccall.boot = Unknown /\ ccall.seq \in NonIdem =>
        \A i \in DOMAIN ran : ran[i].seq # ccall.seq

\* The two races are all that stands between the server and these guarantees: packets
\* lost, repeated or late, restarts and calls given up do not.  A race is the step of
\* sct_new_call or sct_way_validate that does the damage, not what follows from it.
Unraced == races = {}

\* As long as neither race happened, no call is executed twice (dgsct.c:807).
AtMostOnceUntilRaced == Unraced => AtMostOnce

\* As long as neither race happened, high_seq keeps the calls in order.
StartsInOrderUntilRaced == Unraced => StartsInOrder

\* As long as neither race happened, the client takes no answer that is not its own.
OwnReplyUntilRaced == Unraced => OwnReply

\* As long as neither race happened, a reject for a failed who-are-you is the truth.
RejectedNotExecutedUntilRaced == Unraced => RejectedNotExecuted

\* As long as neither race happened, a call without a boot time has not run.
UnknownNotRunUntilRaced == Unraced => UnknownNotRun

\* What the caller was told so far: rpc__dg_call_end, and the receive before it,
\* report an error once there is one.
Told ==
    IF ccall.failed THEN [how |-> "error", of |-> 0]
    ELSE IF ccall.all THEN [how |-> "result", of |-> ccall.of]
    ELSE [how |-> "nothing", of |-> 0]

Calls == INSTANCE RpcCalls
    WITH call <- ccall.seq,
         told <- Told,
         started <- [i \in DOMAIN ran |-> ran[i].seq],
         denied <- {d.seq : d \in denied},
         lost <- ~Unraced

\* To its caller, the datagram protocol is a service that starts every call at most
\* once and in order, and tells the truth about it, until one of the races happens.
ImplementsCallsUntilRaced == Calls!CallsSpec
=============================================================================
