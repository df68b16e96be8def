---------------------------- MODULE RpcDgProofs ----------------------------
(***************************************************************************)
(* For any calls, any restarts and any binding handles, RpcDg executes a   *)
(* non-idempotent call at most once and calls in order, gives the client   *)
(* its own results, and never runs what it rejected, until one of the two  *)
(* races of the server happens.  Nothing is assumed about when that is:    *)
(* the step that is a race is the first that may break the invariant.      *)
(***************************************************************************)
EXTENDS RpcDg, SequenceTheorems, TLAPS

Requests == {p \in sent : p.type = "request"}
Rejects == {[seq |-> p.seq, boot |-> p.boot] : p \in {q \in sent : q.type = "wayFailed"}}
Started == {ran[i] : i \in DOMAIN ran}

\* An executor that may still run its call.
Pending(e) == ~e.orphan /\ e.stage # "run"

\* The client is not in call k any more.
Over(k) == ccall.seq > k \/ (ccall.seq = k /\ ccall.state = "idle")

\* All that is known of the server by call k is that it has boot time b.
BoundTo(k, b) ==
    /\ ccall.seq = k => ccall.boot = b
    /\ \A p \in Requests : p.seq = k => p.boot \in {Unknown, b}

\* This instance of the server will not run call k: the connection remembers it, or
\* has to ask the client, who is not in it.
Closed(k) ==
    \/ /\ scte.live /\ scte.high >= k
       /\ \A e \in execs : Pending(e) => e.seq # k
    \/ /\ Over(k)
       /\ scte.validated => scte.high > k
       /\ \A e \in execs : e.answer > 0 => e.answer > k

\* Call k was not dealt with by an earlier instance of the server, nor a later call
\* before it, as far as the connection does not tell.
Known(k) ==
    /\ BoundTo(k, boot)
    /\ \A x \in Started \cup denied : x.seq = k => x.boot = boot
    /\ \A x \in Started : x.seq > k => scte.high >= x.seq

\* The client named this instance in a request of call k.
Named(k) == \E p \in Requests : p.seq = k /\ p.boot = boot

\* When the connection is validated, call k can be run, unless it was overtaken.
Runnable(k) ==
    scte.high > k \/ Known(k) \/ (~scte.validated /\ Named(k))

\* What every packet is, when the client has come to call n and the server to boot b.
PacketOK(p, n, b) ==
    /\ p.type \in {"request", "quit", "way", "response", "wayFailed"}
    /\ p.seq \in 0 .. MaxCalls /\ p.boot \in 0 .. MaxBoots /\ p.of \in 0 .. MaxCalls
    /\ p.type \in {"request", "response", "wayFailed"} => p.seq \in Call
    /\ p.type \in {"way", "response", "wayFailed"} => p.boot \in Boot
    /\ p.seq <= n /\ p.boot <= b
    /\ p = Packet(p.type, p.seq, p.boot, p.of)

PacketTypes == \A p \in sent : PacketOK(p, ccall.seq, boot)

Types ==
    /\ ccall \in [seq : 0 .. MaxCalls, state : {"idle", "recv", "final", "orphan"},
                  boot : 0 .. MaxBoots, queued : BOOLEAN, failed : BOOLEAN,
                  all : BOOLEAN, of : 0 .. MaxCalls]
    /\ ccall.state # "idle" => ccall.seq \in Call
    /\ boot \in Boot /\ ccall.boot <= boot
    /\ scte \in [live : BOOLEAN, high : 0 .. MaxCalls, validated : BOOLEAN]
    /\ scall \in [seq : 0 .. MaxCalls, state : {"none", "idle", "recv", "final"},
                  needs : BOOLEAN]
    /\ execs \subseteq [seq : Call, stage : {"ready", "ask", "way", "relock", "run"},
                        orphan : BOOLEAN, answer : -1 .. MaxCalls]
    /\ ran \in Seq([seq : NonIdem, boot : Boot])
    /\ denied \subseteq [seq : NonIdem, boot : Boot]

\* An executor that asks is one of a call that is not idempotent, and the connection
\* remembers a call that an executor is at.
ExecOK(e) ==
    /\ e.seq <= ccall.seq /\ e.answer <= ccall.seq
    /\ e.orphan \/ e.answer # 0 => e.stage = "way"
    /\ e.stage \in {"ask", "way", "relock"} => e.seq \in NonIdem
    /\ e.stage = "relock" => scte.validated
    /\ ~e.orphan => scte.high >= e.seq
    /\ e.stage = "run" /\ e.seq \in NonIdem => [seq |-> e.seq, boot |-> boot] \in Started

\* What goes together in the server.
ServerInv ==
    /\ ~scte.live => scte = NoScte /\ scall = NoScall /\ execs = {}
    /\ scall.state = "none" => scall = NoScall
    /\ scall.state # "none" => scall.seq \in Call
    /\ scte.high <= ccall.seq /\ scall.seq <= ccall.seq
    /\ \A e, f \in execs : ~e.orphan /\ ~f.orphan => e = f
    /\ \A e \in execs : ExecOK(e)

\* The boot time of a request is that of its call.
RequestsAgree == \A p \in Requests : p.boot # Unknown => BoundTo(p.seq, p.boot)

\* What was started or rejected is over for this instance, and for the others.
FinishedInv ==
    /\ \A x \in Started \cup denied :
          /\ x.seq <= ccall.seq /\ x.boot <= boot
          /\ BoundTo(x.seq, x.boot)
          /\ x.boot = boot => Closed(x.seq)
    /\ \A x \in Started, p \in Requests : p.seq < x.seq => p.boot <= x.boot
    /\ \A x \in Rejects :
          /\ x.seq \in NonIdem
          /\ x.boot = boot => Closed(x.seq)
          /\ x \in Started => Over(x.seq)

\* What the client answered, and the calls that may be run without asking again.
ExecInv ==
    \A e \in execs :
        /\ e.answer > 0 => e.answer >= e.seq /\ Known(e.answer)
        /\ Pending(e) /\ (e.stage = "relock" \/ ~scall.needs) => Runnable(e.seq)

ReplyInv ==
    /\ \A p \in sent : p.type = "response" =>
          /\ p.of = p.seq
          /\ p.seq \in NonIdem => [seq |-> p.seq, boot |-> p.boot] \in Started
    /\ OwnReply

\* An executor works on the call it was started for: what sct_new_call breaks.
OwnCall ==
    \A e \in execs : ~e.orphan => scall.state = "recv" /\ scall.seq = e.seq

RpcInv ==
    /\ Types /\ PacketTypes /\ ServerInv
    /\ RequestsAgree /\ FinishedInv /\ ExecInv /\ ReplyInv
    /\ AtMostOnce /\ StartsInOrder /\ RejectedNotExecuted
-----------------------------------------------------------------------------
(* What a step does to the client, to the packets and to the histories. *)

\* The client's call has one boot time at most, requests carry it, and a call that is
\* over stays over.
ClientStep ==
    /\ ccall'.seq \in {ccall.seq, ccall.seq + 1}
    /\ ccall'.seq = ccall.seq /\ ccall.boot # Unknown => ccall'.boot = ccall.boot
    /\ Requests \subseteq Requests'
    /\ \A p \in Requests' : p \in Requests \/ (p.seq = ccall'.seq /\ p.boot = ccall'.boot)
    /\ \A k \in Call : Over(k) => Over(k)'

\* Executor e calls the manager of a call that is not idempotent.
Runs(e) ==
    /\ e \in execs /\ e.seq \in NonIdem
    /\ e.stage = "relock" \/ (e.stage = "ready" /\ IsWayValidated)
    /\ scall.state = "recv" /\ scall.seq = scte.high
    /\ Goes(e, "run")
    /\ ran' = Append(ran, [seq |-> e.seq, boot |-> boot])
    /\ UNCHANGED <<clientVars, sent, boot, scte, scall>>

LEMMA SendKeeps ==
    ASSUME NEW p, p.type # "request", Send(p)
    PROVE  Requests' = Requests
BY DEF Send, Requests

LEMMA SameRequests ==
    ASSUME UNCHANGED sent
    PROVE  Requests' = Requests
BY DEF Requests

\* What every client step of the current call has to show.
LEMMA SameCall ==
    ASSUME Types, Requests' = Requests, ccall'.seq = ccall.seq,
           ccall.boot # Unknown => ccall'.boot = ccall.boot,
           ccall.state = "idle" => ccall'.state = "idle"
    PROVE  ClientStep
BY DEF ClientStep, Types, Over

LEMMA ClientStepOK ==
    ASSUME Types, [Next]_vars
    PROVE  ClientStep
<1>1. CASE CallStart
  <2> DEFINE b == IF ccall.seq + 1 \in Fresh THEN Unknown ELSE ccall.boot
  <2>1. ccall'.seq = ccall.seq + 1 /\ ccall'.boot = b
    BY <1>1 DEF CallStart
  <2>2. Requests' = Requests \cup {Header("request", ccall.seq + 1, b)}
    BY <1>1 DEF CallStart, Requests, Header, Packet
  <2>3. \A k \in Call : Over(k) => Over(k)'
    BY <2>1 DEF Over, Types, Call
  <2> QED
    BY <2>1, <2>2, <2>3 DEF ClientStep, Types, Header, Packet
<1>2. CASE Nocall
  <2>1. /\ Requests' = Requests \cup {Header("request", ccall.seq, ccall.boot)}
        /\ ccall' = ccall
    BY <1>2 DEF Nocall, Send, Requests, Header, Packet, clientVars
  <2> QED
    BY <2>1 DEF ClientStep, Types, Header, Packet, Over
<1>3. CASE Timeout
  BY <1>3, SameCall, SameRequests DEF Timeout, Types, Waiting
<1>4. CASE CallEnd
  <2>1. Requests' = Requests
    BY <1>4, SendKeeps, SameRequests DEF CallEnd, Header, Packet
  <2> QED
    BY <1>4, <2>1, SameCall DEF CallEnd, Types
<1>5. CASE CallOver
  BY <1>5, SameCall, SameRequests DEF CallOver, Types
<1>6. CASE ClientReceive
  <2>1. PICK p \in sent : Response(p) \/ Reject(p)
    BY <1>6 DEF ClientReceive
  <2>2. UNCHANGED sent
    BY <1>6 DEF ClientReceive
  <2>3. CASE Response(p)
    BY <2>3, <2>2, SameCall, SameRequests DEF Response, Types, RightBoot
  <2>4. CASE Reject(p)
    BY <2>4, <2>2, SameCall, SameRequests DEF Reject, Rejected, Types, RightBoot, Interesting
  <2> QED
    BY <2>1, <2>3, <2>4
<1>7. CASE WhoAreYou
  BY <1>7, SameCall, SameRequests DEF WhoAreYou, Types, RightBoot
<1>8. CASE ServerReceive
  <2>1. UNCHANGED sent
    BY <1>8 DEF ServerReceive, PingWorking, Request, Rerun, QuitReply
  <2>2. CASE PingWorking
    BY <2>1, <2>2, SameCall, SameRequests DEF PingWorking, Types, RightBoot, Waiting
  <2>3. ASSUME NEW p \in sent, Request(p) PROVE ClientStep
    BY <2>1, <2>3, SameCall, SameRequests DEF Request, clientVars
  <2>4. ASSUME NEW p \in sent, Rerun(p) PROVE ClientStep
    BY <2>1, <2>4, SameCall, SameRequests
       DEF Rerun, Rejected, Types, RightBoot, Interesting
  <2>5. ASSUME NEW p \in sent, QuitReply(p) PROVE ClientStep
    BY <2>1, <2>5, SameCall, SameRequests DEF QuitReply, Types, RightBoot
  <2> QED
    BY <1>8, <2>2, <2>3, <2>4, <2>5 DEF ServerReceive
<1>9. CASE WrongBoot
  BY <1>9, SameCall, SameRequests DEF WrongBoot, Rejected, Types, RightBoot
<1>10. CASE ScallTimer \/ SctTimer \/ Crash \/ UNCHANGED vars
  BY <1>10, SameCall, SameRequests DEF ScallTimer, SctTimer, Crash, vars, clientVars
<1>11. ASSUME NEW e \in execs, Begin(e) \/ Ask(e) \/ WayValidate(e) \/ WayFail(e)
                                  \/ Proceed(e) \/ Respond(e)
       PROVE  ClientStep
  <2>1. ccall' = ccall
    BY <1>11 DEF Begin, Ask, WayValidate, WayFail, Proceed, Respond, clientVars
  <2>2. Requests' = Requests
    BY <1>11, SendKeeps, SameRequests
       DEF Begin, Ask, WayValidate, WayFail, Proceed, Respond, Header, Packet
  <2> QED
    BY <2>1, <2>2, SameCall
<1> QED
  BY <1>1, <1>2, <1>3, <1>4, <1>5, <1>6, <1>7, <1>8, <1>9, <1>10, <1>11 DEF Next
-----------------------------------------------------------------------------
(* Types. *)

\* ccall keeps its type under the answers to a call.
LEMMA RejectedType ==
    ASSUME Types, NEW b \in Boot, b <= boot, Rejected(b)
    PROVE  /\ ccall' \in [seq : 0 .. MaxCalls, state : {"idle", "recv", "final", "orphan"},
                          boot : 0 .. MaxBoots, queued : BOOLEAN, failed : BOOLEAN,
                          all : BOOLEAN, of : 0 .. MaxCalls]
           /\ ccall'.seq = ccall.seq /\ ccall'.state = ccall.state /\ ccall'.boot <= boot
<1>1. ccall' \in {[ccall EXCEPT !.failed = TRUE], [ccall EXCEPT !.boot = b],
                  [ccall EXCEPT !.boot = b, !.queued = FALSE, !.all = TRUE, !.failed = TRUE]}
    BY Zenon DEF Rejected
<1> b \in 0 .. MaxBoots
    BY RpcAssumption DEF Boot
<1>2. CASE ccall' = [ccall EXCEPT !.failed = TRUE]
    BY <1>2 DEF Types
<1>3. CASE ccall' = [ccall EXCEPT !.boot = b]
    BY <1>3 DEF Types, Boot
<1>4. CASE ccall' = [ccall EXCEPT !.boot = b, !.queued = FALSE, !.all = TRUE, !.failed = TRUE]
    BY <1>4 DEF Types, Boot
<1> QED
    BY <1>1, <1>2, <1>3, <1>4

CcallTypes ==
    /\ ccall \in [seq : 0 .. MaxCalls, state : {"idle", "recv", "final", "orphan"},
                  boot : 0 .. MaxBoots, queued : BOOLEAN, failed : BOOLEAN,
                  all : BOOLEAN, of : 0 .. MaxCalls]
    /\ ccall.state # "idle" => ccall.seq \in Call
    /\ ccall.boot <= boot

LEMMA CcallStep ==
    ASSUME Types, PacketTypes, [Next]_vars
    PROVE  CcallTypes'
<1> USE RpcAssumption
<1>0. CcallTypes /\ boot \in Boot /\ boot \in Nat /\ ccall.boot <= boot
    BY DEF Types, CcallTypes, Boot
<1>1. CASE CallStart
    BY <1>0, <1>1 DEF CallStart, CcallTypes, Call, serverVars, Unknown, Boot
<1>2. CASE Nocall \/ Timeout \/ CallEnd \/ CallOver
    BY <1>0, <1>2 DEF Nocall, Timeout, CallEnd, CallOver, CcallTypes, serverVars, clientVars
<1>3. CASE ClientReceive
  <2>1. PICK p \in sent : Response(p) \/ Reject(p)
    BY <1>3 DEF ClientReceive
  <2>2. boot' = boot /\ p.seq \in 0 .. MaxCalls /\ p.boot \in 0 .. MaxBoots /\ p.boot <= boot
        /\ p.of \in 0 .. MaxCalls
    BY <1>3 DEF ClientReceive, serverVars, PacketTypes, PacketOK
  <2>3. CASE Response(p)
    BY <1>0, <2>2, <2>3 DEF Response, CcallTypes
  <2>4. CASE Reject(p)
    <3>1. p.boot \in Boot
      BY <2>4 DEF Reject, PacketTypes, PacketOK
    <3> QED
      BY <1>0, <2>2, <2>4, <3>1, RejectedType DEF Reject, CcallTypes
  <2> QED
    BY <2>1, <2>3, <2>4
<1>4. CASE WhoAreYou
  BY <1>0, <1>4 DEF WhoAreYou, CcallTypes, PacketTypes, PacketOK
<1>5. CASE ServerReceive
  <2>1. boot' = boot /\ boot \in 0 .. MaxBoots
    BY <1>5, <1>0 DEF ServerReceive, Boot
  <2>2. CASE PingWorking
    <3>1. \/ ccall' = [ccall EXCEPT !.boot = boot, !.queued = TRUE]
          \/ ccall' = [ccall EXCEPT !.boot = boot, !.queued = FALSE]
      <4>1. (ccall.queued /\ ccall.seq \notin NonIdem) \in {TRUE, FALSE}
        OBVIOUS
      <4> QED
        BY <2>2, <4>1, Zenon DEF PingWorking
    <3>2. ccall' \in [seq : 0 .. MaxCalls, state : {"idle", "recv", "final", "orphan"},
                      boot : 0 .. MaxBoots, queued : BOOLEAN, failed : BOOLEAN,
                      all : BOOLEAN, of : 0 .. MaxCalls]
      BY <1>0, <2>1, <3>1 DEF CcallTypes
    <3>3. ccall'.boot = boot /\ ccall'.state = ccall.state /\ ccall'.seq = ccall.seq
      BY <1>0, <2>2 DEF PingWorking, CcallTypes
    <3> QED
      BY <1>0, <2>1, <3>2, <3>3 DEF CcallTypes
  <2>3. ASSUME NEW p \in sent, Request(p) PROVE CcallTypes'
    BY <1>0, <2>1, <2>3 DEF Request, clientVars, CcallTypes
  <2>4. ASSUME NEW p \in sent, Rerun(p) PROVE CcallTypes'
    BY <1>0, <2>1, <2>4, RejectedType DEF Rerun, CcallTypes
  <2>5. ASSUME NEW p \in sent, QuitReply(p) PROVE CcallTypes'
    BY <1>0, <2>1, <2>5 DEF QuitReply, CcallTypes
  <2> QED
    BY <1>5, <2>2, <2>3, <2>4, <2>5 DEF ServerReceive
<1>6. CASE WrongBoot
  <2>1. ccall.boot \in Boot
    BY <1>0, <1>6 DEF WrongBoot, RightBoot, CcallTypes, Boot, Unknown
  <2> QED
    BY <1>0, <1>6, <2>1, RejectedType DEF WrongBoot, CcallTypes, serverVars
<1>7. CASE Crash
  BY <1>0, <1>7 DEF Crash, clientVars, CcallTypes, Boot
<1>8. CASE ScallTimer \/ SctTimer \/ UNCHANGED vars
  BY <1>0, <1>8 DEF ScallTimer, SctTimer, vars, clientVars, serverVars, CcallTypes
<1>9. ASSUME NEW e \in execs, Begin(e) \/ Ask(e) \/ WayValidate(e) \/ WayFail(e)
                                 \/ Proceed(e) \/ Respond(e)
       PROVE  CcallTypes'
  BY <1>0, <1>9 DEF Begin, Ask, WayValidate, WayFail, Proceed, Respond, clientVars, CcallTypes
<1> QED
  BY <1>1, <1>2, <1>3, <1>4, <1>5, <1>6, <1>7, <1>8, <1>9 DEF Next

LEMMA PacketsStep ==
    ASSUME Types, PacketTypes, ServerInv, [Next]_vars
    PROVE  PacketTypes'
<1> USE RpcAssumption
<1>1. boot \in Boot /\ boot' \in Nat /\ boot <= boot'
  <2>1. boot \in Boot /\ boot \in Nat
    BY DEF Types, Boot
  <2>2. boot' = boot \/ boot' = boot + 1
    BY DEF Next, CallStart, Nocall, Timeout, CallEnd, CallOver, ClientReceive, WhoAreYou,
           ServerReceive, WrongBoot, ScallTimer, SctTimer, Crash, Begin, Ask, WayValidate,
           WayFail, Proceed, Respond, serverVars, vars
  <2> QED
    BY <2>1, <2>2
<1>2. ccall.seq \in Nat /\ ccall'.seq \in Nat /\ ccall.seq <= ccall'.seq
  <2>1. ccall.seq \in Nat
    BY DEF Types
  <2> QED
    BY <2>1, ClientStepOK DEF ClientStep
<1>3. SUFFICES \A p \in sent' : p \in sent \/ PacketOK(p, ccall'.seq, boot')
  <2>1. ASSUME NEW p \in sent PROVE PacketOK(p, ccall'.seq, boot')
    <3>1. PacketOK(p, ccall.seq, boot) /\ boot \in Nat
      BY DEF PacketTypes, Types, Boot
    <3> QED
      BY <1>1, <1>2, <3>1 DEF PacketOK
  <2> QED
    BY <1>3, <2>1 DEF PacketTypes
<1>4. CASE UNCHANGED sent
  BY <1>4
<1>5. CASE CallStart \/ Nocall \/ CallEnd
  <2>1. CcallTypes' /\ ccall'.boot \in 0 .. MaxBoots
    BY CcallStep DEF CcallTypes
  <2>2. \A p \in sent' : p \in sent \/ p = Header("request", ccall'.seq, ccall'.boot)
                                     \/ p = Header("quit", ccall'.seq, ccall'.boot)
    <3>1. CASE CallStart
      BY <3>1 DEF CallStart, Header, Packet
    <3>2. CASE Nocall
      BY <3>2 DEF Nocall, Send, clientVars
    <3>3. CASE CallEnd
      <4>1. ccall'.seq = ccall.seq /\ ccall'.boot = ccall.boot
        BY <3>3 DEF CallEnd, Types
      <4> QED
        BY <3>3, <4>1 DEF CallEnd, Send
    <3> QED
      BY <1>5, <3>1, <3>2, <3>3
  <2>3. ccall'.seq \in Call
    <3>1. CASE CallStart
      BY <3>1, <2>1 DEF CallStart, CcallTypes
    <3>2. CASE Nocall \/ CallEnd
      BY <3>2 DEF Types, Nocall, CallEnd, Waiting, clientVars
    <3> QED
      BY <1>5, <3>1, <3>2
  <2> QED
    BY <1>1, <1>2, <2>1, <2>2, <2>3 DEF CcallTypes, Header, Packet, PacketOK, Call
<1>6. ASSUME NEW e \in execs, Ask(e) \/ WayFail(e) \/ Respond(e)
      PROVE  \A p \in sent' : p \in sent \/ PacketOK(p, ccall'.seq, boot')
  <2>1. ccall' = ccall /\ boot' = boot
    BY <1>6 DEF Ask, WayFail, Respond, clientVars
  <2>2. \A p \in sent' :
            \/ p \in sent \/ p = Header("way", 0, boot)
            \/ /\ scall.state = "recv"
               /\ p \in {Header("wayFailed", scall.seq, boot),
                         Packet("response", scall.seq, boot, e.seq)}
    BY <1>6 DEF Ask, WayFail, Respond, Send
  <2>3. e.seq \in 0 .. MaxCalls /\ scall.seq <= ccall.seq /\ boot \in 0 .. MaxBoots
    BY <1>1 DEF Types, ServerInv, Boot, Call
  <2>4. scall.state = "recv" => scall.seq \in Call
    BY DEF Types, ServerInv
  <2> QED
    BY <1>1, <1>2, <2>1, <2>2, <2>3, <2>4 DEF Header, Packet, PacketOK, Call
<1> QED
  BY <1>4, <1>5, <1>6
     DEF Next, Timeout, CallOver, ClientReceive, WhoAreYou, ServerReceive, PingWorking,
         Request, Rerun, QuitReply, WrongBoot, ScallTimer, SctTimer, Crash, Begin,
         WayValidate, Proceed, serverVars, vars
-----------------------------------------------------------------------------
(* The history of the calls that were started. *)

LEMMA RunStep ==
    ASSUME [Next]_vars
    PROVE  ran' = ran \/ \E e \in execs : Runs(e)
<1>1. ASSUME NEW e \in execs, Begin(e) PROVE ran' = ran \/ Runs(e)
    BY <1>1 DEF Begin, Run, Runs, vars, clientVars
<1>2. ASSUME NEW e \in execs, Proceed(e) PROVE ran' = ran \/ Runs(e)
    BY <1>2 DEF Proceed, Run, Runs, vars, clientVars
<1> QED
    BY <1>1, <1>2
       DEF Next, CallStart, Nocall, Timeout, CallEnd, CallOver, ClientReceive, WhoAreYou,
           ServerReceive, WrongBoot, ScallTimer, SctTimer, Crash, Ask, WayValidate,
           WayFail, Respond, serverVars, vars

LEMMA RunAppends ==
    ASSUME Types, NEW e \in execs, Runs(e)
    PROVE  /\ ran' \in Seq([seq : NonIdem, boot : Boot])
           /\ Len(ran') = Len(ran) + 1
           /\ \A i \in DOMAIN ran : i \in DOMAIN ran' /\ ran'[i] = ran[i]
           /\ ran'[Len(ran) + 1] = [seq |-> e.seq, boot |-> boot]
           /\ Started' = Started \cup {[seq |-> e.seq, boot |-> boot]}
<1> DEFINE x == [seq |-> e.seq, boot |-> boot]
<1>1. x \in [seq : NonIdem, boot : Boot] /\ ran \in Seq([seq : NonIdem, boot : Boot])
    BY DEF Types, Runs
<1>2. ran' = Append(ran, x)
    BY DEF Runs
<1> HIDE DEF x
<1>3. /\ ran' \in Seq([seq : NonIdem, boot : Boot]) /\ Len(ran') = Len(ran) + 1
      /\ \A i \in 1 .. Len(ran) : ran'[i] = ran[i]
      /\ ran'[Len(ran) + 1] = x
    BY <1>1, <1>2, AppendProperties
<1>4. DOMAIN ran = 1 .. Len(ran) /\ DOMAIN ran' = 1 .. Len(ran) + 1 /\ Len(ran) \in Nat
    BY <1>1, <1>3
<1>5. Started' = Started \cup {x}
  <2>1. \A i \in DOMAIN ran' : i \in DOMAIN ran \/ i = Len(ran) + 1
    BY <1>4
  <2>2. DOMAIN ran \subseteq DOMAIN ran' /\ Len(ran) + 1 \in DOMAIN ran'
    BY <1>4
  <2> QED
    BY <1>3, <1>4, <2>1, <2>2 DEF Started
<1> QED
    BY <1>3, <1>4, <1>5 DEF x

LEMMA StartedTypes ==
    ASSUME Types
    PROVE  \A x \in Started : x \in [seq : NonIdem, boot : Boot]
<1>1. ran \in Seq([seq : NonIdem, boot : Boot]) /\ DOMAIN ran = 1 .. Len(ran)
    BY DEF Types
<1>2. \A i \in 1 .. Len(ran) : ran[i] \in [seq : NonIdem, boot : Boot]
    BY <1>1, ElementOfSeq
<1> QED
    BY <1>1, <1>2 DEF Started

LEMMA StartedKept ==
    ASSUME Types, [Next]_vars
    PROVE  Started \subseteq Started'
<1>1. CASE ran' = ran
    BY <1>1 DEF Started
<1>2. ASSUME NEW e \in execs, Runs(e) PROVE Started \subseteq Started'
    BY <1>2, RunAppends
<1> QED
    BY <1>1, <1>2, RunStep
-----------------------------------------------------------------------------
(* What goes together in the server. *)

ExecTypes ==
    execs \subseteq [seq : Call, stage : {"ready", "ask", "way", "relock", "run"},
                     orphan : BOOLEAN, answer : -1 .. MaxCalls]

\* An executor that goes on keeps its type, and so do the others.
LEMMA GoesTypes ==
    ASSUME ExecTypes, NEW e \in execs, NEW stage \in {"ready", "ask", "way", "relock", "run"},
           Goes(e, stage)
    PROVE  ExecTypes'
<1>1. -1 .. MaxCalls = {n \in Int : -1 <= n /\ n <= MaxCalls} /\ 0 \in -1 .. MaxCalls
    BY RpcAssumption
<1> HIDE DEF Goes
<1>2. [e EXCEPT !.stage = stage, !.answer = 0]
         \in [seq : Call, stage : {"ready", "ask", "way", "relock", "run"},
              orphan : BOOLEAN, answer : -1 .. MaxCalls]
    BY <1>1 DEF ExecTypes
<1> QED
    BY <1>2 DEF ExecTypes, Goes

LEMMA FewerTypes ==
    ASSUME ExecTypes, execs' \subseteq execs
    PROVE  ExecTypes'
BY DEF ExecTypes

LEMMA ExecTypesStep ==
    ASSUME Types, PacketTypes, [Next]_vars
    PROVE  ExecTypes'
<1>0. ExecTypes
    BY DEF Types, ExecTypes
<1>1. ASSUME NEW e \in execs, Begin(e) \/ Ask(e) \/ WayValidate(e) \/ WayFail(e)
                                 \/ Proceed(e) \/ Respond(e)
      PROVE  ExecTypes'
  <2>1. \/ execs' \subseteq execs
        \/ \E stage \in {"ready", "ask", "way", "relock", "run"} : Goes(e, stage)
    BY <1>1 DEF Begin, Ask, WayValidate, WayFail, Proceed, Respond, Run, EndOfCall
  <2> QED
    BY <1>0, <2>1, GoesTypes, FewerTypes
<1>2. CASE WhoAreYou
  <2>1. ccall.seq \in -1 .. MaxCalls /\ -1 \in -1 .. MaxCalls
    BY RpcAssumption DEF Types
  <2>2. \/ execs' = execs
        \/ \E e \in execs, n \in -1 .. MaxCalls :
              execs' = (execs \ {e}) \cup {[e EXCEPT !.answer = n]}
    BY <1>2, <2>1 DEF WhoAreYou
  <2> QED
    BY <1>0, <2>2 DEF ExecTypes
<1>3. CASE OrphanCall
  BY <1>0, <1>3 DEF OrphanCall, ExecTypes
<1>4. ASSUME NEW p \in sent, p.type = "request", NewCall(p)
      PROVE  ExecTypes'
  <2>1. p.seq \in Call /\ 0 \in -1 .. MaxCalls
    BY <1>4, RpcAssumption DEF PacketTypes, PacketOK
  <2>2. [seq |-> p.seq, stage |-> "ready", orphan |-> FALSE, answer |-> 0]
           \in [seq : Call, stage : {"ready", "ask", "way", "relock", "run"},
                orphan : BOOLEAN, answer : -1 .. MaxCalls]
    BY <2>1
  <2>3. \/ execs' = execs
        \/ execs' = execs \cup {[seq |-> p.seq, stage |-> "ready", orphan |-> FALSE,
                                 answer |-> 0]}
    BY <1>4, Zenon DEF NewCall
  <2> QED
    BY <1>0, <2>2, <2>3 DEF ExecTypes
<1>5. CASE execs' = execs \/ execs' = {}
  BY <1>0, <1>5, FewerTypes
<1>6. CASE ServerReceive
  <2>1. ASSUME NEW p \in sent, Request(p) PROVE ExecTypes'
    BY <2>1, <1>3, <1>4, <1>5 DEF Request
  <2> QED
    BY <1>6, <2>1, <1>3, <1>5 DEF ServerReceive, PingWorking, Rerun, QuitReply
<1>7. CASE ScallTimer
  BY <1>3, <1>5, <1>7 DEF ScallTimer
<1> QED
  BY <1>1, <1>2, <1>5, <1>6, <1>7
     DEF Next, CallStart, Nocall, Timeout, CallEnd, CallOver, ClientReceive, WrongBoot,
         SctTimer, Crash, serverVars, vars

ScteTypes == scte \in [live : BOOLEAN, high : 0 .. MaxCalls, validated : BOOLEAN]
ScallTypes ==
    /\ scall \in [seq : 0 .. MaxCalls, state : {"none", "idle", "recv", "final"},
                  needs : BOOLEAN]
    /\ scall.state = "none" => scall = NoScall
    /\ scall.state # "none" => scall.seq \in Call

\* The connection of a call that is new, and of one that was backed out.
LEMMA ScteOf ==
    ASSUME ScteTypes, NEW n \in Call, NEW h \in 0 .. MaxCalls, scte' = [Scte(n) EXCEPT !.high = h]
    PROVE  /\ ScteTypes'
           /\ scte'.live = TRUE /\ scte'.high = h
           /\ scte.live => scte'.validated = scte.validated
           /\ ~scte.live => scte'.validated = FALSE
<1>1. CASE scte.live
    BY <1>1 DEF Scte, ScteTypes
<1>2. CASE ~scte.live
  <2>1. scte' = [live |-> TRUE, high |-> h, validated |-> FALSE]
    BY <1>2 DEF Scte, NoScte
  <2>2. [live |-> TRUE, high |-> h, validated |-> FALSE]
           \in [live : BOOLEAN, high : 0 .. MaxCalls, validated : BOOLEAN]
    OBVIOUS
  <2>3. ScteTypes'
    BY <2>1, <2>2, Zenon DEF ScteTypes
  <2> QED
    BY <1>2, <2>1, <2>3
<1> QED
    BY <1>1, <1>2

LEMMA NewCallTable ==
    ASSUME Types, PacketTypes, NEW p \in sent, p.type = "request", NewCall(p)
    PROVE  /\ ScteTypes'
           /\ scte'.live = TRUE /\ scte'.high \in {p.seq, p.seq - 1}
           /\ scte.live => scte'.validated = scte.validated
           /\ ~scte.live => scte'.validated = FALSE
           /\ scall'.seq = p.seq /\ scall'.state \in {"recv", "idle"}
           /\ scall'.needs = (p.boot = Unknown) /\ ScallTypes'
           /\ \/ execs' = execs \cup {[seq |-> p.seq, stage |-> "ready", orphan |-> FALSE,
                                       answer |-> 0]}
                 /\ scte'.high = p.seq
              \/ execs' = execs /\ scall'.state = "idle"
<1>1. p.seq \in Call /\ p.seq \in 0 .. MaxCalls /\ p.seq - 1 \in 0 .. MaxCalls
    BY RpcAssumption DEF PacketTypes, PacketOK, Call
<1>2. ScteTypes
    BY DEF Types, ScteTypes
<1>3. \/ scte' = [Scte(p.seq) EXCEPT !.high = p.seq]
      \/ scte' = [Scte(p.seq) EXCEPT !.high = p.seq - 1]
    BY DEF NewCall
<1>4. /\ scall'.seq = p.seq /\ scall'.state \in {"recv", "idle"}
      /\ scall'.needs = (p.boot = Unknown) /\ ScallTypes'
  <2>1. PICK s \in {"recv", "idle"} :
           scall' = [seq |-> p.seq, state |-> s, needs |-> p.boot = Unknown]
    BY DEF NewCall
  <2>2. (p.boot = Unknown) \in BOOLEAN
    OBVIOUS
  <2> HIDE DEF Unknown
  <2>3. scall' \in [seq : 0 .. MaxCalls, state : {"none", "idle", "recv", "final"},
                   needs : BOOLEAN]
    BY <1>1, <2>1, <2>2, Zenon
  <2>4. scall'.state # "none" /\ scall'.seq \in Call
    BY <1>1, <2>1
  <2> QED
    BY <2>1, <2>3, <2>4 DEF ScallTypes
<1>5. CASE scte' = [Scte(p.seq) EXCEPT !.high = p.seq] 
            /\ execs' = execs \cup {[seq |-> p.seq, stage |-> "ready", orphan |-> FALSE,
                                     answer |-> 0]}
  <2>1. /\ ScteTypes' /\ scte'.live = TRUE /\ scte'.high = p.seq
        /\ scte.live => scte'.validated = scte.validated
        /\ ~scte.live => scte'.validated = FALSE
    BY <1>1, <1>2, <1>5, ScteOf
  <2> QED
    BY <1>4, <1>5, <2>1, Zenon
<1>6. CASE scte' = [Scte(p.seq) EXCEPT !.high = p.seq - 1] /\ execs' = execs
            /\ scall'.state = "idle"
  <2>1. /\ ScteTypes' /\ scte'.live = TRUE /\ scte'.high = p.seq - 1
        /\ scte.live => scte'.validated = scte.validated
        /\ ~scte.live => scte'.validated = FALSE
    BY <1>1, <1>2, <1>6, ScteOf
  <2> QED
    BY <1>4, <1>6, <2>1, Zenon
<1>7. \/ /\ scte' = [Scte(p.seq) EXCEPT !.high = p.seq]
         /\ execs' = execs \cup {[seq |-> p.seq, stage |-> "ready", orphan |-> FALSE,
                                  answer |-> 0]}
      \/ /\ scte' = [Scte(p.seq) EXCEPT !.high = p.seq - 1] /\ execs' = execs
         /\ scall'.state = "idle"
  <2>1. scall' = [seq |-> p.seq, state |-> "idle", needs |-> p.boot = Unknown]
           => scall'.state = "idle"
    OBVIOUS
  <2> QED
    BY <2>1, Zenon DEF NewCall
<1> QED
    BY <1>5, <1>6, <1>7

\* Whoever ends a call is the only executor of a call handle in use.
LEMMA Working ==
    ASSUME ServerInv, OwnCall, NEW e \in execs, e.stage # "way" \/ ~e.orphan
    PROVE  ~e.orphan /\ scall.state = "recv" /\ scall.seq = e.seq /\ scte.live
BY DEF ServerInv, OwnCall, ExecOK

LEMMA TableStep ==
    ASSUME Types, PacketTypes, ServerInv, OwnCall, [Next]_vars
    PROVE  ScteTypes' /\ ScallTypes' /\ boot' \in Boot
<1>0. ScteTypes /\ ScallTypes
    BY DEF Types, ScteTypes, ScallTypes, ServerInv
<1>1. boot' \in Boot
  <2>1. CASE Crash
    BY <2>1, RpcAssumption DEF Crash, Types, Boot
  <2>2. CASE boot' = boot
    BY <2>2 DEF Types
  <2> QED
    BY <2>1, <2>2
       DEF Next, CallStart, Nocall, Timeout, CallEnd, CallOver, ClientReceive, WhoAreYou,
           ServerReceive, WrongBoot, ScallTimer, SctTimer, Begin, Ask, WayValidate,
           WayFail, Proceed, Respond, serverVars, vars
<1>2. scall' = scall => ScallTypes'
    BY <1>0 DEF ScallTypes
<1>3. scte' = scte \/ scte' = NoScte => ScteTypes'
  <2>1. NoScte \in [live : BOOLEAN, high : 0 .. MaxCalls, validated : BOOLEAN]
    BY RpcAssumption DEF NoScte
  <2> QED
    BY <1>0, <2>1 DEF ScteTypes
<1>4. ASSUME NEW s \in {"idle", "final"}, scall' = [scall EXCEPT !.state = s],
             scall.state # "none"
      PROVE  ScallTypes'
    BY <1>0, <1>4 DEF ScallTypes
<1>5. scall' = NoScall => ScallTypes'
    BY RpcAssumption DEF ScallTypes, NoScall
<1>6. ASSUME NEW b \in BOOLEAN, scall' = [scall EXCEPT !.needs = b],
             b = FALSE \/ scall.state # "none"
      PROVE  ScallTypes'
  <2>1. scall' \in [seq : 0 .. MaxCalls, state : {"none", "idle", "recv", "final"},
                   needs : BOOLEAN]
    BY <1>0, <1>6, Zenon DEF ScallTypes
  <2>2. scall'.state = scall.state /\ scall'.seq = scall.seq
    BY <1>0, <1>6 DEF ScallTypes
  <2>3. ASSUME scall.state = "none" PROVE scall' = NoScall
    <3>1. scall' = [NoScall EXCEPT !.needs = FALSE]
      BY <1>0, <1>6, <2>3, Zenon DEF ScallTypes
    <3> QED
      BY <3>1 DEF NoScall
  <2> QED
    BY <1>0, <2>1, <2>2, <2>3 DEF ScallTypes
<1>7. ASSUME NEW e \in execs, Begin(e) \/ Ask(e) \/ WayFail(e) \/ Proceed(e) \/ Respond(e)
      PROVE  ScteTypes' /\ ScallTypes'
  <2>1. scte' = scte
    BY <1>7 DEF Begin, Ask, WayFail, Proceed, Respond
  <2>2. scall' = scall \/ (/\ scall.state # "none"
                          /\ \E s \in {"idle", "final"} : scall' = [scall EXCEPT !.state = s])
    BY <1>7, Working DEF Begin, Ask, WayFail, Proceed, Respond, Run, EndOfCall
  <2> QED
    BY <1>2, <1>3, <1>4, <2>1, <2>2
<1>8. ASSUME NEW e \in execs, WayValidate(e)
      PROVE  ScteTypes' /\ ScallTypes'
  <2>1. PICK h \in 0 .. MaxCalls : scte' = [scte EXCEPT !.validated = TRUE, !.high = h]
    <3>1. e.answer \in 0 .. MaxCalls
      BY <1>8, RpcAssumption DEF WayValidate, Types
    <3>2. scte.high \in 0 .. MaxCalls
      BY <1>0 DEF ScteTypes
    <3> QED
      BY <1>8, <3>1, <3>2, Zenon DEF WayValidate
  <2>2. ScteTypes'
    BY <1>0, <2>1 DEF ScteTypes
  <2> QED
    BY <1>6, <1>8, <2>2 DEF WayValidate
<1>9. ASSUME NEW p \in sent, Request(p)
      PROVE  ScteTypes' /\ ScallTypes'
  <2>1. CASE NewCall(p)
    BY <1>9, <2>1, NewCallTable DEF Request
  <2>2. CASE scte' = scte /\ scall' = [scall EXCEPT !.needs = (p.boot = Unknown)]
                          /\ StateFor(p.seq) = "recv"
    <3>1. scall.state # "none"
      BY <2>2 DEF StateFor, Usable
    <3>2. (p.boot = Unknown) \in BOOLEAN
      OBVIOUS
    <3> QED
      BY <1>3, <1>6, <2>2, <3>1, <3>2
  <2>3. CASE scte' = scte /\ OrphanCall
    BY <1>3, <1>5, <2>3 DEF OrphanCall
  <2> QED
    BY <1>9, <2>1, <2>2, <2>3 DEF Request
<1>10. CASE ServerReceive
    BY <1>1, <1>2, <1>3, <1>5, <1>9, <1>10
       DEF ServerReceive, PingWorking, Rerun, QuitReply, OrphanCall
<1>11. CASE ScallTimer
  <2>1. scte' = scte /\ (scall' = NoScall \/ (/\ scall.state # "none"
                                             /\ scall' = [scall EXCEPT !.state = "idle"]))
    BY <1>11 DEF ScallTimer, OrphanCall
  <2> QED
    BY <1>1, <1>3, <1>4, <1>5, <2>1
<1>12. CASE SctTimer \/ Crash
    BY <1>1, <1>2, <1>3, <1>5, <1>12 DEF SctTimer, Crash
<1>13. CASE UNCHANGED <<scte, scall>>
    BY <1>1, <1>2, <1>3, <1>13
<1> QED
    BY <1>1, <1>7, <1>8, <1>10, <1>11, <1>12, <1>13
       DEF Next, CallStart, Nocall, Timeout, CallEnd, CallOver, ClientReceive, WhoAreYou,
           WrongBoot, serverVars, vars

-----------------------------------------------------------------------------
(* A call handle is taken from its executor only in a race. *)

\* An executor that goes on has the call it had.
LEMMA GoesOwn ==
    ASSUME ExecTypes, OwnCall, NEW e \in execs, NEW stage, Goes(e, stage),
           scall'.state = scall.state, scall'.seq = scall.seq
    PROVE  OwnCall'
<1> DEFINE n == [e EXCEPT !.stage = stage, !.answer = 0]
<1>1. n.seq = e.seq /\ n.orphan = e.orphan
    BY DEF ExecTypes
<1>2. execs' = (execs \ {e}) \cup {n}
    BY DEF Goes
<1> QED
    BY <1>1, <1>2 DEF OwnCall

\* Executors that are gone or orphaned have no call.
LEMMA FewerOwn ==
    ASSUME OwnCall, execs' \subseteq execs,
           \/ scall'.state = scall.state /\ scall'.seq = scall.seq
           \/ \A e \in execs' : e.orphan
    PROVE  OwnCall'
BY DEF OwnCall

LEMMA OrphansOwn ==
    ASSUME ExecTypes, OrphanCall
    PROVE  OwnCall'
<1>1. ASSUME NEW f \in execs' PROVE f.orphan
  <2>1. PICK e \in execs : f = [e EXCEPT !.orphan = TRUE]
    BY DEF OrphanCall
  <2> QED
    BY <2>1 DEF ExecTypes
<1> QED
    BY <1>1 DEF OwnCall

LEMMA AloneEnds ==
    ASSUME ServerInv, OwnCall, NEW e \in execs, ~e.orphan, execs' = execs \ {e}
    PROVE  OwnCall'
BY FewerOwn DEF ServerInv

LEMMA ExecOwn ==
    ASSUME Types, ServerInv, OwnCall, NEW e \in execs,
           Begin(e) \/ Ask(e) \/ WayFail(e) \/ Proceed(e) \/ Respond(e) \/ WayValidate(e)
    PROVE  OwnCall'
<1>0. ExecTypes /\ ExecOK(e)
    BY DEF Types, ExecTypes, ServerInv
<1>1. CASE e.orphan
  <2>1. e.stage = "way"
    BY <1>0, <1>1 DEF ExecOK
  <2>2. execs' = execs \ {e} /\ scall'.seq = scall.seq /\ scall'.state = scall.state
    BY <1>1, <2>1 DEF Begin, Ask, WayFail, Proceed, Respond, WayValidate, Types
  <2> QED
    BY <2>2, FewerOwn
<1>2. CASE ~e.orphan
  <2>1. \/ execs' = execs \ {e}
        \/ /\ \E stage \in {"ask", "way", "relock", "run"} : Goes(e, stage)
           /\ scall'.seq = scall.seq /\ scall'.state = scall.state
    BY <1>2 DEF Begin, Ask, WayFail, Proceed, Respond, WayValidate, Run, EndOfCall, Types
  <2> QED
    BY <1>0, <1>2, <2>1, AloneEnds, GoesOwn
<1> QED
    BY <1>1, <1>2

LEMMA NewOwn ==
    ASSUME Types, PacketTypes, OwnCall, races' = {}, NEW p \in sent, NewCall(p)
    PROVE  OwnCall'
<1> DEFINE started == [seq |-> p.seq, stage |-> "ready", orphan |-> FALSE, answer |-> 0]
           handle  == [seq |-> p.seq, state |-> "recv", needs |-> p.boot = Unknown]
<1>1. \A e \in execs : e.orphan
    BY DEF NewCall, Race
<1>2. execs' = execs \/ (scall' = handle /\ execs' = execs \cup {started})
    BY Zenon DEF NewCall
<1>3. CASE execs' = execs
    BY <1>1, <1>3 DEF OwnCall
<1>4. CASE scall' = handle /\ execs' = execs \cup {started}
  <2>1. scall'.seq = p.seq /\ scall'.state = "recv"
    BY <1>4
  <2>2. started.seq = p.seq
    OBVIOUS
  <2> HIDE DEF started, handle
  <2>3. ASSUME NEW e \in execs', ~e.orphan PROVE e.seq = p.seq
    <3>1. CASE e \in execs
      BY <1>1, <2>3, <3>1
    <3>2. CASE e = started
      BY <2>2, <3>2
    <3> QED
      BY <1>4, <2>3, <3>1, <3>2
  <2> QED
    BY <2>1, <2>3 DEF OwnCall
<1> HIDE DEF started, handle
<1> QED
    BY <1>2, <1>3, <1>4

\* Only sct_new_call takes a call handle from an executor, and that is a race.
LEMMA OwnCallStep ==
    ASSUME Types, PacketTypes, ServerInv, OwnCall, [Next]_vars, races' = {}
    PROVE  OwnCall'
<1>0. ExecTypes
    BY DEF Types, ExecTypes
<1>1. CASE execs' = execs /\ scall'.state = scall.state /\ scall'.seq = scall.seq
    BY <1>1, FewerOwn
<1>2. CASE WhoAreYou
  <2>1. \/ execs' = execs
        \/ \E e \in execs, n \in Int : execs' = (execs \ {e}) \cup {[e EXCEPT !.answer = n]}
    <3>1. PICK p \in sent :
            \/ execs' = execs
            \/ \E e \in execs : execs' = (execs \ {e})
                  \cup {[e EXCEPT !.answer = IF ccall.state # "idle" /\ RightBoot(p.boot)
                                             THEN ccall.seq ELSE -1]}
      BY <1>2, Zenon DEF WhoAreYou
    <3>2. (IF ccall.state # "idle" /\ RightBoot(p.boot) THEN ccall.seq ELSE -1) \in Int
      BY DEF Types, Call
    <3> QED
      BY <3>1, <3>2, Zenon
  <2>2. ASSUME NEW f \in execs' PROVE \E e \in execs : e.orphan = f.orphan /\ e.seq = f.seq
    BY <1>0, <2>1 DEF ExecTypes
  <2>3. scall' = scall
    BY <1>2 DEF WhoAreYou
  <2> QED
    BY <2>2, <2>3 DEF OwnCall
<1>3. CASE ServerReceive
  <2>1. ASSUME NEW p \in sent, Request(p) PROVE OwnCall'
    <3>1. CASE scall' = [scall EXCEPT !.needs = (p.boot = Unknown)] /\ execs' = execs
      <4>1. scall'.state = scall.state /\ scall'.seq = scall.seq
        BY <3>1 DEF Types
      <4> QED
        BY <1>1, <3>1, <4>1
    <3> QED
      BY <1>0, <2>1, <3>1, NewOwn, OrphansOwn DEF Request
  <2> QED
    BY <1>0, <1>1, <1>3, <2>1, OrphansOwn DEF ServerReceive, PingWorking, Rerun, QuitReply
<1>4. CASE ScallTimer
  <2>1. CASE scall.state = "final" /\ execs' = execs
    BY <2>1 DEF OwnCall
  <2> QED
    BY <1>0, <1>4, <2>1, OrphansOwn DEF ScallTimer
<1>5. CASE SctTimer \/ Crash
    BY <1>5 DEF SctTimer, Crash, OwnCall
<1>6. ASSUME NEW e \in execs, Begin(e) \/ Ask(e) \/ WayFail(e) \/ Proceed(e) \/ Respond(e)
                                 \/ WayValidate(e)
      PROVE  OwnCall'
    BY <1>6, ExecOwn
<1> QED
    BY <1>1, <1>2, <1>3, <1>4, <1>5, <1>6
       DEF Next, CallStart, Nocall, Timeout, CallEnd, CallOver, ClientReceive,
           WrongBoot, serverVars, vars

\* The timer lets go of no call handle that an executor has.
LEMMA TimerExecs ==
    ASSUME Types, ServerInv, OwnCall, ScallTimer
    PROVE  execs' = execs
<1>1. CASE scall.state = "idle" /\ OrphanCall
  <2>1. \A e \in execs : e.orphan = TRUE /\ e.stage = "way"
    BY <1>1 DEF OwnCall, ServerInv, ExecOK, Types
  <2>2. \A e \in execs : [e EXCEPT !.orphan = TRUE] = e
    BY <2>1 DEF Types
  <2> QED
    BY <1>1, <2>1, <2>2 DEF OrphanCall
<1> QED
    BY <1>1 DEF ScallTimer
-----------------------------------------------------------------------------
(* The server's records. *)

ServerHyp ==
    Types /\ PacketTypes /\ ServerInv /\ OwnCall /\ OwnCall' /\ [Next]_vars

\* An executor that an action leaves alone.
LEMMA SameExec ==
    ASSUME ServerHyp, boot' = boot, NEW e \in execs,
           scte.validated => scte'.validated, e.orphan \/ scte'.high >= scte.high
    PROVE  ExecOK(e)'
<1>1. ExecOK(e) /\ Started \subseteq Started' /\ ccall.seq <= ccall'.seq
    BY StartedKept, ClientStepOK DEF ServerHyp, ServerInv, ClientStep, Types
<1>2. /\ e.seq \in Nat /\ e.answer \in Int /\ ccall.seq \in Nat /\ ccall'.seq \in Nat
      /\ scte.high \in Nat /\ scte'.high \in Nat
    BY TableStep, CcallStep DEF ServerHyp, Types, CcallTypes, ScteTypes, Call
<1> QED
    BY <1>1, <1>2 DEF ExecOK

\* The executors when one of them, which has its call, goes on.
LEMMA GoesOn ==
    ASSUME ServerHyp, boot' = boot, NEW e \in execs, ~e.orphan,
           NEW stage \in {"ready", "ask", "way", "relock", "run"}, Goes(e, stage),
           scte.validated => scte'.validated, scte'.high >= scte.high,
           stage \in {"ask", "way", "relock"} => e.seq \in NonIdem,
           stage = "relock" => scte'.validated,
           stage = "run" /\ e.seq \in NonIdem => [seq |-> e.seq, boot |-> boot] \in Started'
    PROVE  /\ \A f, g \in execs' : ~f.orphan /\ ~g.orphan => f = g
           /\ \A f \in execs' : ExecOK(f)'
<1> DEFINE n == [e EXCEPT !.stage = stage, !.answer = 0]
<1>1. execs' = (execs \ {e}) \cup {n}
    BY DEF Goes
<1>2. n.seq = e.seq /\ n.stage = stage /\ n.answer = 0 /\ ~n.orphan
    BY DEF ServerHyp, Types
<1>3. ExecOK(e)'
    BY SameExec
<1>4. e.seq \in Nat /\ ccall'.seq \in Nat
    BY CcallStep DEF ServerHyp, Types, CcallTypes, Call
<1>5. ExecOK(n)'
    BY <1>2, <1>3, <1>4 DEF ExecOK
<1>6. \A f \in execs \ {e} : f.orphan
    BY DEF ServerHyp, ServerInv
<1>7. \A f \in execs : ExecOK(f)'
    BY SameExec
<1> QED
    BY <1>1, <1>5, <1>6, <1>7

\* The executors when nobody has a call that had none before.
LEMMA FewerExecs ==
    ASSUME ServerHyp, boot' = boot, execs' \subseteq execs,
           scte.validated => scte'.validated,
           scte'.high >= scte.high \/ \A e \in execs' : e.orphan
    PROVE  /\ \A f, g \in execs' : ~f.orphan /\ ~g.orphan => f = g
           /\ \A f \in execs' : ExecOK(f)'
<1>1. \A f \in execs' : ExecOK(f)'
    BY SameExec
<1> QED
    BY <1>1 DEF ServerHyp, ServerInv

LEMMA OrphanExecs ==
    ASSUME ServerHyp, boot' = boot, scte' = scte, OrphanCall
    PROVE  /\ \A f \in execs' : f.orphan
           /\ \A f \in execs' : ExecOK(f)'
<1>1. ASSUME NEW f \in execs' PROVE f.orphan /\ ExecOK(f)'
  <2>1. PICK e \in execs : e.stage = "way" /\ f = [e EXCEPT !.orphan = TRUE]
    BY DEF OrphanCall
  <2>2. /\ f.seq = e.seq /\ f.answer = e.answer /\ f.stage = "way" /\ f.orphan
    BY <2>1 DEF ServerHyp, Types
  <2>3. ExecOK(e)'
    BY SameExec DEF ServerHyp, Types
  <2> QED
    BY <2>1, <2>2, <2>3 DEF ExecOK
<1> QED
    BY <1>1

\* The condition of do_request for a new call.
Fits(p) ==
    \/ p.seq = Scte(p.seq).high /\ StateFor(p.seq) = "idle" /\ p.seq \notin NonIdem
    \/ p.seq > Scte(p.seq).high /\ StateFor(p.seq) \in {"idle", "final"}

\* A new call has no executor of another call beside it, unless that was orphaned.
LEMMA NewCallAlone ==
    ASSUME ServerHyp, NEW p \in sent, p.type = "request", Fits(p), NewCall(p)
    PROVE  \A e \in execs : e.orphan
<1> SUFFICES ASSUME NEW e \in execs, ~e.orphan PROVE FALSE
    OBVIOUS
<1>1. scall.state = "recv" /\ scall.seq = e.seq /\ scte.live /\ scte.high >= e.seq
    BY Working DEF ServerHyp, ServerInv, ExecOK
<1>2. e \in execs'
    BY NewCallTable DEF ServerHyp
<1>3. scall'.seq = e.seq /\ scall'.seq = p.seq
    BY <1>2, NewCallTable DEF ServerHyp, OwnCall
<1>4. Scte(p.seq) = scte
    BY <1>1 DEF Scte
<1>5. p.seq = scte.high
    BY <1>1, <1>3, <1>4 DEF Fits, ServerHyp, Types, Call
<1>6. StateFor(p.seq) = "recv"
    BY <1>1, <1>3, <1>5 DEF StateFor, Usable, ServerHyp, Types, Call
<1> QED
    BY <1>6 DEF Fits

LEMMA NewCallHigh ==
    ASSUME ServerHyp, NEW p \in sent, p.type = "request", Fits(p), NewCall(p)
    PROVE  /\ p.seq >= scte.high
           /\ p.seq \in NonIdem => p.seq > scte.high
           /\ scte'.high <= p.seq
           /\ p.seq \in Call /\ p.seq <= ccall.seq
<1>1. scte'.high <= p.seq /\ p.seq \in Call /\ p.seq <= ccall.seq
  <2>1. p.seq \in Call /\ p.seq \in Nat /\ p.seq <= ccall.seq
    BY DEF ServerHyp, PacketTypes, PacketOK, Call
  <2>2. scte'.high \in {p.seq, p.seq - 1}
    BY NewCallTable DEF ServerHyp
  <2> QED
    BY <2>1, <2>2
<1>2. CASE scte.live
    BY <1>1, <1>2 DEF Fits, Scte, ServerHyp, Types, Call
<1>3. CASE ~scte.live
    BY <1>1, <1>3, RpcAssumption DEF ServerHyp, ServerInv, NoScte, Call
<1> QED
    BY <1>1, <1>2, <1>3

\* The parts of ServerInv that executors have no part in.
TableInv ==
    /\ ~scte.live => scte = NoScte /\ scall = NoScall /\ execs = {}
    /\ scte.high <= ccall.seq /\ scall.seq <= ccall.seq

ExecsInv ==
    /\ \A e, f \in execs : ~e.orphan /\ ~f.orphan => e = f
    /\ \A e \in execs : ExecOK(e)

LEMMA ServerFromParts ==
    ASSUME ServerHyp, TableInv', ExecsInv'
    PROVE  ServerInv'
BY TableStep DEF ServerHyp, ServerInv, TableInv, ExecsInv, ScallTypes

LEMMA TableKept ==
    ASSUME ServerHyp,
           scte' = scte \/ (scte'.live /\ scte'.high <= ccall.seq),
           scall' = NoScall \/ (scte.live /\ scall'.seq = scall.seq) \/ scall' = scall,
           execs = {} => execs' = {}
    PROVE  TableInv'
<1>1. /\ ccall.seq \in Nat /\ ccall'.seq \in Nat /\ ccall.seq <= ccall'.seq
      /\ scte.high \in Nat /\ scall.seq \in Nat /\ scte'.high \in Nat /\ scall'.seq \in Nat
    BY TableStep, CcallStep, ClientStepOK
       DEF ServerHyp, Types, CcallTypes, ScteTypes, ScallTypes, ClientStep
<1>2. scte.high <= ccall.seq /\ scall.seq <= ccall.seq
    BY DEF ServerHyp, ServerInv
<1>3. scte'.high <= ccall'.seq
    BY <1>1, <1>2
<1>4. scall'.seq <= ccall'.seq
    BY <1>1, <1>2 DEF NoScall
<1>5. ~scte'.live => scte' = NoScte /\ scall' = NoScall /\ execs' = {}
    BY DEF ServerHyp, ServerInv
<1> QED
    BY <1>3, <1>4, <1>5 DEF TableInv

LEMMA ExecServerStep ==
    ASSUME ServerHyp, NEW e \in execs,
           Begin(e) \/ Ask(e) \/ WayValidate(e) \/ WayFail(e) \/ Proceed(e) \/ Respond(e)
    PROVE  ServerInv'
<1>1. /\ boot' = boot /\ scall'.seq = scall.seq /\ scte.live
      /\ execs = {} => execs' = {}
  <2>1. scall'.seq = scall.seq
    BY DEF Begin, Ask, WayValidate, WayFail, Proceed, Respond, EndOfCall, Run, ServerHyp, Types
  <2> QED
    BY <2>1 DEF Begin, Ask, WayValidate, WayFail, Proceed, Respond, ServerHyp, ServerInv
<1>2. TableInv'
  <2>1. CASE scte' = scte
    BY <1>1, <2>1, TableKept
  <2>2. CASE WayValidate(e)
    <3>1. scte'.live /\ scte'.high <= ccall.seq
      BY <1>1, <2>2 DEF WayValidate, ServerHyp, Types, ServerInv, ExecOK
    <3> QED
      BY <1>1, <3>1, TableKept
  <2> QED
    BY <2>1, <2>2 DEF Begin, Ask, WayFail, Proceed, Respond
<1> SUFFICES ExecsInv'
    BY <1>2, ServerFromParts
<1>3. scte.high \in Nat
    BY DEF ServerHyp, Types
<1>4. ASSUME execs' \subseteq execs, scte' = scte
      PROVE  ExecsInv'
    BY <1>1, <1>3, <1>4, FewerExecs DEF ExecsInv
<1>5. ASSUME Run(e), scte' = scte, e.stage # "way"
      PROVE  ExecsInv'
  <2>1. ~e.orphan /\ Goes(e, "run")
    BY <1>5, Working DEF ServerHyp, Run
  <2>2. e.seq \in NonIdem => [seq |-> e.seq, boot |-> boot] \in Started'
    <3> SUFFICES ASSUME e.seq \in NonIdem PROVE [seq |-> e.seq, boot |-> boot] \in Started'
      OBVIOUS
    <3> DEFINE x == [seq |-> e.seq, boot |-> boot]
    <3>1. ran' = Append(ran, x) /\ x \in [seq : NonIdem, boot : Boot]
          /\ ran \in Seq([seq : NonIdem, boot : Boot])
      BY <1>5 DEF Run, ServerHyp, Types
    <3> HIDE DEF x
    <3>2. Len(ran) \in Nat /\ Len(ran') = Len(ran) + 1 /\ ran'[Len(ran) + 1] = x
          /\ DOMAIN ran' = 1 .. Len(ran')
      BY <3>1, AppendProperties
    <3>3. Len(ran) + 1 \in DOMAIN ran'
      BY <3>2
    <3> QED
      BY <3>2, <3>3 DEF Started, x
  <2> QED
    BY <1>1, <1>3, <1>5, <2>1, <2>2, GoesOn DEF ExecsInv
<1>6. CASE Begin(e)
  <2>1. scte' = scte
    BY <1>6 DEF Begin
  <2>2. CASE Goes(e, "ask") /\ e.seq \in NonIdem
    <3>1. ~e.orphan
      BY <1>6, Working DEF Begin, ServerHyp
    <3>2. (scte.validated => scte'.validated) /\ scte'.high >= scte.high
      BY <1>3, <2>1
    <3> QED
      BY <1>1, <2>2, <3>1, <3>2, GoesOn DEF ExecsInv
  <2> QED
    BY <1>4, <1>5, <1>6, <2>1, <2>2 DEF Begin, EndOfCall
<1>7. CASE Ask(e)
  <2>1. scte' = scte /\ e.seq \in NonIdem
    BY <1>7 DEF Ask, ServerHyp, ServerInv, ExecOK
  <2>2. CASE (Goes(e, "relock") /\ IsWayValidated) \/ Goes(e, "way")
    <3>1. ~e.orphan
      BY <1>7, Working DEF Ask, ServerHyp
    <3>2. (scte.validated => scte'.validated) /\ scte'.high >= scte.high
      BY <1>3, <2>1
    <3>3. CASE Goes(e, "relock") /\ scte'.validated
      BY <1>1, <2>1, <3>1, <3>2, <3>3, GoesOn DEF ExecsInv
    <3>4. CASE Goes(e, "way")
      BY <1>1, <2>1, <3>1, <3>2, <3>4, GoesOn DEF ExecsInv
    <3> QED
      BY <2>1, <2>2, <3>3, <3>4 DEF IsWayValidated
  <2> QED
    BY <1>4, <1>7, <2>1, <2>2 DEF Ask, EndOfCall
<1>8. CASE WayValidate(e)
  <2>1. scte'.validated /\ scte'.high >= scte.high
    BY <1>3, <1>8 DEF WayValidate, ServerHyp, Types
  <2>2. CASE execs' = execs \ {e}
    BY <1>1, <2>1, <2>2, FewerExecs DEF ExecsInv
  <2>3. CASE Goes(e, "relock") /\ ~e.orphan
    BY <1>1, <1>8, <2>1, <2>3, GoesOn DEF ExecsInv, WayValidate, ServerHyp, ServerInv, ExecOK
  <2> QED
    BY <1>8, <2>2, <2>3 DEF WayValidate
<1>9. CASE WayFail(e)
    BY <1>4, <1>9 DEF WayFail, EndOfCall
<1>10. CASE Proceed(e)
    BY <1>4, <1>5, <1>10 DEF Proceed, EndOfCall
<1>11. CASE Respond(e)
    BY <1>4, <1>11 DEF Respond, EndOfCall
<1> QED
    BY <1>6, <1>7, <1>8, <1>9, <1>10, <1>11

LEMMA RequestServerStep ==
    ASSUME ServerHyp, boot' = boot, NEW p \in sent, Request(p)
    PROVE  ServerInv'
<1>0. scte.high \in Nat /\ p.type = "request"
    BY DEF ServerHyp, Types, Request
<1>1. CASE /\ StateFor(p.seq) = "recv" /\ scte' = scte /\ execs' = execs
           /\ scall' = [scall EXCEPT !.needs = (p.boot = Unknown)]
  <2>1. scall'.seq = scall.seq /\ scte.live
    BY <1>1 DEF StateFor, Usable, ServerHyp, Types, ServerInv, NoScall
  <2> QED
    BY <1>0, <1>1, <2>1, TableKept, FewerExecs, ServerFromParts DEF ExecsInv
<1>2. CASE OrphanCall /\ scte' = scte
  <2>1. TableInv'
    BY <1>2, TableKept DEF OrphanCall
  <2> QED
    BY <1>2, <2>1, OrphanExecs, ServerFromParts DEF ExecsInv
<1>3. CASE Fits(p) /\ NewCall(p)
  <2> DEFINE n == [seq |-> p.seq, stage |-> "ready", orphan |-> FALSE, answer |-> 0]
  <2>1. /\ p.seq \in Call /\ p.seq <= ccall.seq /\ scte'.high <= p.seq
        /\ scte'.live /\ scall'.seq = p.seq
    BY <1>0, <1>3, NewCallHigh, NewCallTable DEF ServerHyp
  <2>2. /\ ccall.seq \in Nat /\ ccall'.seq \in Nat /\ ccall.seq <= ccall'.seq
        /\ scte'.high \in Nat /\ p.seq \in Nat
    BY <2>1, TableStep, CcallStep, ClientStepOK
       DEF ServerHyp, Types, CcallTypes, ScteTypes, ClientStep, Call
  <2>3. TableInv'
    BY <2>1, <2>2 DEF TableInv
  <2>4. \A e \in execs : e.orphan /\ ExecOK(e)'
    <3>1. scte.validated => scte'.validated \/ execs = {}
      BY <1>0, <1>3, NewCallTable DEF ServerHyp, ServerInv
    <3> QED
      BY <1>0, <1>3, <3>1, NewCallAlone, SameExec
  <2>5. execs' = execs \/ (execs' = execs \cup {n} /\ scte'.high = p.seq)
    BY <1>0, <1>3, NewCallTable DEF ServerHyp
  <2>6. scte'.high = p.seq => ExecOK(n)'
    BY <2>1, <2>2 DEF ExecOK
  <2> QED
    BY <2>3, <2>4, <2>5, <2>6, ServerFromParts DEF ExecsInv
<1> QED
    BY <1>1, <1>2, <1>3 DEF Request, Fits

LEMMA WhoServerStep ==
    ASSUME ServerHyp, WhoAreYou
    PROVE  ServerInv'
<1>1. boot' = boot /\ scte' = scte /\ scall' = scall /\ ccall.seq \in Nat /\ scte.high \in Nat
    BY DEF WhoAreYou, ServerHyp, Types
<1>2. CASE execs' = execs
    BY <1>1, <1>2, TableKept, FewerExecs, ServerFromParts DEF ExecsInv
<1>3. ASSUME NEW e \in execs, NEW a \in {ccall.seq, -1}, e.stage = "way",
             execs' = (execs \ {e}) \cup {[e EXCEPT !.answer = a]}
      PROVE  ServerInv'
  <2> DEFINE n == [e EXCEPT !.answer = a]
  <2>1. n.seq = e.seq /\ n.stage = "way" /\ n.answer = a /\ n.orphan = e.orphan
    BY <1>3 DEF ServerHyp, Types
  <2>2. \A f \in execs : ExecOK(f)'
    BY <1>1, SameExec
  <2>3. ccall'.seq \in Nat /\ ccall.seq <= ccall'.seq
    BY <1>1, CcallStep, ClientStepOK DEF ServerHyp, CcallTypes, ClientStep
  <2>4. ExecOK(n)'
    BY <1>1, <2>1, <2>2, <2>3 DEF ExecOK
  <2>5. \A f, g \in execs' : ~f.orphan /\ ~g.orphan => f = g
    BY <1>3, <2>1 DEF ServerHyp, ServerInv
  <2>6. TableInv'
    BY <1>1, <1>3, TableKept
  <2> QED
    BY <1>3, <2>2, <2>4, <2>5, <2>6, ServerFromParts DEF ExecsInv
<1> QED
    BY <1>2, <1>3 DEF WhoAreYou

LEMMA ServerStep ==
    ASSUME ServerHyp
    PROVE  ServerInv'
<1>0. scte.high \in Nat /\ ccall.seq \in Nat
    BY DEF ServerHyp, Types
<1>1. CASE UNCHANGED <<boot, scte, scall, execs>>
    BY <1>0, <1>1, TableKept, FewerExecs, ServerFromParts DEF ExecsInv
<1>2. CASE ServerReceive
  <2>1. boot' = boot
    BY <1>2 DEF ServerReceive
  <2>2. ASSUME NEW p \in sent, QuitReply(p) PROVE ServerInv'
    <3>1. CASE OrphanCall /\ scte' = scte
      BY <2>1, <3>1, TableKept, OrphanExecs, ServerFromParts DEF OrphanCall, ExecsInv
    <3> QED
      BY <1>1, <2>1, <2>2, <3>1 DEF QuitReply
  <2> QED
    BY <1>1, <1>2, <2>1, <2>2, RequestServerStep DEF ServerReceive, PingWorking, Rerun
<1>3. CASE ScallTimer
  <2>1. scall' = NoScall \/ (scall.state # "none" /\ scall'.seq = scall.seq)
    BY <1>3 DEF ScallTimer, OrphanCall, ServerHyp, Types
  <2>2. scall' = NoScall \/ (scte.live /\ scall'.seq = scall.seq)
    BY <2>1 DEF ServerHyp, ServerInv, NoScall
  <2>3. execs' = execs /\ scte' = scte /\ boot' = boot
    BY <1>3, TimerExecs DEF ScallTimer, ServerHyp
  <2> QED
    BY <1>0, <2>2, <2>3, TableKept, FewerExecs, ServerFromParts DEF ExecsInv
<1>4. CASE SctTimer \/ Crash
  <2>1. scte' = NoScte /\ scall' = NoScall /\ execs' = {}
    BY <1>4 DEF SctTimer, Crash, ServerHyp, ServerInv
  <2>2. TableInv'
    BY <2>1, CcallStep DEF TableInv, NoScte, NoScall, CcallTypes, ServerHyp
  <2> QED
    BY <2>1, <2>2, ServerFromParts DEF ExecsInv
<1>5. CASE WhoAreYou
    BY <1>5, WhoServerStep
<1>6. ASSUME NEW e \in execs, Begin(e) \/ Ask(e) \/ WayValidate(e) \/ WayFail(e)
                                 \/ Proceed(e) \/ Respond(e)
      PROVE  ServerInv'
    BY <1>6, ExecServerStep
<1> QED
    BY <1>1, <1>2, <1>3, <1>4, <1>5, <1>6
       DEF ServerHyp, Next, CallStart, Nocall, Timeout, CallEnd, CallOver, ClientReceive,
           WrongBoot, serverVars, vars
-----------------------------------------------------------------------------
(* What requests tell of the server. *)

LEMMA BoundStep ==
    ASSUME Types, [Next]_vars, NEW k \in Call, k <= ccall.seq, NEW b, b # Unknown, BoundTo(k, b)
    PROVE  BoundTo(k, b)'
<1>1. ClientStep /\ ccall.seq \in Nat /\ k \in Nat
    BY ClientStepOK DEF Types, Call
<1>2. ccall'.seq = k => ccall.seq = k /\ ccall.boot = b /\ ccall'.boot = b
    BY <1>1 DEF BoundTo, ClientStep
<1> QED
    BY <1>1, <1>2 DEF BoundTo, ClientStep

LEMMA RequestTypes ==
    ASSUME PacketTypes, NEW p \in Requests
    PROVE  p.seq \in Call /\ p.seq <= ccall.seq /\ p.boot \in 0 .. MaxBoots /\ p.boot <= boot
BY DEF PacketTypes, PacketOK, Requests

LEMMA RequestsAgreeStep ==
    ASSUME Types, PacketTypes, RequestsAgree, [Next]_vars
    PROVE  RequestsAgree'
<1>1. ClientStep /\ ccall.seq \in Nat
    BY ClientStepOK DEF Types
<1>2. SUFFICES ASSUME NEW p \in Requests', p.boot # Unknown
               PROVE  BoundTo(p.seq, p.boot)'
    BY DEF RequestsAgree
<1>3. CASE p \in Requests
    BY <1>2, <1>3, BoundStep, RequestTypes DEF RequestsAgree
<1>4. CASE p.seq = ccall'.seq /\ p.boot = ccall'.boot
  <2>1. ASSUME NEW q \in Requests, q.seq = ccall'.seq, q.boot # Unknown
        PROVE  q.boot = ccall'.boot
    <3>1. q.seq <= ccall.seq /\ q.seq \in Nat
      BY RequestTypes DEF Call
    <3>2. ccall'.seq = ccall.seq
      BY <1>1, <2>1, <3>1 DEF ClientStep
    <3>3. ccall.boot = q.boot
      BY <2>1, <3>2 DEF RequestsAgree, BoundTo
    <3> QED
      BY <1>1, <2>1, <3>2, <3>3 DEF ClientStep
  <2> QED
    BY <1>1, <1>4, <2>1 DEF BoundTo, ClientStep
<1> QED
    BY <1>1, <1>2, <1>3, <1>4 DEF ClientStep
-----------------------------------------------------------------------------
(* A call is executed only when this instance of the server has not dealt with it *)
(* and no other one can have.                                                     *)

Hyp == ServerHyp /\ RequestsAgree /\ FinishedInv /\ ExecInv

LEMMA FinishedTypes ==
    ASSUME Types
    PROVE  \A x \in Started \cup denied :
              x.seq \in NonIdem /\ x.seq \in Call /\ x.seq \in Nat
              /\ x.boot \in Boot /\ x.boot \in Nat /\ x.boot # Unknown
<1>1. \A x \in Started \cup denied : x.seq \in NonIdem /\ x.boot \in Boot
    BY StartedTypes DEF Types
<1>2. NonIdem \subseteq Call /\ Call \subseteq Nat /\ \A b \in Boot : b \in Nat /\ b # Unknown
    BY RpcAssumption DEF Call, Boot, Unknown
<1> QED
    BY <1>1, <1>2

LEMMA NotClosed ==
    ASSUME Hyp, NEW e \in execs, Pending(e), scte.validated, scte.high = e.seq
    PROVE  ~Closed(e.seq)
BY DEF Closed, Hyp, ServerHyp, Types, Call

LEMMA RunFacts ==
    ASSUME Hyp, NEW e, Runs(e)
    PROVE  /\ e \in execs /\ ~e.orphan /\ scte.live /\ scte.high = e.seq
           /\ e.seq \in NonIdem /\ e.seq \in Call /\ e.seq <= ccall.seq
           /\ Known(e.seq)
           /\ \A x \in Started : x.seq < e.seq
           /\ \A x \in denied : x.seq # e.seq
           /\ [seq |-> e.seq, boot |-> boot] \notin Rejects
<1>1. /\ e \in execs /\ ~e.orphan /\ scte.live /\ scall.seq = e.seq /\ scte.high = e.seq
      /\ e.seq \in NonIdem /\ e.seq \in Call /\ e.seq \in Nat /\ e.seq <= ccall.seq
      /\ Pending(e)
    BY Working DEF Runs, Hyp, ServerHyp, ServerInv, ExecOK, Types, Pending, Call
<1>2. scte.validated /\ (e.stage = "relock" \/ ~scall.needs)
    BY <1>1 DEF Runs, Hyp, ServerHyp, ServerInv, ExecOK, IsWayValidated
<1>3. Known(e.seq)
    BY <1>1, <1>2 DEF Hyp, ExecInv, Runnable, Call
<1>4. ~Closed(e.seq)
    BY <1>1, <1>2, NotClosed
<1>5. \A x \in Started \cup denied : x.seq # e.seq
    BY <1>3, <1>4 DEF Known, Hyp, FinishedInv
<1>6. \A x \in Started : x.seq < e.seq
    BY <1>1, <1>3, <1>5, FinishedTypes DEF Known, Hyp, ServerHyp
<1>7. [seq |-> e.seq, boot |-> boot] \notin Rejects
    BY <1>4 DEF Hyp, FinishedInv
<1> QED
    BY <1>1, <1>3, <1>5, <1>6, <1>7

LEMMA RunSteps ==
    ASSUME Hyp
    PROVE  ran' = ran \/ \E e \in execs : Runs(e)
BY RunStep DEF Hyp, ServerHyp
-----------------------------------------------------------------------------
(* The client's history of rejects. *)

\* Packets that reject stay the same, or go when the client has other calls, or are sent.
LEMMA RejectsStep ==
    ASSUME [Next]_vars
    PROVE  \A x \in Rejects' :
              \/ x \in Rejects
              \/ \E e \in execs : /\ WayFail(e) /\ ~e.orphan /\ scall.state = "recv"
                                  /\ execs' = execs \ {e}
                                  /\ x = [seq |-> scall.seq, boot |-> boot]
<1> SUFFICES ASSUME NEW p \in sent', p.type = "wayFailed", p \notin sent
             PROVE  \E e \in execs : /\ WayFail(e) /\ ~e.orphan /\ scall.state = "recv"
                                     /\ execs' = execs \ {e}
                                     /\ p.seq = scall.seq /\ p.boot = boot
    BY DEF Rejects
<1>0. sent' # sent
    OBVIOUS
<1>1. PICK e \in execs : WayFail(e)
  <2>1. ~(CallStart \/ Nocall \/ CallEnd)
    BY <1>0 DEF CallStart, Nocall, CallEnd, Send, Header, Packet
  <2>2. ~ServerReceive
    BY <1>0 DEF ServerReceive, PingWorking, Request, Rerun, QuitReply
  <2>3. ASSUME NEW e \in execs, Ask(e) \/ Respond(e) PROVE FALSE
    BY <1>0, <2>3 DEF Ask, Respond, Send, Header, Packet
  <2> QED
    BY <1>0, <2>1, <2>2, <2>3
       DEF Next, Timeout, CallOver, ClientReceive, WhoAreYou, WrongBoot, ScallTimer,
           SctTimer, Crash, Begin, WayValidate, Proceed, serverVars, vars
<1> QED
    BY <1>1 DEF WayFail, Send, Header, Packet

\* A call is denied to the client only by an instance of the server that it knows of.
Denies(d) ==
    /\ d \in Rejects /\ d.seq = ccall.seq
    /\ ccall.state = "recv" /\ ccall.boot \in {Unknown, d.boot}
    /\ ccall'.seq = ccall.seq /\ ccall'.boot = d.boot
    /\ UNCHANGED <<sent, serverVars>>

LEMMA DeniedStep ==
    ASSUME Types, [Next]_vars
    PROVE  denied' = denied \/ \E d \in Rejects : denied' = denied \cup {d} /\ Denies(d)
<1>1. ASSUME NEW p \in sent, Reject(p), UNCHANGED <<sent, serverVars>>
      PROVE  denied' = denied \/ \E d \in Rejects : denied' = denied \cup {d} /\ Denies(d)
  <2> SUFFICES ASSUME ccall.state = "recv", RightBoot(p.boot)
               PROVE  \E d \in Rejects : denied' = denied \cup {d} /\ Denies(d)
    BY <1>1 DEF Reject
  <2> DEFINE d == [seq |-> p.seq, boot |-> p.boot]
  <2>1. d \in Rejects /\ d.seq = ccall.seq /\ denied' = denied \cup {d}
    BY <1>1 DEF Reject, Rejects, Interesting
  <2>2. ccall' = [ccall EXCEPT !.boot = p.boot, !.queued = FALSE, !.all = TRUE,
                               !.failed = TRUE]
    BY <1>1 DEF Reject, Rejected
  <2>3. ccall'.seq = ccall.seq /\ ccall'.boot = d.boot
    BY <2>2 DEF Types
  <2> QED
    BY <1>1, <2>1, <2>3 DEF Denies, RightBoot
<1> QED
    BY <1>1 DEF Next, CallStart, Nocall, Timeout, CallEnd, CallOver, ClientReceive, Response,
           WhoAreYou, ServerReceive, PingWorking, Request, Rerun, QuitReply, WrongBoot,
           ScallTimer, SctTimer, Crash, Begin, Ask, WayValidate, WayFail, Proceed, Respond,
           clientVars, vars

\* A call of which one instance of the server knows is denied by that one.
LEMMA DenialFacts ==
    ASSUME Hyp, NEW d \in Rejects, Denies(d)
    PROVE  /\ d.seq \in NonIdem /\ d.seq \in Call /\ d.boot \in Boot /\ d.boot <= boot
           /\ \A k \in Call, b \in Boot : k = d.seq /\ BoundTo(k, b) => b = d.boot
           /\ \A x \in Started : x.seq # d.seq
<1>1. PICK p \in sent : p.type = "wayFailed" /\ d = [seq |-> p.seq, boot |-> p.boot]
    BY DEF Rejects
<1>2. d.seq \in Call /\ d.boot \in Boot /\ d.boot <= boot
    BY <1>1 DEF Hyp, ServerHyp, PacketTypes, PacketOK
<1>3. d.seq \in NonIdem
    BY DEF Hyp, FinishedInv
<1>4. ASSUME NEW k \in Call, NEW b \in Boot, k = d.seq, BoundTo(k, b)
      PROVE  b = d.boot
    BY <1>4, RpcAssumption DEF Denies, BoundTo, Boot, Unknown
<1>5. ASSUME NEW x \in Started, x.seq = d.seq PROVE FALSE
  <2>1. x.boot = d.boot
    BY <1>2, <1>4, <1>5, StartedTypes DEF Hyp, ServerHyp, FinishedInv
  <2>2. x = d
    BY <1>1, <1>5, <2>1, StartedTypes DEF Hyp, ServerHyp
  <2>3. Over(d.seq)
    BY <1>5, <2>2 DEF Hyp, FinishedInv
  <2> QED
    BY <1>2, <2>3 DEF Denies, Over, Call
<1> QED
    BY <1>2, <1>3, <1>4, <1>5
-----------------------------------------------------------------------------
(* What a step does to the connection and to the executors. *)

\* Executor f is e, or what e becomes, and nobody has told it anything new, but a
\* request of the call may have named this instance.
Continues(e, f) ==
    /\ f.seq = e.seq /\ (f.answer > 0 => f.answer = e.answer)
    /\ Pending(f) => Pending(e)
    /\ Pending(f) /\ (f.stage = "relock" \/ ~scall'.needs) =>
          e.stage = "relock" \/ ~scall.needs \/ Named(f.seq)

Quiet ==
    /\ scte' = scte
    /\ \A f \in execs' : \E e \in execs : Continues(e, f)

LEMMA QuietSame ==
    ASSUME scte' = scte, scall'.needs = scall.needs \/ \A e \in execs : e.orphan,
           execs' \subseteq execs
    PROVE  Quiet
BY DEF Quiet, Continues, Pending

LEMMA QuietGoes ==
    ASSUME ServerHyp, scte' = scte, scall'.needs = scall.needs,
           NEW e \in execs, NEW stage \in {"ready", "ask", "way", "relock", "run"},
           Goes(e, stage), Pending(e), stage = "relock" => ~scall.needs
    PROVE  Quiet
<1> DEFINE n == [e EXCEPT !.stage = stage, !.answer = 0]
<1>1. execs' = (execs \ {e}) \cup {n}
    BY DEF Goes
<1>2. n.seq = e.seq /\ n.stage = stage /\ n.answer = 0
    BY DEF ServerHyp, Types
<1>3. Continues(e, n)
    BY <1>2 DEF Continues
<1>4. \A f \in execs : Continues(f, f)
    BY DEF Continues
<1> QED
    BY <1>1, <1>3, <1>4 DEF Quiet

LEMMA QuietOrphans ==
    ASSUME ServerHyp, scte' = scte, OrphanCall
    PROVE  Quiet
<1>1. ASSUME NEW f \in execs' PROVE \E e \in execs : Continues(e, f)
  <2>1. PICK e \in execs : f = [e EXCEPT !.orphan = TRUE]
    BY DEF OrphanCall
  <2>2. f.seq = e.seq /\ f.answer = e.answer /\ f.orphan
    BY <2>1 DEF ServerHyp, Types
  <2> QED
    BY <2>2 DEF Continues, Pending
<1> QED
    BY <1>1 DEF Quiet

LEMMA QuietExec ==
    ASSUME ServerHyp, NEW e \in execs,
           Begin(e) \/ Ask(e) \/ WayFail(e) \/ Proceed(e) \/ Respond(e)
    PROVE  Quiet
<1>1. scte' = scte /\ scall'.needs = scall.needs
    BY DEF Begin, Ask, WayFail, Proceed, Respond, EndOfCall, Run, ServerHyp, Types
<1>2. CASE execs' \subseteq execs
    BY <1>1, <1>2, QuietSame
<1>3. CASE WayFail(e) \/ Respond(e)
    BY <1>2, <1>3 DEF WayFail, Respond, EndOfCall
<1>4. CASE Begin(e) \/ Ask(e) \/ Proceed(e)
  <2>1. Pending(e)
    BY <1>4, Working DEF Begin, Ask, Proceed, ServerHyp, Pending
  <2>2. \/ execs' \subseteq execs
        \/ \E stage \in {"ask", "way", "run"} : Goes(e, stage)
        \/ Goes(e, "relock") /\ ~scall.needs
    BY <1>4 DEF Begin, Ask, Proceed, Run, EndOfCall, IsWayValidated
  <2>3. CASE \E stage \in {"ask", "way", "run"} : Goes(e, stage)
    BY <1>1, <2>1, <2>3, QuietGoes
  <2>4. CASE Goes(e, "relock") /\ ~scall.needs
    BY <1>1, <2>1, <2>4, QuietGoes
  <2> QED
    BY <1>2, <2>2, <2>3, <2>4
<1> QED
    BY <1>3, <1>4

\* A new call of a request that is for this instance.
NewRequest(p) ==
    /\ p.type = "request" /\ SbootOK(p) /\ Fits(p) /\ NewCall(p)
    /\ UNCHANGED <<sent, ccall, denied, boot, ran>>

LEMMA RequestCases ==
    ASSUME ServerHyp, NEW p \in sent, Request(p), boot' = boot, ran' = ran
    PROVE  Quiet \/ NewRequest(p)
<1>1. CASE OrphanCall /\ scte' = scte
    BY <1>1, QuietOrphans
<1>2. CASE Fits(p) /\ NewCall(p)
    BY <1>2 DEF NewRequest, Request, clientVars
<1>3. CASE /\ p.seq = Scte(p.seq).high /\ StateFor(p.seq) = "recv"
           /\ scall' = [scall EXCEPT !.needs = (p.boot = Unknown)]
           /\ scte' = scte /\ execs' = execs
  <2>1. scall'.needs = (p.boot = Unknown)
    BY <1>3 DEF ServerHyp, Types
  <2>2. p.seq = scall.seq
    <3>1. Usable(p.seq)
      BY <1>3 DEF StateFor
    <3>2. scte.live
      BY <3>1 DEF Usable, ServerHyp, ServerInv, NoScall
    <3> QED
      BY <1>3, <3>1, <3>2 DEF Usable, Scte
  <2>3. ASSUME NEW e \in execs PROVE Continues(e, e)
    <3>1. SUFFICES ASSUME Pending(e), ~scall'.needs PROVE Named(e.seq)
      BY DEF Continues
    <3>2. e.seq = scall.seq
      BY <3>1 DEF Pending, ServerHyp, OwnCall
    <3>3. p \in Requests /\ p.boot = boot
      BY <2>1, <3>1 DEF Request, SbootOK, Requests
    <3> QED
      BY <2>2, <3>2, <3>3 DEF Named
  <2> QED
    BY <1>3, <2>3 DEF Quiet
<1> QED
    BY <1>1, <1>2, <1>3 DEF Request, Fits

LEMMA ServerCases ==
    ASSUME ServerHyp, boot' = boot
    PROVE  \/ Quiet \/ WhoAreYou \/ SctTimer
           \/ \E p \in sent : NewRequest(p)
           \/ \E e \in execs : WayValidate(e)
<1>1. ASSUME UNCHANGED <<scte, scall, execs>> PROVE Quiet
    BY <1>1, QuietSame
<1>2. CASE ServerReceive
  <2>1. ASSUME NEW p \in sent, QuitReply(p) PROVE Quiet
    BY <1>1, <2>1, QuietOrphans DEF QuitReply
  <2> QED
    BY <1>1, <1>2, <2>1, RequestCases DEF ServerReceive, PingWorking, Rerun
<1>3. CASE ScallTimer
  <2>1. \/ scall' = [scall EXCEPT !.state = "idle"]
        \/ scall.state = "idle"
    BY <1>3 DEF ScallTimer
  <2>2. scall'.needs = scall.needs \/ \A e \in execs : e.orphan
    BY <2>1 DEF ServerHyp, Types, OwnCall
  <2>3. execs' = execs /\ scte' = scte
    BY <1>3, TimerExecs DEF ScallTimer, ServerHyp
  <2> QED
    BY <2>2, <2>3, QuietSame
<1>4. ~Crash
    BY DEF Crash, ServerHyp, Types, Boot
<1> QED
    BY <1>1, <1>2, <1>3, <1>4, QuietExec
       DEF ServerHyp, Next, CallStart, Nocall, Timeout, CallEnd, CallOver, ClientReceive,
           WrongBoot, serverVars, vars

\* What a who-are-you does to the executors.
LEMMA WhoCases ==
    ASSUME ServerHyp, WhoAreYou
    PROVE  /\ boot' = boot /\ scte' = scte /\ scall' = scall /\ sent' = sent /\ ran' = ran
           /\ denied' = denied
           /\ \A f \in execs' :
                 \/ f \in execs
                 \/ \E e \in execs :
                       /\ f.seq = e.seq /\ f.stage = e.stage /\ f.orphan = e.orphan
                       /\ f.answer > 0 =>
                             /\ f.answer = ccall.seq /\ ccall.state # "idle"
                             /\ RightBoot(boot) /\ ccall'.boot = boot /\ ccall'.seq = ccall.seq
<1>1. ASSUME NEW p \in sent, NEW e \in execs, p.boot = boot,
             ccall.state # "idle" /\ RightBoot(p.boot) =>
                ccall' = [ccall EXCEPT !.boot = p.boot],
             NEW a, a = IF ccall.state # "idle" /\ RightBoot(p.boot) THEN ccall.seq ELSE -1,
             execs' = (execs \ {e}) \cup {[e EXCEPT !.answer = a]}
      PROVE  \A f \in execs' :
                 \/ f \in execs
                 \/ /\ f.seq = e.seq /\ f.stage = e.stage /\ f.orphan = e.orphan
                    /\ f.answer > 0 =>
                          /\ f.answer = ccall.seq /\ ccall.state # "idle"
                          /\ RightBoot(boot) /\ ccall'.boot = boot /\ ccall'.seq = ccall.seq
  <2>1. ASSUME NEW f, f = [e EXCEPT !.answer = a]
        PROVE  f.seq = e.seq /\ f.stage = e.stage /\ f.orphan = e.orphan /\ f.answer = a
    BY <2>1 DEF ServerHyp, Types
  <2>2. a > 0 => a = ccall.seq /\ ccall.state # "idle" /\ RightBoot(boot)
    BY <1>1
  <2>3. ccall.state # "idle" /\ RightBoot(boot) => ccall'.boot = boot /\ ccall'.seq = ccall.seq
    BY <1>1 DEF ServerHyp, Types
  <2> QED
    BY <1>1, <2>1, <2>2, <2>3
<1> QED
    BY <1>1 DEF WhoAreYou

LEMMA NewRequestFacts ==
    ASSUME ServerHyp, NEW p \in sent, NewRequest(p)
    PROVE  /\ p.seq \in Call /\ p.seq \in Nat /\ p.seq <= ccall.seq /\ p.seq >= scte.high
           /\ p.seq \in NonIdem => p.seq > scte.high
           /\ scte'.live /\ scte'.high \in {p.seq, p.seq - 1}
           /\ \A e \in execs : e.orphan
<1>1. p.type = "request" /\ Fits(p) /\ NewCall(p)
    BY DEF NewRequest
<1>2. /\ p.seq \in Call /\ p.seq \in Nat /\ p.seq <= ccall.seq /\ p.seq >= scte.high
      /\ p.seq \in NonIdem => p.seq > scte.high
    BY <1>1, NewCallHigh DEF Call
<1>3. scte'.live /\ scte'.high \in {p.seq, p.seq - 1}
    BY <1>1, NewCallTable DEF ServerHyp
<1> QED
    BY <1>1, <1>2, <1>3, NewCallAlone

\* What a call is closed by stays, as long as the server does not restart.
LEMMA ClosedStep ==
    ASSUME Hyp, boot' = boot, NEW k \in NonIdem, k <= ccall.seq, Closed(k)
    PROVE  Closed(k)'
<1>0. /\ k \in Call /\ k \in Nat /\ ccall.seq \in Nat /\ scte.high \in Nat /\ scte'.high \in Nat
      /\ scte.high <= ccall.seq /\ ServerHyp
    BY TableStep, RpcAssumption DEF Hyp, ServerHyp, Types, ScteTypes, Call, ServerInv
<1>1. Over(k) => Over(k)'
    BY <1>0, ClientStepOK DEF ClientStep, ServerHyp
<1>2. CASE Quiet
  <2>1. CASE scte.live /\ scte.high >= k /\ \A e \in execs : Pending(e) => e.seq # k
    BY <1>2, <2>1 DEF Quiet, Continues, Closed
  <2>2. CASE /\ Over(k)
             /\ scte.validated => scte.high > k
             /\ \A e \in execs : e.answer > 0 => e.answer > k
    BY <1>1, <1>2, <2>2 DEF Quiet, Continues, Closed
  <2> QED
    BY <2>1, <2>2 DEF Closed
<1>3. CASE WhoAreYou
  <2>1. CASE scte.live /\ scte.high >= k /\ \A e \in execs : Pending(e) => e.seq # k
    BY <1>0, <1>3, <2>1, WhoCases DEF Closed, Pending
  <2>2. CASE /\ Over(k)
             /\ scte.validated => scte.high > k
             /\ \A e \in execs : e.answer > 0 => e.answer > k
    <3>1. ccall.state # "idle" => ccall.seq > k
      BY <1>0, <2>2 DEF Over
    <3> QED
      BY <1>0, <1>1, <1>3, <2>2, <3>1, WhoCases DEF Closed
  <2> QED
    BY <2>1, <2>2 DEF Closed
<1>4. CASE SctTimer
  <2>1. Over(k)
    BY <1>0, <1>4 DEF SctTimer, Closed, Over
  <2> QED
    BY <1>1, <1>4, <2>1 DEF SctTimer, NoScte, Closed
<1>5. ASSUME NEW p \in sent, NewRequest(p)
      PROVE  Closed(k)'
  <2> DEFINE n == [seq |-> p.seq, stage |-> "ready", orphan |-> FALSE, answer |-> 0]
  <2>1. /\ p.seq \in Nat /\ p.seq >= scte.high /\ (p.seq = k => p.seq > scte.high)
        /\ scte'.live /\ scte'.high \in {p.seq, p.seq - 1}
        /\ \A e \in execs : e.orphan
    BY <1>0, <1>5, NewRequestFacts
  <2>2. \A f \in execs' : f \in execs \/ (f = n /\ scte'.high = p.seq)
    BY <1>0, <1>5, NewCallTable DEF NewRequest, ServerHyp
  <2>3. CASE scte.live /\ scte.high >= k
    <3>1. p.seq > k /\ scte'.high >= k
      BY <1>0, <2>1, <2>3
    <3>2. \A f \in execs' : Pending(f) => f.seq # k
      BY <1>0, <2>1, <2>2, <3>1 DEF Pending
    <3> QED
      BY <2>1, <3>1, <3>2 DEF Closed
  <2>4. CASE /\ Over(k)
             /\ scte.validated => scte.high > k
             /\ \A e \in execs : e.answer > 0 => e.answer > k
    <3>1. scte'.validated => scte.validated
      BY <1>0, <1>5, NewCallTable DEF NewRequest, ServerHyp
    <3>2. CASE scte'.validated => scte'.high > k
      BY <1>1, <2>2, <2>4, <3>2 DEF Closed
    <3>3. CASE scte'.validated /\ ~(scte'.high > k)
      <4>1. scte'.high >= k /\ scte'.high # p.seq
        BY <1>0, <2>1, <2>4, <3>1, <3>3
      <4> QED
        BY <2>1, <2>2, <4>1 DEF Closed, Pending
    <3> QED
      BY <3>2, <3>3
  <2> QED
    BY <2>3, <2>4 DEF Closed
<1>6. ASSUME NEW e \in execs, WayValidate(e)
      PROVE  Closed(k)'
  <2>1. scte'.high >= scte.high /\ scte'.high >= e.answer /\ scte'.live = scte.live
    BY <1>0, <1>6 DEF WayValidate, ServerHyp, Types
  <2>2. \A f \in execs' : f \in execs \/ (f.seq = e.seq /\ f.answer = 0 /\ Pending(e))
    <3> DEFINE n == [e EXCEPT !.stage = "relock", !.answer = 0]
    <3>1. n.seq = e.seq /\ n.answer = 0
      BY <1>0 DEF ServerHyp, Types
    <3>2. execs' = execs \ {e} \/ (execs' = (execs \ {e}) \cup {n} /\ Pending(e))
      BY <1>6 DEF WayValidate, Goes, Pending
    <3> QED
      BY <3>1, <3>2
  <2>3. CASE scte.live /\ scte.high >= k /\ \A f \in execs : Pending(f) => f.seq # k
    BY <1>0, <2>1, <2>2, <2>3 DEF Closed
  <2>4. CASE /\ Over(k)
             /\ \A f \in execs : f.answer > 0 => f.answer > k
    <3>1. scte'.high > k
      <4>1. e.answer \in Int /\ e.answer > k
        BY <1>0, <1>6, <2>4 DEF WayValidate, ServerHyp, Types
      <4> QED
        BY <1>0, <2>1, <4>1
    <3> QED
      BY <1>1, <2>2, <2>4, <3>1 DEF Closed
  <2> QED
    BY <2>3, <2>4 DEF Closed
<1> QED
    BY <1>0, <1>2, <1>3, <1>4, <1>5, <1>6, ServerCases

\* The connection forgets no call that is not idempotent, while it is there.
LEMMA HighKept ==
    ASSUME Hyp, boot' = boot, ~SctTimer, NEW n \in NonIdem, n <= scte.high
    PROVE  n <= scte'.high
<1>0. n \in Nat /\ scte.high \in Nat /\ scte'.high \in Nat /\ ServerHyp
    BY TableStep, RpcAssumption DEF Hyp, ServerHyp, Types, ScteTypes
<1>1. CASE scte' = scte
    BY <1>1
<1>2. ASSUME NEW p \in sent, NewRequest(p) PROVE n <= scte'.high
  <2>1. /\ p.seq \in Nat /\ p.seq >= scte.high /\ (p.seq \in NonIdem => p.seq > scte.high)
        /\ scte'.high \in {p.seq, p.seq - 1}
    BY <1>0, <1>2, NewRequestFacts
  <2> QED
    BY <1>0, <2>1
<1>3. ASSUME NEW e \in execs, WayValidate(e) PROVE n <= scte'.high
    BY <1>0, <1>3 DEF WayValidate, ServerHyp, Types
<1> QED
    BY <1>0, <1>1, <1>2, <1>3, ServerCases DEF Quiet, WhoAreYou

LEMMA SameStarted ==
    ASSUME ran' = ran
    PROVE  Started' = Started
BY DEF Started

LEMMA KnownStep ==
    ASSUME Hyp, boot' = boot, ~SctTimer, NEW k \in Call, k <= ccall.seq, Known(k)
    PROVE  Known(k)'
<1>0. ServerHyp /\ Types /\ [Next]_vars /\ boot \in Boot /\ boot # Unknown /\ scte.high \in Nat
      /\ k \in Nat /\ scte'.high \in Nat
  <2>1. ServerHyp /\ Types /\ [Next]_vars
    BY DEF Hyp, ServerHyp
  <2>2. boot \in Boot /\ boot # Unknown /\ scte.high \in Nat /\ k \in Nat
    BY <2>1, RpcAssumption DEF Types, Boot, Unknown, Call
  <2>3. scte'.high \in Nat
    <3>1. ScteTypes'
      BY <2>1, TableStep DEF ServerHyp
    <3> QED
      BY <3>1, RpcAssumption DEF ScteTypes
  <2> QED
    BY <2>1, <2>2, <2>3
<1>1. BoundTo(k, boot)'
  <2>1. PICK b \in Boot : b = boot
    BY <1>0
  <2>2. BoundTo(k, b)'
    BY <1>0, <2>1, BoundStep DEF Known
  <2> QED
    BY <2>1, <2>2 DEF BoundTo
<1>2. ASSUME NEW x \in Started'
      PROVE  (x.seq = k => x.boot = boot) /\ (x.seq > k => scte'.high >= x.seq)
  <2>1. CASE x \in Started
    <3>1. x.seq \in NonIdem
      BY <1>0, <2>1, FinishedTypes
    <3> QED
      BY <2>1, <3>1, HighKept DEF Known
  <2>2. ASSUME NEW e \in execs, Runs(e) PROVE x \in Started \/ (x.boot = boot /\ x.seq = scte'.high)
    <3>1. scte' = scte /\ scte.high = e.seq
      BY <2>2, RunFacts DEF Runs
    <3>2. Started' = Started \cup {[seq |-> e.seq, boot |-> boot]}
      BY <1>0, <2>2, RunAppends
    <3> QED
      BY <1>2, <3>1, <3>2
  <2> QED
    BY <1>0, <2>1, <2>2, RunSteps, SameStarted
<1>3. ASSUME NEW x \in denied', x.seq = k PROVE x.boot = boot
  <2>1. CASE x \in denied
    BY <1>3, <2>1 DEF Known
  <2>2. ASSUME NEW d \in Rejects, Denies(d), x = d PROVE x.boot = boot
    BY <1>0, <1>3, <2>2, DenialFacts DEF Known
  <2> QED
    BY <1>0, <2>1, <2>2, DeniedStep
<1> QED
    BY <1>1, <1>2, <1>3, FinishedTypes DEF Known

LEMMA BootStep ==
    ASSUME ServerHyp
    PROVE  /\ boot \in Nat /\ boot' \in Nat /\ boot <= boot'
           /\ boot' = boot \/ Crash
<1>1. boot \in Nat /\ boot' \in Nat
    BY TableStep DEF ServerHyp, Types, Boot
<1>2. boot' = boot \/ Crash
    BY DEF ServerHyp, Next, CallStart, Nocall, Timeout, CallEnd, CallOver, ClientReceive,
           WhoAreYou, ServerReceive, WrongBoot, ScallTimer, SctTimer, Begin, Ask, WayValidate,
           WayFail, Proceed, Respond, serverVars, vars
<1> QED
    BY <1>1, <1>2 DEF Crash
-----------------------------------------------------------------------------
(* What was started or rejected stays over. *)

\* The call that is started now.
LEMMA StartedNow ==
    ASSUME Hyp, NEW e, Runs(e)
    PROVE  LET x == [seq |-> e.seq, boot |-> boot] IN
           /\ Started' = Started \cup {x}
           /\ BoundTo(e.seq, boot)' /\ Closed(e.seq)'
           /\ e.seq <= ccall'.seq /\ boot' = boot /\ Requests' = Requests
           /\ denied' = denied /\ Rejects' = Rejects /\ x \notin Rejects
<1>1. /\ e \in execs /\ ~e.orphan /\ scte.live /\ scte.high = e.seq /\ Known(e.seq)
      /\ e.seq \in Call /\ e.seq <= ccall.seq
      /\ [seq |-> e.seq, boot |-> boot] \notin Rejects
    BY RunFacts
<1>2. UNCHANGED <<ccall, denied, sent, boot, scte, scall>> /\ Goes(e, "run")
    BY DEF Runs, clientVars
<1>3. Started' = Started \cup {[seq |-> e.seq, boot |-> boot]}
    BY <1>1, RunAppends DEF Hyp, ServerHyp
<1>4. BoundTo(e.seq, boot)'
    BY <1>1, <1>2 DEF Known, BoundTo, Requests
<1>5. \A f \in execs' : Pending(f) => f.seq # e.seq
  <2> DEFINE n == [e EXCEPT !.stage = "run", !.answer = 0]
  <2>1. execs' = (execs \ {e}) \cup {n}
    BY <1>2 DEF Goes
  <2>2. n.stage = "run"
    BY <1>1 DEF Hyp, ServerHyp, Types
  <2>3. \A f \in execs \ {e} : f.orphan
    BY <1>1 DEF Hyp, ServerHyp, ServerInv
  <2> QED
    BY <2>1, <2>2, <2>3 DEF Pending
<1>6. Closed(e.seq)'
    BY <1>1, <1>2, <1>5 DEF Closed, Call
<1> QED
    BY <1>1, <1>2, <1>3, <1>4, <1>6 DEF Requests, Rejects

\* The histories hold calls of which this is known.
OverFor(x) ==
    /\ x.seq <= ccall.seq /\ x.boot <= boot
    /\ BoundTo(x.seq, x.boot)
    /\ x.boot = boot => Closed(x.seq)

LEMMA OverKept ==
    ASSUME Hyp, NEW x, x \in Started \cup denied
    PROVE  OverFor(x)'
<1>1. /\ x.seq \in NonIdem /\ x.seq \in Call /\ x.seq \in Nat /\ x.boot \in Nat
      /\ x.boot # Unknown /\ Types /\ [Next]_vars /\ ServerHyp
    BY FinishedTypes DEF Hyp, ServerHyp
<1>2. OverFor(x)
    BY DEF Hyp, FinishedInv, OverFor
<1>3. ccall.seq \in Nat /\ ccall'.seq \in Nat /\ ccall.seq <= ccall'.seq
    BY <1>1, ClientStepOK DEF ClientStep, Types
<1>4. boot \in Nat /\ boot' \in Nat /\ boot <= boot' /\ (boot' = boot \/ Crash)
    BY <1>1, BootStep
<1>5. BoundTo(x.seq, x.boot)'
    BY <1>1, <1>2, BoundStep DEF OverFor
<1>6. ASSUME x.boot = boot' PROVE Closed(x.seq)'
  <2>1. boot' = boot
    BY <1>1, <1>2, <1>4, <1>6 DEF OverFor
  <2> QED
    BY <1>1, <1>2, <1>6, <2>1, ClosedStep DEF OverFor
<1> QED
    BY <1>1, <1>2, <1>3, <1>4, <1>5, <1>6 DEF OverFor

LEMMA DeniedNow ==
    ASSUME Hyp, NEW d \in Rejects, Denies(d)
    PROVE  OverFor(d)'
<1>1. /\ d.seq \in NonIdem /\ d.seq \in Call /\ d.boot \in Boot /\ d.boot <= boot
      /\ \A k \in Call, b \in Boot : k = d.seq /\ BoundTo(k, b) => b = d.boot
    BY DenialFacts
<1>2. /\ d.seq = ccall.seq /\ ccall'.seq = ccall.seq /\ ccall'.boot = d.boot
      /\ UNCHANGED <<sent, boot>> /\ ccall.seq \in Nat
    BY DEF Denies, serverVars, Hyp, ServerHyp, Types
<1>3. BoundTo(d.seq, d.boot)'
  <2>1. ASSUME NEW p \in Requests, p.seq = d.seq, p.boot # Unknown PROVE p.boot = d.boot
    <3>1. p.boot \in Boot
      BY <2>1, RequestTypes, RpcAssumption DEF Hyp, ServerHyp, Boot, Unknown
    <3> QED
      BY <1>1, <2>1, <3>1 DEF Hyp, RequestsAgree
  <2> QED
    BY <1>2, <2>1 DEF BoundTo, Requests
<1>4. d.boot = boot => Closed(d.seq)'
    BY <1>1, <1>2, ClosedStep DEF Hyp, FinishedInv
<1> QED
    BY <1>1, <1>2, <1>3, <1>4 DEF OverFor

LEMMA HistoryOver ==
    ASSUME Hyp
    PROVE  \A x \in Started' \cup denied' : OverFor(x)'
<1>1. ASSUME NEW x \in Started' PROVE OverFor(x)'
  <2>1. CASE x \in Started
    BY <2>1, OverKept
  <2>2. ASSUME NEW e \in execs, Runs(e), x \notin Started PROVE OverFor(x)'
    <3>1. x = [seq |-> e.seq, boot |-> boot]
      BY <2>2, StartedNow
    <3>2. x.seq = e.seq /\ x.boot = boot
      BY <3>1
    <3>3. /\ BoundTo(e.seq, boot)' /\ Closed(e.seq)' /\ e.seq <= ccall'.seq /\ boot' = boot
      BY <2>2, StartedNow
    <3>4. BoundTo(x.seq, x.boot)'
      BY <3>2, <3>3 DEF BoundTo
    <3> QED
      BY <3>2, <3>3, <3>4, BootStep DEF OverFor, Hyp
  <2> QED
    BY <2>1, <2>2, RunSteps, SameStarted
<1>2. ASSUME NEW x \in denied' PROVE OverFor(x)'
    BY <1>2, OverKept, DeniedNow, DeniedStep DEF Hyp, ServerHyp
<1> QED
    BY <1>1, <1>2

\* A call that was rejected was not started, or its client is not in it any more.
LEMMA RejectsOver ==
    ASSUME Hyp, NEW x \in Rejects'
    PROVE  /\ x.seq \in NonIdem
           /\ x.boot = boot' => Closed(x.seq)'
           /\ x \in Started' => Over(x.seq)'
<1>0. ServerHyp /\ Types /\ [Next]_vars /\ ClientStep
    BY ClientStepOK DEF Hyp, ServerHyp
<1>1. CASE x \in Rejects
  <2>1. PICK p \in sent : p.type = "wayFailed" /\ x = [seq |-> p.seq, boot |-> p.boot]
    BY <1>1 DEF Rejects
  <2>2. /\ x.seq \in NonIdem /\ x.seq \in Call /\ x.boot \in Nat /\ x.boot <= boot
        /\ x.seq <= ccall.seq
    BY <1>0, <1>1, <2>1, RpcAssumption DEF ServerHyp, PacketTypes, PacketOK, Boot, Hyp, FinishedInv
  <2>3. x.boot = boot' => Closed(x.seq)'
    <3>1. SUFFICES ASSUME x.boot = boot' PROVE Closed(x.seq)'
      OBVIOUS
    <3>2. boot' = boot
      BY <1>0, <2>2, <3>1, BootStep
    <3> QED
      BY <1>1, <2>2, <3>1, <3>2, ClosedStep DEF Hyp, FinishedInv
  <2>4. x \in Started' => x \in Started
    <3>1. ASSUME NEW e \in execs, Runs(e), x \in Started' PROVE x \in Started
      <4>1. Rejects' = Rejects
        BY <3>1, StartedNow
      <4> QED
        BY <1>1, <3>1, StartedNow
    <3> QED
      BY <3>1, RunSteps, SameStarted
  <2> QED
    BY <1>0, <1>1, <2>2, <2>3, <2>4 DEF Hyp, FinishedInv, ClientStep
<1>2. ASSUME NEW e \in execs, WayFail(e), ~e.orphan, scall.state = "recv",
             execs' = execs \ {e}, x = [seq |-> scall.seq, boot |-> boot]
      PROVE  /\ x.seq \in NonIdem
             /\ x.boot = boot' => Closed(x.seq)'
             /\ x \in Started' => Over(x.seq)'
  <2>1. /\ x.seq = e.seq /\ x.boot = boot /\ scte.live /\ scte.high >= e.seq
        /\ e.seq \in NonIdem /\ UNCHANGED <<boot, scte, ccall, ran>>
    BY <1>0, <1>2, Working
       DEF WayFail, ServerHyp, ServerInv, ExecOK, clientVars
  <2>2. \A f \in execs' : f.orphan
    BY <1>0, <1>2 DEF ServerHyp, ServerInv
  <2>3. Closed(x.seq)'
    BY <2>1, <2>2 DEF Closed, Pending
  <2>4. x \in Started => Closed(e.seq)
    BY <2>1 DEF Hyp, FinishedInv
  <2>5. Pending(e)
    BY <1>2 DEF WayFail, Pending
  <2>6. x \in Started => Over(e.seq)
    BY <2>4, <2>5 DEF Closed
  <2> QED
    BY <2>1, <2>3, <2>6, SameStarted DEF Over
<1> QED
    BY <1>0, <1>1, <1>2, RejectsStep

\* No later instance of the server started a call that an earlier one may still be sent.
LEMMA RequestsOlder ==
    ASSUME Hyp, NEW x \in Started', NEW p \in Requests', p.seq < x.seq
    PROVE  p.boot <= x.boot
<1>0. Types /\ [Next]_vars /\ ClientStep /\ ccall.seq \in Nat /\ ServerHyp
    BY ClientStepOK DEF Hyp, ServerHyp, Types
<1>1. CASE x \in Started
  <2>1. p \in Requests
    <3>1. x.seq <= ccall.seq /\ x.seq \in Nat
      BY <1>0, <1>1, FinishedTypes DEF Hyp, FinishedInv
    <3>2. p.seq # ccall'.seq
      BY <1>0, <3>1 DEF ClientStep
    <3> QED
      BY <1>0, <3>2 DEF ClientStep
  <2> QED
    BY <1>1, <2>1 DEF Hyp, FinishedInv
<1>2. ASSUME NEW e \in execs, Runs(e), x \notin Started PROVE p.boot <= x.boot
  <2>1. x = [seq |-> e.seq, boot |-> boot] /\ p \in Requests
    BY <1>2, StartedNow
  <2> QED
    BY <1>0, <2>1, RequestTypes DEF ServerHyp
<1> QED
    BY <1>1, <1>2, RunSteps, SameStarted

LEMMA FinishedStep ==
    ASSUME Hyp
    PROVE  FinishedInv'
BY HistoryOver, RejectsOver, RequestsOlder DEF FinishedInv, OverFor
-----------------------------------------------------------------------------
(* What the answers of the client allow. *)

\* A call whose client named this instance can be run once the connection is validated.
LEMMA NamedAlone ==
    ASSUME Hyp, NEW k \in Call, Named(k)
    PROVE  /\ BoundTo(k, boot)
           /\ \A x \in Started \cup denied : x.seq = k => x.boot = boot
           /\ \A x \in Started : x.seq > k => x.boot = boot
<1>1. PICK p \in Requests : p.seq = k /\ p.boot = boot
    BY DEF Named
<1>2. boot \in Nat /\ boot # Unknown /\ Types
    BY RpcAssumption DEF Hyp, ServerHyp, Types, Boot, Unknown
<1>3. BoundTo(k, boot)
    BY <1>1, <1>2 DEF Hyp, RequestsAgree
<1>4. ASSUME NEW x \in Started \cup denied, x.seq = k PROVE x.boot = boot
    BY <1>1, <1>2, <1>4 DEF Hyp, FinishedInv, BoundTo
<1>5. ASSUME NEW x \in Started, x.seq > k PROVE x.boot = boot
  <2>1. p.boot <= x.boot /\ x.boot <= boot /\ x.boot \in Nat
    BY <1>1, <1>2, <1>5, FinishedTypes DEF Hyp, FinishedInv, Call
  <2> QED
    BY <1>1, <1>2, <2>1
<1> QED
    BY <1>3, <1>4, <1>5

LEMMA NamedKnown ==
    ASSUME Hyp, NEW k \in Call, Named(k), scte.validated
    PROVE  Known(k)
<1>1. ASSUME NEW x \in Started, x.seq > k PROVE scte.high >= x.seq
  <2>1. x.boot = boot
    BY <1>1, NamedAlone
  <2>2. Closed(x.seq) /\ x.seq \in Nat /\ scte.high \in Nat
    BY <2>1, FinishedTypes DEF Hyp, ServerHyp, Types, FinishedInv
  <2> QED
    BY <2>2 DEF Closed
<1> QED
    BY <1>1, NamedAlone DEF Known

LEMMA RunnableSame ==
    ASSUME Hyp, boot' = boot, ~SctTimer, scte' = scte, NEW k \in Call, k <= ccall.seq, Runnable(k)
    PROVE  Runnable(k)'
<1>1. Requests \subseteq Requests'
    BY ClientStepOK DEF ClientStep, Hyp, ServerHyp
<1>2. Named(k) => Named(k)'
    BY <1>1 DEF Named
<1> QED
    BY <1>2, KnownStep DEF Runnable

\* What ExecInv says of one executor.
ExecFacts(e) ==
    /\ e.answer > 0 => e.answer >= e.seq /\ Known(e.answer)
    /\ Pending(e) /\ (e.stage = "relock" \/ ~scall.needs) => Runnable(e.seq)

LEMMA AnswerKept ==
    ASSUME Hyp, boot' = boot, ~SctTimer, NEW e \in execs, e.answer > 0
    PROVE  /\ e.answer \in Call /\ e.answer <= ccall.seq
           /\ e.answer >= e.seq /\ Known(e.answer) /\ Known(e.answer)'
<1>1. /\ e.answer \in Call /\ e.answer <= ccall.seq
  <2>1. e.answer \in -1 .. MaxCalls /\ e.answer <= ccall.seq
    BY DEF Hyp, ServerHyp, ServerInv, ExecOK, Types
  <2> QED
    BY <2>1, RpcAssumption DEF Call
<1>2. e.answer >= e.seq /\ Known(e.answer)
    BY DEF Hyp, ExecInv
<1> QED
    BY <1>1, <1>2, KnownStep

LEMMA QuietFacts ==
    ASSUME Hyp, boot' = boot, ~SctTimer, Quiet, NEW f \in execs'
    PROVE  ExecFacts(f)'
<1>1. PICK e \in execs : Continues(e, f)
    BY DEF Quiet
<1>2. e.seq \in Call /\ e.seq <= ccall.seq /\ scte' = scte
    BY DEF Hyp, ServerHyp, Types, ServerInv, ExecOK, Quiet
<1>3. f.answer > 0 => f.answer >= f.seq /\ Known(f.answer)'
    BY <1>1, AnswerKept DEF Continues
<1>4. ASSUME Pending(f), f.stage = "relock" \/ ~scall'.needs
      PROVE  Runnable(f.seq)'
  <2>1. /\ f.seq = e.seq /\ Pending(e)
        /\ e.stage = "relock" \/ ~scall.needs \/ Named(e.seq)
    BY <1>1, <1>4 DEF Continues
  <2>2. Runnable(e.seq)
    BY <1>2, <2>1, NamedKnown DEF Hyp, ExecInv, Runnable
  <2> QED
    BY <1>2, <2>1, <2>2, RunnableSame
<1> QED
    BY <1>3, <1>4 DEF ExecFacts, Pending

\* The answer of the client tells that no other instance had its call.
LEMMA AnswerKnown ==
    ASSUME Hyp, WhoAreYou, NEW k \in Call, k = ccall.seq, RightBoot(boot),
           ccall'.boot = boot, ccall'.seq = ccall.seq
    PROVE  Known(k)'
<1>0. /\ boot' = boot /\ scte' = scte /\ Requests' = Requests /\ Started' = Started
      /\ denied' = denied /\ Types
    BY WhoCases, SameStarted DEF Requests, Hyp, ServerHyp
<1>1. ASSUME NEW p \in Requests, p.seq = k, p.boot # Unknown PROVE p.boot = boot
    BY <1>1 DEF Hyp, RequestsAgree, BoundTo, RightBoot
<1>2. BoundTo(k, boot)'
    BY <1>0, <1>1 DEF BoundTo
<1>3. ASSUME NEW x \in Started \cup denied PROVE x.seq <= k /\ (x.seq = k => x.boot = boot)
  <2>1. x.seq <= k /\ BoundTo(x.seq, x.boot) /\ x.boot # Unknown
    BY <1>0, FinishedTypes DEF Hyp, FinishedInv
  <2> QED
    BY <2>1 DEF BoundTo, RightBoot
<1>4. \A x \in Started : ~(x.seq > k)
    BY <1>0, <1>3, FinishedTypes DEF Call
<1> QED
    BY <1>0, <1>2, <1>3, <1>4 DEF Known

LEMMA WhoFacts ==
    ASSUME Hyp, WhoAreYou, NEW f \in execs'
    PROVE  ExecFacts(f)'
<1>0. boot' = boot /\ scte' = scte /\ scall' = scall /\ ServerHyp
    BY WhoCases DEF Hyp
<1>1. CASE ~SctTimer
  <2>1. CASE f \in execs
    <3>1. f.seq \in Call /\ f.seq <= ccall.seq
      BY <2>1 DEF Hyp, ServerHyp, Types, ServerInv, ExecOK
    <3>2. Pending(f) /\ (f.stage = "relock" \/ ~scall.needs) => Runnable(f.seq)'
      BY <1>0, <1>1, <2>1, <3>1, RunnableSame DEF Hyp, ExecInv
    <3> QED
      BY <1>0, <1>1, <2>1, <3>2, AnswerKept DEF ExecFacts, Pending
  <2>2. ASSUME NEW e \in execs, f.seq = e.seq, f.stage = e.stage, f.orphan = e.orphan,
               f.answer > 0 => /\ f.answer = ccall.seq /\ ccall.state # "idle"
                               /\ RightBoot(boot) /\ ccall'.boot = boot /\ ccall'.seq = ccall.seq
        PROVE  ExecFacts(f)'
    <3>1. e.seq \in Call /\ e.seq <= ccall.seq
      BY DEF Hyp, ServerHyp, Types, ServerInv, ExecOK
    <3>2. Pending(f) /\ (f.stage = "relock" \/ ~scall.needs) => Runnable(f.seq)'
      BY <1>0, <1>1, <2>2, <3>1, RunnableSame DEF Hyp, ExecInv, Pending
    <3>3. f.answer > 0 => f.answer \in Call
      BY <2>2 DEF Hyp, ServerHyp, Types
    <3>4. f.answer > 0 => f.answer >= f.seq /\ Known(f.answer)'
      BY <2>2, <3>1, <3>3, AnswerKnown DEF Call
    <3> QED
      BY <1>0, <3>2, <3>4 DEF ExecFacts, Pending
  <2> QED
    BY <1>0, <2>1, <2>2, WhoCases
<1>2. ~SctTimer
    BY <1>0 DEF SctTimer, NoScte
<1> QED
    BY <1>1, <1>2

LEMMA NewFacts ==
    ASSUME Hyp, ~SctTimer, NEW p \in sent, NewRequest(p), NEW f \in execs'
    PROVE  ExecFacts(f)'
<1>0. boot' = boot /\ ServerHyp /\ p.type = "request" /\ NewCall(p) /\ sent' = sent
    BY DEF NewRequest, Hyp
<1>1. CASE f \in execs
  <2>1. f.orphan
    BY <1>0, <1>1, NewRequestFacts
  <2> QED
    BY <1>0, <1>1, <2>1, AnswerKept DEF ExecFacts, Pending
<1>2. CASE f = [seq |-> p.seq, stage |-> "ready", orphan |-> FALSE, answer |-> 0]
  <2>1. f.seq = p.seq /\ f.stage = "ready" /\ f.answer = 0
    BY <1>2
  <2>2. ASSUME ~scall'.needs PROVE Runnable(p.seq)'
    <3>1. p.boot = boot /\ p \in Requests
      BY <1>0, <2>2, NewCallTable DEF NewRequest, SbootOK, ServerHyp, Requests
    <3>2. Named(p.seq) /\ Named(p.seq)'
      BY <1>0, <3>1 DEF Named, Requests
    <3>3. p.seq \in Call /\ p.seq <= ccall.seq
      BY <1>0, NewRequestFacts
    <3>4. CASE scte.validated
      BY <1>0, <3>2, <3>3, <3>4, NamedKnown, KnownStep DEF Runnable
    <3>5. CASE ~scte.validated
      <4>1. ~scte'.validated
        BY <1>0, <3>5, NewCallTable DEF ServerHyp
      <4> QED
        BY <3>2, <4>1 DEF Runnable
    <3> QED
      BY <3>4, <3>5
  <2> QED
    BY <2>1, <2>2 DEF ExecFacts
<1> QED
    BY <1>0, <1>1, <1>2, NewCallTable DEF ServerHyp

LEMMA ValidatedFacts ==
    ASSUME Hyp, races' = {}, ~SctTimer, NEW e \in execs, WayValidate(e), NEW f \in execs'
    PROVE  ExecFacts(f)'
<1>0. boot' = boot /\ ServerHyp /\ e.stage = "way" /\ e.answer > 0
    BY DEF WayValidate, Hyp
<1>1. /\ e.answer \in Call /\ e.answer \in Nat /\ e.answer <= ccall.seq /\ e.answer >= e.seq
      /\ Known(e.answer) /\ Known(e.answer)'
    BY <1>0, AnswerKept DEF Call
<1>2. e.seq \in Nat /\ scall.seq \in Nat /\ scte'.high \in Nat /\ scte'.high >= e.answer
  <2>1. scte.high \in Nat /\ scte'.high \in Nat
    BY <1>0, TableStep DEF ServerHyp, Types, ScteTypes
  <2> QED
    BY <1>0, <1>1, <2>1 DEF WayValidate, ServerHyp, Types, Call
<1>3. \/ f \in execs
      \/ f.seq = e.seq /\ f.answer = 0 /\ ~e.orphan
  <2> DEFINE n == [e EXCEPT !.stage = "relock", !.answer = 0]
  <2>1. n.seq = e.seq /\ n.answer = 0
    BY <1>0 DEF ServerHyp, Types
  <2>2. execs' = execs \ {e} \/ (execs' = (execs \ {e}) \cup {n} /\ ~e.orphan)
    BY DEF WayValidate, Goes
  <2> QED
    BY <2>1, <2>2
<1>4. ASSUME Pending(f) PROVE Runnable(f.seq)'
  <2>1. f.seq = scall.seq /\ f.seq \in Call /\ f.seq <= ccall.seq /\ f.seq \in Nat
    BY <1>0, <1>3, <1>4 DEF Pending, ServerHyp, OwnCall, ServerInv, ExecOK, Types, Call
  <2>2. CASE e.answer > f.seq
    BY <1>1, <1>2, <2>1, <2>2 DEF Runnable
  <2>3. CASE e.answer = f.seq
    BY <1>1, <2>3 DEF Runnable
  <2>4. CASE e.answer < f.seq
    <3>1. f \in execs
      BY <1>1, <1>2, <1>3, <2>1, <2>4
    <3>2. ~scall.needs
      BY <1>0, <1>1, <1>2, <2>1, <2>4 DEF WayValidate, Race
    <3>3. Runnable(f.seq)
      BY <1>4, <3>1, <3>2 DEF Hyp, ExecInv
    <3>4. CASE scte.high > f.seq
      BY <1>0, <1>2, <2>1, <3>4 DEF Runnable, WayValidate, ServerHyp, Types
    <3>5. CASE Known(f.seq)
      BY <1>0, <2>1, <3>5, KnownStep DEF Runnable
    <3>6. CASE Named(f.seq)
      <4>1. ASSUME NEW x \in Started, x.seq > f.seq PROVE scte.high >= x.seq
        <5>1. x.seq \in Nat
          BY <1>0, FinishedTypes DEF ServerHyp
        <5> QED
          BY <1>1, <2>1, <2>4, <4>1, <5>1 DEF Known
      <4>2. Known(f.seq)
        BY <2>1, <3>6, <4>1, NamedAlone DEF Known
      <4> QED
        BY <1>0, <2>1, <4>2, KnownStep DEF Runnable
    <3> QED
      BY <3>3, <3>4, <3>5, <3>6 DEF Runnable
  <2> QED
    BY <1>1, <2>1, <2>2, <2>3, <2>4
<1>5. f.answer > 0 => f.answer >= f.seq /\ Known(f.answer)'
    BY <1>0, <1>3, AnswerKept
<1> QED
    BY <1>4, <1>5 DEF ExecFacts, Pending

LEMMA ExecStep ==
    ASSUME Hyp, races' = {}
    PROVE  ExecInv'
<1>1. SUFFICES ASSUME NEW f \in execs' PROVE ExecFacts(f)'
    BY DEF ExecInv, ExecFacts
<1>2. boot' = boot
    BY BootStep DEF Crash, Hyp
<1>3. ~SctTimer
    BY DEF SctTimer
<1> QED
    BY <1>2, <1>3, ServerCases, QuietFacts, WhoFacts, NewFacts, ValidatedFacts DEF Hyp
-----------------------------------------------------------------------------
(* The results of a call. *)

\* The client keeps the results it has, or takes those of a response.
Keeps ==
    ccall'.all /\ ~ccall'.failed =>
        \/ ccall.all /\ ~ccall.failed /\ ccall'.seq = ccall.seq /\ ccall'.of = ccall.of
        \/ \E p \in sent : /\ p.type = "response" /\ p.seq = ccall.seq
                           /\ ccall'.seq = p.seq /\ ccall'.boot = p.boot /\ ccall'.of = p.of

LEMMA SameKeeps ==
    ASSUME ccall'.all = ccall.all, ccall'.failed = ccall.failed,
           ccall'.seq = ccall.seq, ccall'.of = ccall.of
    PROVE  Keeps
BY DEF Keeps

LEMMA RejectedKeeps ==
    ASSUME Types, NEW b, Rejected(b)
    PROVE  Keeps
<1>1. ccall' \in {[ccall EXCEPT !.failed = TRUE], [ccall EXCEPT !.boot = b],
                  [ccall EXCEPT !.boot = b, !.queued = FALSE, !.all = TRUE, !.failed = TRUE]}
    BY Zenon DEF Rejected
<1>2. CASE ccall' = [ccall EXCEPT !.boot = b]
    BY <1>2, SameKeeps DEF Types
<1>3. CASE ccall'.failed = TRUE
    BY <1>3 DEF Keeps
<1> QED
    BY <1>1, <1>2, <1>3 DEF Types

LEMMA KeepsStep ==
    ASSUME Types, [Next]_vars
    PROVE  Keeps
<1>1. CASE CallStart
  <2>1. ccall'.all = FALSE
    BY <1>1 DEF CallStart
  <2> QED
    BY <2>1 DEF Keeps
<1>2. CASE Timeout
  <2>1. ccall'.failed = TRUE
    BY <1>2 DEF Timeout, Types
  <2> QED
    BY <2>1 DEF Keeps
<1>3. CASE UNCHANGED ccall
    BY <1>3, SameKeeps
<1>4. CASE CallEnd \/ CallOver
    BY <1>4, SameKeeps DEF CallEnd, CallOver, Types
<1>5. ASSUME NEW p \in sent, Response(p) PROVE Keeps
  <2>1. CASE ccall' = [ccall EXCEPT !.failed = TRUE]
    <3>1. ccall'.failed = TRUE
      BY <2>1 DEF Types
    <3> QED
      BY <3>1 DEF Keeps
  <2>2. CASE ccall' = [ccall EXCEPT !.boot = p.boot, !.queued = FALSE, !.all = TRUE, !.of = p.of]
    <3>1. ccall'.seq = ccall.seq /\ ccall'.boot = p.boot /\ ccall'.of = p.of
      BY <2>2 DEF Types
    <3> QED
      BY <1>5, <3>1 DEF Keeps, Response, Interesting
  <2> QED
    BY <1>5, <2>1, <2>2, Zenon DEF Response
<1>6. ASSUME NEW p \in sent, Reject(p) PROVE Keeps
    BY <1>6, RejectedKeeps DEF Reject
<1>7. CASE WhoAreYou
    BY <1>3, <1>7, SameKeeps DEF WhoAreYou, Types
<1>8. CASE WrongBoot
  <2>1. PICK b : b = ccall.boot /\ Rejected(b)
    BY <1>8 DEF WrongBoot
  <2> QED
    BY <2>1, RejectedKeeps
<1>9. CASE ServerReceive
  <2>1. CASE PingWorking
    <3>1. /\ ccall'.seq = ccall.seq /\ ccall'.of = ccall.of
          /\ ccall'.all = ccall.all /\ ccall'.failed = ccall.failed
      BY <2>1 DEF PingWorking, Types
    <3> QED
      BY <3>1, SameKeeps
  <2>2. ASSUME NEW p \in sent, Request(p) PROVE Keeps
    BY <1>3, <2>2 DEF Request, clientVars
  <2>3. ASSUME NEW p \in sent, Rerun(p) PROVE Keeps
    <3>1. PICK b : b = boot /\ Rejected(b)
      BY <2>3 DEF Rerun
    <3> QED
      BY <3>1, RejectedKeeps
  <2>4. ASSUME NEW p \in sent, QuitReply(p) PROVE Keeps
    BY <1>3, <2>4, SameKeeps DEF QuitReply, Types
  <2> QED
    BY <1>9, <2>1, <2>2, <2>3, <2>4 DEF ServerReceive
<1> QED
    BY <1>1, <1>2, <1>3, <1>4, <1>5, <1>6, <1>7, <1>8, <1>9
       DEF Next, Nocall, ClientReceive, ScallTimer, SctTimer, Crash, Begin, Ask, WayValidate,
           WayFail, Proceed, Respond, clientVars, vars

\* A response has the result of its own call, which was started here if it is not idempotent.
Responds(p) ==
    p.type = "response" =>
        /\ p.of = p.seq
        /\ p.seq \in NonIdem => [seq |-> p.seq, boot |-> p.boot] \in Started

LEMMA RespondsStep ==
    ASSUME ServerHyp, \A p \in sent : Responds(p)
    PROVE  \A p \in sent' : Responds(p)'
<1>0. Started \subseteq Started'
    BY StartedKept DEF ServerHyp
<1>1. ASSUME NEW p \in sent', p \in sent PROVE Responds(p)'
    BY <1>0, <1>1 DEF Responds
<1>2. ASSUME NEW p \in sent', p \notin sent, p.type = "response" PROVE Responds(p)'
  <2>0. sent' # sent
    BY <1>2
  <2>1. ~(CallStart \/ Nocall \/ CallEnd)
    BY <1>2 DEF CallStart, Nocall, CallEnd, Send, Header, Packet
  <2>2. ~ServerReceive
    BY <2>0 DEF ServerReceive, PingWorking, Request, Rerun, QuitReply
  <2>3. ASSUME NEW e \in execs, Ask(e) \/ WayFail(e) PROVE FALSE
    BY <1>2, <2>3 DEF Ask, WayFail, Send, Header, Packet
  <2>4. PICK e \in execs : Respond(e)
    BY <2>0, <2>1, <2>2, <2>3
       DEF ServerHyp, Next, Timeout, CallOver, ClientReceive, WhoAreYou, WrongBoot, ScallTimer,
           SctTimer, Crash, Begin, WayValidate, Proceed, serverVars, vars
  <2>5. p = Packet("response", scall.seq, boot, e.seq)
    BY <1>2, <2>4 DEF Respond, Send
  <2>6. scall.seq = e.seq /\ e.stage = "run"
    BY <2>4, Working DEF ServerHyp, Respond
  <2>7. e.seq \in NonIdem => [seq |-> e.seq, boot |-> boot] \in Started
    BY <2>6 DEF ServerHyp, ServerInv, ExecOK
  <2> QED
    BY <1>0, <2>5, <2>6, <2>7 DEF Packet, Responds
<1> QED
    BY <1>1, <1>2 DEF Responds

LEMMA ReplyStep ==
    ASSUME ServerHyp, ReplyInv
    PROVE  ReplyInv'
<1>1. \A p \in sent' : Responds(p)'
    BY RespondsStep DEF ReplyInv, Responds
<1>2. OwnReply'
  <2> SUFFICES ASSUME ccall'.all, ~ccall'.failed
               PROVE  /\ ccall'.of = ccall'.seq
                      /\ ccall'.seq \in NonIdem =>
                            [seq |-> ccall'.seq, boot |-> ccall'.boot] \in Started'
    BY DEF OwnReply, Started
  <2>0. Types /\ Started \subseteq Started'
    BY StartedKept DEF ServerHyp
  <2>1. CASE ccall.all /\ ~ccall.failed /\ ccall'.seq = ccall.seq /\ ccall'.of = ccall.of
    <3>1. ccall.of = ccall.seq
      BY <2>1 DEF ReplyInv, OwnReply
    <3>2. ASSUME ccall.seq \in NonIdem
          PROVE  [seq |-> ccall'.seq, boot |-> ccall'.boot] \in Started'
      <4>1. [seq |-> ccall.seq, boot |-> ccall.boot] \in Started
        BY <2>1, <3>2 DEF ReplyInv, OwnReply, Started
      <4>2. ccall.boot # Unknown
        BY <2>0, <4>1, StartedTypes, RpcAssumption DEF Boot, Unknown
      <4>3. ccall'.boot = ccall.boot
        BY <2>0, <2>1, <4>2, ClientStepOK DEF ClientStep, ServerHyp
      <4> QED
        BY <2>0, <2>1, <4>1, <4>3
    <3> QED
      BY <2>1, <3>1, <3>2
  <2>2. ASSUME NEW p \in sent, p.type = "response", ccall'.seq = p.seq, ccall'.boot = p.boot,
               ccall'.of = p.of
        PROVE  /\ ccall'.of = ccall'.seq
               /\ ccall'.seq \in NonIdem =>
                     [seq |-> ccall'.seq, boot |-> ccall'.boot] \in Started'
    BY <2>0, <2>2 DEF ReplyInv
  <2> QED
    BY <2>0, <2>1, <2>2, KeepsStep DEF Keeps, ServerHyp
<1> QED
    BY <1>1, <1>2 DEF ReplyInv, Responds
-----------------------------------------------------------------------------
(* The properties. *)

LEMMA OrderStep ==
    ASSUME Hyp, AtMostOnce, StartsInOrder
    PROVE  AtMostOnce' /\ StartsInOrder'
<1>1. CASE ran' = ran
    BY <1>1 DEF AtMostOnce, StartsInOrder
<1>2. ASSUME NEW e \in execs, Runs(e) PROVE AtMostOnce' /\ StartsInOrder'
  <2> DEFINE n == Len(ran) + 1
  <2>1. ran \in Seq([seq : NonIdem, boot : Boot]) /\ ran' \in Seq([seq : NonIdem, boot : Boot])
    BY <1>2, RunAppends DEF Hyp, ServerHyp, Types
  <2>2. /\ DOMAIN ran = 1 .. Len(ran) /\ DOMAIN ran' = 1 .. n /\ Len(ran) \in Nat
        /\ ran'[n] = [seq |-> e.seq, boot |-> boot]
        /\ \A i \in DOMAIN ran : ran'[i] = ran[i]
    BY <1>2, <2>1, RunAppends DEF Hyp, ServerHyp
  <2>3. ran'[n].seq = e.seq /\ e.seq \in Nat
    BY <1>2, <2>2, RunFacts DEF Call
  <2>4. \A i \in DOMAIN ran : ran'[i].seq = ran[i].seq /\ ran[i].seq \in Nat /\ ran[i].seq < e.seq
    <3>1. ASSUME NEW i \in DOMAIN ran PROVE ran[i] \in Started /\ ran[i].seq \in Nat
      BY FinishedTypes DEF Started, Hyp, ServerHyp
    <3> QED
      BY <1>2, <2>2, <3>1, RunFacts
  <2>5. \A i \in DOMAIN ran' : i \in DOMAIN ran \/ i = n
    BY <2>2
  <2>6. \A i, j \in DOMAIN ran' : i # j => ran'[i].seq # ran'[j].seq
    BY <2>3, <2>4, <2>5 DEF AtMostOnce
  <2>7. \A i, j \in DOMAIN ran' : i < j => ran'[i].seq <= ran'[j].seq
    <3>1. \A i \in DOMAIN ran : ~(n < i)
      BY <2>2
    <3> QED
      BY <2>2, <2>3, <2>4, <2>5, <3>1 DEF StartsInOrder
  <2> QED
    BY <2>6, <2>7 DEF AtMostOnce, StartsInOrder
<1> QED
    BY <1>1, <1>2, RunSteps

LEMMA RejectedStep ==
    ASSUME Hyp, RejectedNotExecuted
    PROVE  RejectedNotExecuted'
<1>1. \A x \in Started, d \in denied : x.seq # d.seq
    BY DEF RejectedNotExecuted, Started
<1>2. SUFFICES \A x \in Started', d \in denied' : x.seq # d.seq
    BY DEF RejectedNotExecuted, Started
<1>3. Types /\ [Next]_vars
    BY DEF Hyp, ServerHyp
<1>4. CASE ran' = ran
    BY <1>1, <1>3, <1>4, SameStarted, DeniedStep, DenialFacts
<1>5. ASSUME NEW e \in execs, Runs(e) PROVE \A x \in Started', d \in denied' : x.seq # d.seq
  <2>1. denied' = denied /\ Started' = Started \cup {[seq |-> e.seq, boot |-> boot]}
    BY <1>5, StartedNow
  <2>2. \A d \in denied : e.seq # d.seq
    BY <1>5, RunFacts
  <2> QED
    BY <1>1, <2>1, <2>2
<1> QED
    BY <1>4, <1>5, RunSteps

LEMMA TypesStep ==
    ASSUME Hyp
    PROVE  Types'
<1>1. ServerHyp /\ Types /\ PacketTypes /\ ServerInv /\ OwnCall /\ [Next]_vars
    BY DEF Hyp, ServerHyp
<1>2. CcallTypes' /\ ExecTypes' /\ ScteTypes' /\ ScallTypes' /\ boot' \in Boot
    BY <1>1, CcallStep, ExecTypesStep, TableStep
<1>3. ran' \in Seq([seq : NonIdem, boot : Boot])
  <2>1. CASE ran' = ran
    BY <1>1, <2>1 DEF Types
  <2> QED
    BY <1>1, <2>1, RunStep, RunAppends
<1>4. denied' \subseteq [seq : NonIdem, boot : Boot]
  <2>1. ASSUME NEW d \in Rejects, Denies(d) PROVE d \in [seq : NonIdem, boot : Boot]
    <3>1. d.seq \in NonIdem /\ d.boot \in Boot
      BY <2>1, DenialFacts
    <3> QED
      BY <3>1 DEF Rejects
  <2> QED
    BY <1>1, <2>1, DeniedStep DEF Types
<1> QED
    BY <1>2, <1>3, <1>4 DEF Types, CcallTypes, ExecTypes, ScteTypes, ScallTypes

LEMMA InitInv == Init => RpcInv
<1> SUFFICES ASSUME Init PROVE RpcInv
    OBVIOUS
<1>1. Started = {} /\ Requests = {} /\ Rejects = {}
    BY DEF Init, Started, Requests, Rejects
<1>2. Types
  <2>1. ran \in Seq([seq : NonIdem, boot : Boot])
    BY DEF Init
  <2>2. ccall \in [seq : 0 .. MaxCalls, state : {"idle", "recv", "final", "orphan"},
                   boot : 0 .. MaxBoots, queued : BOOLEAN, failed : BOOLEAN,
                   all : BOOLEAN, of : 0 .. MaxCalls]
    BY RpcAssumption DEF Init, Unknown
  <2>3. /\ scte \in [live : BOOLEAN, high : 0 .. MaxCalls, validated : BOOLEAN]
        /\ scall \in [seq : 0 .. MaxCalls, state : {"none", "idle", "recv", "final"},
                      needs : BOOLEAN]
    BY RpcAssumption DEF Init, NoScte, NoScall
  <2>4. ccall.state = "idle" /\ boot \in Boot /\ ccall.boot <= boot /\ execs = {} /\ denied = {}
    BY RpcAssumption DEF Init, Boot, Unknown
  <2> QED
    BY <2>1, <2>2, <2>3, <2>4 DEF Types
<1>3. PacketTypes /\ ServerInv
    BY DEF Init, PacketTypes, ServerInv, NoScte, NoScall
<1>4. RequestsAgree /\ FinishedInv /\ ExecInv /\ ReplyInv
    BY <1>1 DEF Init, RequestsAgree, FinishedInv, ExecInv, ReplyInv, OwnReply
<1>5. AtMostOnce /\ StartsInOrder /\ RejectedNotExecuted
    BY DEF Init, AtMostOnce, StartsInOrder, RejectedNotExecuted
<1> QED
    BY <1>2, <1>3, <1>4, <1>5 DEF RpcInv

LEMMA NextInv == RpcInv /\ OwnCall /\ [Next]_vars /\ races' = {} => RpcInv' /\ OwnCall'
<1> SUFFICES ASSUME RpcInv, OwnCall, [Next]_vars, races' = {} PROVE RpcInv' /\ OwnCall'
    OBVIOUS
<1>0. OwnCall'
    BY OwnCallStep DEF RpcInv
<1>1. ServerHyp /\ Hyp
    BY <1>0 DEF RpcInv, ServerHyp, Hyp
<1>2. Types' /\ PacketTypes' /\ ServerInv'
    BY <1>1, TypesStep, PacketsStep, ServerStep DEF ServerHyp
<1>3. RequestsAgree'
    BY <1>1, RequestsAgreeStep DEF ServerHyp, Hyp
<1>4. FinishedInv' /\ ExecInv'
    BY <1>1, FinishedStep, ExecStep
<1>5. ReplyInv'
    BY <1>1, ReplyStep DEF RpcInv
<1>6. AtMostOnce' /\ StartsInOrder' /\ RejectedNotExecuted'
    BY <1>1, OrderStep, RejectedStep DEF RpcInv
<1> QED
    BY <1>0, <1>2, <1>3, <1>4, <1>5, <1>6 DEF RpcInv

\* What has happened is not undone.
LEMMA RacesGrow == [Next]_vars => races \subseteq races'
<1>1. ASSUME NEW p \in sent, Request(p) PROVE races \subseteq races'
    BY <1>1 DEF Request, NewCall, Race
<1>2. ASSUME NEW e \in execs, WayValidate(e) PROVE races \subseteq races'
    BY <1>2 DEF WayValidate, Race
<1> QED
    BY <1>1, <1>2
       DEF Next, CallStart, Nocall, Timeout, CallEnd, CallOver, ClientReceive, WhoAreYou,
           ServerReceive, PingWorking, Rerun, QuitReply, WrongBoot, ScallTimer, SctTimer, Crash,
           Begin, Ask, WayFail, Proceed, Respond, serverVars, vars

\* The inductive invariant: it holds until there was a race.
UnracedInv == Unraced => RpcInv /\ OwnCall

\* Until there was a race, everything that the guarantees rest on holds, whatever
\* arrives late or twice, and however often the server restarts.
THEOREM RpcInvariant == Spec => []UnracedInv
<1>1. Init => UnracedInv
    BY InitInv DEF Init, UnracedInv, OwnCall
<1>2. UnracedInv /\ [Next]_vars => UnracedInv'
    BY NextInv, RacesGrow DEF UnracedInv, Unraced
<1> QED
    BY <1>1, <1>2, PTL DEF Spec

\* Every variable of the protocol has its type, and executors that may run a call belong
\* to a call handle that is attached to a live connection.
THEOREM RpcTypes == Spec => [](Unraced => RpcTypeOK)
<1>1. UnracedInv => (Unraced => RpcTypeOK)
  <2> SUFFICES ASSUME RpcInv, OwnCall, races = {} PROVE RpcTypeOK
    BY DEF UnracedInv, Unraced
  <2>1. Types /\ PacketTypes /\ ServerInv
    BY DEF RpcInv
  <2>2. sent \subseteq [type : {"request", "quit", "way", "response", "wayFailed"},
                        seq : 0 .. MaxCalls, boot : 0 .. MaxBoots, of : 0 .. MaxCalls]
    BY <2>1 DEF PacketTypes, PacketOK, Packet
  <2> QED
    BY <2>1, <2>2, RpcAssumption DEF Types, ServerInv, OwnCall, RpcTypeOK, Call
<1> QED
    BY <1>1, RpcInvariant, PTL

\* do_request, way_validate and execute_call between them start no call twice that is not
\* idempotent, whatever arrives late or twice and however often the server restarts.
THEOREM CallsOnce == Spec => []AtMostOnceUntilRaced
<1>1. UnracedInv => AtMostOnceUntilRaced
    BY DEF UnracedInv, RpcInv, AtMostOnceUntilRaced
<1> QED
    BY <1>1, RpcInvariant, PTL

\* An old request that arrives after a restart is not executed once a later call was.
THEOREM CallsInOrder == Spec => []StartsInOrderUntilRaced
<1>1. UnracedInv => StartsInOrderUntilRaced
    BY DEF UnracedInv, RpcInv, StartsInOrderUntilRaced
<1> QED
    BY <1>1, RpcInvariant, PTL

\* do_response gives the client the results of its own call, which the instance of the
\* server that the client knows of has executed.
THEOREM RepliesOwn == Spec => []OwnReplyUntilRaced
<1>1. UnracedInv => OwnReplyUntilRaced
    BY DEF UnracedInv, RpcInv, ReplyInv, OwnReplyUntilRaced
<1> QED
    BY <1>1, RpcInvariant, PTL

\* A reject for a who-are-you that failed keeps its promise: no instance of the server
\* executes the call, be it before or after.
THEOREM RejectedNever == Spec => []RejectedNotExecutedUntilRaced
<1>1. UnracedInv => RejectedNotExecutedUntilRaced
    BY DEF UnracedInv, RpcInv, RejectedNotExecutedUntilRaced
<1> QED
    BY <1>1, RpcInvariant, PTL

\* A call that was started has told the client the boot time: the who-are-you before it,
\* or the connection that was validated, has that of the instance that started it.
THEOREM UnknownNever == Spec => []UnknownNotRunUntilRaced
<1>1. UnracedInv => UnknownNotRunUntilRaced
  <2> SUFFICES ASSUME RpcInv, ccall.boot = Unknown, NEW x \in Started, x.seq = ccall.seq
               PROVE  FALSE
    BY DEF UnracedInv, UnknownNotRunUntilRaced, UnknownNotRun, Started
  <2>1. Types /\ BoundTo(x.seq, x.boot)
    BY DEF RpcInv, FinishedInv
  <2>2. x.boot # Unknown
    BY <2>1, FinishedTypes
  <2> QED
    BY <2>1, <2>2 DEF BoundTo
<1> QED
    BY <1>1, RpcInvariant, PTL
-----------------------------------------------------------------------------
(* The refinement of RpcCalls. *)

\* A call that the client thread has left was answered, or it failed.
Ended == ccall.seq # 0 /\ ccall.state # "recv" => ccall.failed \/ ccall.all

\* What the caller was told stays.
SameTold ==
    /\ ccall'.seq = ccall.seq /\ ccall'.of = ccall.of
    /\ ccall'.all = ccall.all /\ ccall'.failed = ccall.failed
    /\ ccall'.state = "recv" \/ ccall.state # "recv" \/ ccall.failed \/ ccall.all

\* The call is answered, perhaps after it failed.
Answered ==
    /\ ccall'.seq = ccall.seq
    /\ ~ccall.all /\ ccall'.all /\ ccall'.failed = ccall.failed

\* The call fails, perhaps again.
Failed ==
    /\ ccall'.seq = ccall.seq /\ ~ccall.all /\ ccall'.failed

LEMMA RejectedTold ==
    ASSUME Types, NEW b, Rejected(b), ~ccall.all
    PROVE  SameTold \/ Failed
<1>1. ccall' \in {[ccall EXCEPT !.failed = TRUE], [ccall EXCEPT !.boot = b],
                  [ccall EXCEPT !.boot = b, !.queued = FALSE, !.all = TRUE, !.failed = TRUE]}
    BY Zenon DEF Rejected
<1>2. ccall'.seq = ccall.seq
    BY <1>1 DEF Types
<1>3. CASE ccall' = [ccall EXCEPT !.boot = b]
    BY <1>3 DEF Types, SameTold
<1>4. CASE ccall'.failed = TRUE
    BY <1>2, <1>4 DEF Failed
<1> QED
    BY <1>1, <1>3, <1>4 DEF Types

ToldStepOK == CallStart \/ SameTold \/ Answered \/ Failed

LEMMA ToldStep ==
    ASSUME Types, [Next]_vars
    PROVE  ToldStepOK
<1>1. CASE UNCHANGED ccall
    BY <1>1 DEF SameTold, ToldStepOK
<1>2. CASE Timeout
  <2>1. ccall'.seq = ccall.seq /\ ccall'.failed = TRUE
    BY <1>2 DEF Timeout, Types
  <2> QED
    BY <1>2, <2>1 DEF ToldStepOK, Failed, Timeout, Waiting
<1>3. CASE CallEnd
    BY <1>3 DEF CallEnd, Types, SameTold, ToldStepOK
<1>4. CASE CallOver
    BY <1>4 DEF CallOver, Types, SameTold, ToldStepOK
<1>5. ASSUME NEW p \in sent, Response(p) PROVE ToldStepOK
  <2>1. CASE ccall' = [ccall EXCEPT !.failed = TRUE]
    <3>1. ccall'.seq = ccall.seq /\ ccall'.failed = TRUE
      BY <2>1 DEF Types
    <3> QED
      BY <1>5, <3>1 DEF Response, Interesting, Failed, ToldStepOK
  <2>2. CASE ccall' = [ccall EXCEPT !.boot = p.boot, !.queued = FALSE, !.all = TRUE, !.of = p.of]
    <3>1. ccall'.seq = ccall.seq /\ ccall'.all = TRUE /\ ccall'.failed = ccall.failed
      BY <2>2 DEF Types
    <3> QED
      BY <1>5, <3>1 DEF ToldStepOK, Answered, Response, Interesting
  <2> QED
    BY <1>5, <2>1, <2>2, Zenon DEF Response
<1>6. ASSUME NEW p \in sent, Reject(p) PROVE ToldStepOK
    BY <1>6, RejectedTold DEF ToldStepOK, Reject, Interesting
<1>7. CASE WhoAreYou
    BY <1>1, <1>7 DEF WhoAreYou, Types, SameTold, ToldStepOK
<1>8. CASE WrongBoot
  <2>1. PICK b : b = ccall.boot /\ Rejected(b)
    BY <1>8 DEF WrongBoot
  <2> QED
    BY <1>8, <2>1, RejectedTold DEF ToldStepOK, WrongBoot
<1>9. CASE ServerReceive
  <2>1. CASE PingWorking
    BY <2>1 DEF PingWorking, Waiting, Types, SameTold, ToldStepOK
  <2>2. ASSUME NEW p \in sent, Request(p) PROVE ToldStepOK
    BY <1>1, <2>2 DEF Request, clientVars
  <2>3. ASSUME NEW p \in sent, Rerun(p) PROVE ToldStepOK
    <3>1. PICK b : b = boot /\ Rejected(b)
      BY <2>3 DEF Rerun
    <3> QED
      BY <2>3, <3>1, RejectedTold DEF ToldStepOK, Rerun, Interesting
  <2>4. ASSUME NEW p \in sent, QuitReply(p) PROVE ToldStepOK
    BY <1>1, <2>4 DEF QuitReply, Types, SameTold, ToldStepOK
  <2> QED
    BY <1>9, <2>1, <2>2, <2>3, <2>4 DEF ServerReceive
<1>10. CASE Nocall \/ ScallTimer \/ SctTimer \/ Crash \/ UNCHANGED vars
    BY <1>1, <1>10 DEF Nocall, ScallTimer, SctTimer, Crash, clientVars, vars
<1>11. ASSUME NEW e \in execs, Begin(e) \/ Ask(e) \/ WayValidate(e) \/ WayFail(e)
                                  \/ Proceed(e) \/ Respond(e)
       PROVE  ToldStepOK
    BY <1>1, <1>11 DEF Begin, Ask, WayValidate, WayFail, Proceed, Respond, clientVars
<1>12. CASE ClientReceive
    BY <1>5, <1>6, <1>12 DEF ClientReceive
<1>13. CASE CallStart
    BY <1>13 DEF ToldStepOK
<1> QED
    BY <1>2, <1>3, <1>4, <1>7, <1>8, <1>9, <1>10, <1>11, <1>12, <1>13 DEF Next

LEMMA EndedStep ==
    ASSUME Types, Ended, [Next]_vars
    PROVE  Ended'
<1>1. CASE CallStart
  <2>1. ccall'.state = "recv"
    BY <1>1 DEF CallStart
  <2> QED
    BY <2>1 DEF Ended
<1>2. CASE SameTold
    BY <1>2 DEF SameTold, Ended
<1>3. CASE Answered
    BY <1>3 DEF Answered, Ended
<1>4. CASE Failed
    BY <1>4 DEF Failed, Ended
<1> QED
    BY <1>1, <1>2, <1>3, <1>4, ToldStep DEF ToldStepOK

\* A call is denied, or its execution is, only while it fails.
LEMMA DeniedFails ==
    ASSUME Types, [Next]_vars
    PROVE  denied' = denied \/ Failed
<1>1. ASSUME NEW p \in sent, Reject(p) PROVE denied' = denied \/ Failed
  <2> SUFFICES ASSUME ccall.state = "recv", RightBoot(p.boot) PROVE Failed
    BY <1>1 DEF Reject
  <2>1. ccall.state = "recv" /\ RightBoot(p.boot) /\ ~ccall.all
    BY <1>1 DEF Reject, Interesting
  <2>2. ccall' = [ccall EXCEPT !.boot = p.boot, !.queued = FALSE, !.all = TRUE,
                               !.failed = TRUE]
    BY <1>1, <2>1 DEF Reject, Rejected
  <2>3. ccall'.seq = ccall.seq /\ ccall'.failed = TRUE
    BY <2>2 DEF Types
  <2> QED
    BY <2>1, <2>3 DEF Failed
<1>2. CASE ClientReceive
    BY <1>1, <1>2 DEF ClientReceive, Response
<1>3. CASE WhoAreYou \/ WrongBoot \/ ScallTimer \/ SctTimer \/ Crash
    BY <1>3 DEF WhoAreYou, WrongBoot, ScallTimer, SctTimer, Crash, clientVars
<1>4. CASE ServerReceive
    BY <1>4 DEF ServerReceive, PingWorking, Request, Rerun, QuitReply, clientVars
<1>5. CASE CallStart \/ Nocall \/ Timeout \/ CallEnd \/ CallOver \/ UNCHANGED vars
    BY <1>5 DEF CallStart, Nocall, Timeout, CallEnd, CallOver, clientVars, vars
<1>6. ASSUME NEW e \in execs, Begin(e) \/ Ask(e) \/ WayValidate(e) \/ WayFail(e)
                                 \/ Proceed(e) \/ Respond(e)
      PROVE  denied' = denied \/ Failed
    BY <1>6 DEF Begin, Ask, WayValidate, WayFail, Proceed, Respond, clientVars
<1> QED
    BY <1>2, <1>3, <1>4, <1>5, <1>6 DEF Next

\* The numbers of the calls that were started, and of those that were denied.
StartedSeqs == [i \in DOMAIN ran |-> ran[i].seq]
DeniedSeqs == {d.seq : d \in denied}

\* What the caller hears, in terms of the call handle.
LEMMA ToldIs ==
    ASSUME Types
    PROVE  /\ ccall.failed => Told = Calls!Error
           /\ ~ccall.failed /\ ccall.all => Told = Calls!Result(ccall.of)
           /\ ~ccall.failed /\ ~ccall.all => Told = Calls!Nothing
BY DEF Told, Calls!Error, Calls!Result, Calls!Nothing

LEMMA CallsMake ==
    ASSUME Types, Types', Ended, CallStart, Unraced, Unraced'
    PROVE  Calls!Make
<1>1. ccall.seq < MaxCalls /\ ccall'.seq = ccall.seq + 1
      /\ ccall'.failed = FALSE /\ ccall'.all = FALSE
    BY DEF CallStart
<1>2. ccall.state # "recv" /\ UNCHANGED <<ran, denied>>
    BY DEF CallStart, serverVars
<1>3. ccall.seq = 0 \/ Told # Calls!Nothing
    BY <1>2, ToldIs DEF Ended, Calls!Nothing, Calls!Error, Calls!Result
<1>4. Told' = Calls!Nothing
    BY <1>1 DEF Told, Calls!Nothing
<1> QED
    BY <1>1, <1>2, <1>3, <1>4 DEF Calls!Make, Calls!Nothing

LEMMA CallsReturn ==
    ASSUME Types, Types', OwnReply', Answered, ~ccall.failed, UNCHANGED <<ran, denied>>,
           Unraced, Unraced'
    PROVE  Calls!Return
<1>1. ccall'.all /\ ~ccall'.failed /\ ~ccall.all /\ ccall'.seq = ccall.seq
    BY DEF Answered
<1>2. Told = Calls!Nothing
    BY <1>1, ToldIs
<1>3. ccall'.of = ccall'.seq
    BY <1>1 DEF OwnReply
<1>4. Told' = Calls!Result(ccall.seq)
    BY <1>1, <1>3 DEF Told, Calls!Result
<1>5. ccall.seq \in NonIdem => \E i \in DOMAIN ran : ran[i].seq = ccall.seq
    BY <1>1 DEF OwnReply
<1> QED
    BY <1>1, <1>2, <1>4, <1>5 DEF Calls!Return, Calls!Nothing, Calls!Result

LEMMA CallsFail ==
    ASSUME Types, Types', Failed, UNCHANGED <<ran, denied>>, Unraced, Unraced'
    PROVE  Calls!Fail \/ UNCHANGED Calls!callsVars
<1>1. ccall'.seq = ccall.seq /\ ~ccall.all /\ ccall'.failed
    BY DEF Failed
<1>2. Told' = Calls!Error
    BY <1>1 DEF Told, Calls!Error
<1>3. Told = Calls!Nothing \/ Told = Calls!Error
    BY <1>1, ToldIs
<1> QED
    BY <1>1, <1>2, <1>3 DEF Calls!Fail, Calls!callsVars, Calls!Nothing, Calls!Error

LEMMA CallsDeny ==
    ASSUME Hyp, denied' # denied, Unraced, Unraced'
    PROVE  Calls!Deny
<1>1. PICK d \in Rejects : denied' = denied \cup {d} /\ Denies(d)
    BY DeniedStep DEF Hyp, ServerHyp
<1>2. ccall'.seq = ccall.seq /\ ~ccall.all /\ ccall'.failed
    BY DeniedFails DEF Failed, Hyp, ServerHyp
<1>3. Told' = Calls!Error
    BY <1>2 DEF Told, Calls!Error
<1>4. Told = Calls!Nothing \/ Told = Calls!Error
    BY <1>2, ToldIs DEF Hyp, ServerHyp
<1>5. d.seq = ccall.seq /\ ran' = ran
    BY <1>1 DEF Denies, serverVars
<1>6. \A i \in DOMAIN ran : ran[i].seq # ccall.seq
    BY <1>1, <1>5, DenialFacts DEF Started
<1>7. DeniedSeqs' = DeniedSeqs \cup {ccall.seq}
    BY <1>1, <1>5 DEF DeniedSeqs
<1> QED
    BY <1>2, <1>3, <1>4, <1>5, <1>6, <1>7
       DEF Calls!Deny, Calls!Nothing, Calls!Error, DeniedSeqs

LEMMA SeqsAppend ==
    ASSUME Hyp, NEW e \in execs, Runs(e)
    PROVE  StartedSeqs' = Append(StartedSeqs, e.seq)
<1> DEFINE n == Len(ran) + 1
           a == Append(StartedSeqs, e.seq)
<1>1. /\ ran \in Seq([seq : NonIdem, boot : Boot]) /\ ran' \in Seq([seq : NonIdem, boot : Boot])
      /\ ran'[n] = [seq |-> e.seq, boot |-> boot]
      /\ Len(ran') = n
      /\ \A i \in DOMAIN ran : ran'[i] = ran[i]
    BY RunAppends DEF Hyp, ServerHyp, Types
<1>2. DOMAIN ran = 1 .. Len(ran) /\ DOMAIN ran' = 1 .. n /\ Len(ran) \in Nat
    BY <1>1
<1>3. e.seq \in NonIdem
    BY RunFacts
<1>4. \A i \in 1 .. Len(ran) : ran[i].seq \in NonIdem
  <2>1. \A i \in 1 .. Len(ran) : ran[i] \in [seq : NonIdem, boot : Boot]
    BY <1>1, ElementOfSeq
  <2> QED
    BY <2>1
<1>5. StartedSeqs \in Seq(NonIdem) /\ Len(StartedSeqs) = Len(ran)
  <2>1. StartedSeqs \in [1 .. Len(ran) -> NonIdem]
    BY <1>2, <1>4 DEF StartedSeqs
  <2> QED
    BY <1>2, <2>1, LenProperties, SeqDef
<1>6. /\ a \in Seq(NonIdem) /\ Len(a) = n
      /\ \A i \in 1 .. Len(ran) : a[i] = StartedSeqs[i]
      /\ a[n] = e.seq
    BY <1>3, <1>5, AppendProperties
<1>7. a = [i \in 1 .. n |-> a[i]]
    BY <1>2, <1>6, LenProperties
<1>8. StartedSeqs' = [i \in 1 .. n |-> ran'[i].seq]
    BY <1>2 DEF StartedSeqs
<1>9. \A i \in 1 .. n : a[i] = ran'[i].seq
  <2>1. ASSUME NEW i \in 1 .. Len(ran) PROVE a[i] = ran'[i].seq
    BY <1>1, <1>2, <1>6, <2>1 DEF StartedSeqs
  <2>2. a[n] = ran'[n].seq
    BY <1>1, <1>6
  <2>3. \A i \in 1 .. n : i \in 1 .. Len(ran) \/ i = n
    BY <1>2
  <2> QED
    BY <2>1, <2>2, <2>3
<1> HIDE DEF a, n
<1>10. StartedSeqs' = a
    BY <1>7, <1>8, <1>9
<1> QED
    BY <1>10 DEF a

LEMMA CallsStart ==
    ASSUME Hyp, NEW e \in execs, Runs(e), Unraced, Unraced'
    PROVE  e.seq \in NonIdem /\ Calls!Start(e.seq)
<1>1. /\ e.seq \in NonIdem /\ e.seq <= ccall.seq
      /\ \A x \in Started : x.seq < e.seq
      /\ \A d \in denied : d.seq # e.seq
    BY RunFacts
<1>2. UNCHANGED <<ccall, denied>>
    BY DEF Runs, clientVars
<1>3. StartedSeqs' = Append(StartedSeqs, e.seq)
    BY SeqsAppend
<1>4. \A i \in DOMAIN StartedSeqs : StartedSeqs[i] < e.seq
    BY <1>1 DEF StartedSeqs, Started
<1>5. Told' = Told
    BY <1>2 DEF Told
<1>6. e.seq \notin DeniedSeqs /\ DeniedSeqs' = DeniedSeqs
    BY <1>1, <1>2 DEF DeniedSeqs
<1> QED
    BY <1>1, <1>2, <1>3, <1>4, <1>5, <1>6 DEF Calls!Start, StartedSeqs, DeniedSeqs

\* A step that is no race is one of the abstract service, or it changes nothing there.
LEMMA UnracedStep ==
    ASSUME RpcInv, Ended, OwnCall, Unraced, Unraced', [Next]_vars
    PROVE  Calls!CallsNext \/ UNCHANGED Calls!callsVars
<1>1. Hyp /\ Types /\ Types' /\ OwnReply'
    BY NextInv DEF RpcInv, ServerHyp, Hyp, ReplyInv, Unraced
<1>2. CASE CallStart
    BY <1>1, <1>2, CallsMake DEF Calls!CallsNext
<1>3. ASSUME NEW e \in execs, Runs(e) PROVE Calls!CallsNext
    BY <1>1, <1>3, CallsStart DEF Calls!CallsNext
<1>4. CASE denied' # denied
    BY <1>1, <1>4, CallsDeny DEF Calls!CallsNext
<1>5. ASSUME ~CallStart, ran' = ran, denied' = denied
      PROVE  Calls!CallsNext \/ UNCHANGED Calls!callsVars
  <2>1. CASE SameTold
    <3>1. Told' = Told /\ ccall'.seq = ccall.seq
      BY <2>1 DEF SameTold, Told
    <3> QED
      BY <1>5, <3>1 DEF Calls!callsVars
  <2>2. CASE Answered /\ ~ccall.failed
    BY <1>1, <1>5, <2>2, CallsReturn DEF Calls!CallsNext
  <2>3. CASE Answered /\ ccall.failed
    <3>1. Told' = Told /\ ccall'.seq = ccall.seq
      BY <2>3 DEF Answered, Told
    <3> QED
      BY <1>5, <3>1 DEF Calls!callsVars
  <2>4. CASE Failed
    BY <1>1, <1>5, <2>4, CallsFail DEF Calls!CallsNext
  <2> QED
    BY <1>1, <1>5, <2>1, <2>2, <2>3, <2>4, ToldStep DEF ToldStepOK
<1> QED
    BY <1>1, <1>2, <1>3, <1>4, <1>5, RunSteps

\* A race shows nothing to the client yet, and starts no call.
LEMMA RaceStep ==
    ASSUME [Next]_vars, Unraced, ~Unraced'
    PROVE  UNCHANGED <<ccall, ran, denied>>
<1>1. races' # races
    BY DEF Unraced
<1>2. ASSUME NEW p \in sent, Request(p), ServerReceive PROVE UNCHANGED <<ccall, ran, denied>>
    BY <1>2 DEF Request, ServerReceive, clientVars
<1>3. ASSUME NEW e \in execs, WayValidate(e) PROVE UNCHANGED <<ccall, ran, denied>>
    BY <1>3 DEF WayValidate, clientVars
<1> QED
    BY <1>1, <1>2, <1>3
       DEF Next, CallStart, Nocall, Timeout, CallEnd, CallOver, ClientReceive, WhoAreYou,
           ServerReceive, PingWorking, Rerun, QuitReply, WrongBoot, ScallTimer, SctTimer, Crash,
           Begin, Ask, WayFail, Proceed, Respond, serverVars, vars

\* The inductive invariant of the refinement.
CallsInv == Unraced => RpcInv /\ OwnCall /\ Ended

LEMMA CallsStep == CallsInv /\ [Next]_vars => [Calls!CallsNext]_(Calls!callsVars)
<1> SUFFICES ASSUME CallsInv, [Next]_vars
             PROVE  Calls!CallsNext \/ UNCHANGED Calls!callsVars
    OBVIOUS
<1>1. CASE Unraced /\ Unraced'
    BY <1>1, UnracedStep DEF CallsInv
<1>2. CASE Unraced /\ ~Unraced'
  <2>1. UNCHANGED <<ccall, ran, denied>>
    BY <1>2, RaceStep
  <2>2. Told' = Told
    BY <2>1 DEF Told
  <2>3. Calls!LoseTrack
    BY <1>2, <2>1, <2>2 DEF Calls!LoseTrack
  <2> QED
    BY <2>3 DEF Calls!CallsNext
<1>3. CASE ~Unraced
  <2>1. ~Unraced'
    BY <1>3, RacesGrow DEF Unraced
  <2> QED
    BY <1>3, <2>1 DEF Calls!CallsNext
<1> QED
    BY <1>1, <1>2, <1>3

\* To its caller, the runtime is the service of RpcCalls, for any calls, any restarts and
\* any packets that come late or twice: until the server loses track of its calls in one
\* of the races, calls start once and in order, a result is that of the caller's call, and
\* a call that was denied is never started.
THEOREM DatagramImplementsCalls == Spec => ImplementsCallsUntilRaced
<1>1. Init => Calls!CallsInit /\ CallsInv
  <2> SUFFICES ASSUME Init PROVE Calls!CallsInit /\ CallsInv
    OBVIOUS
  <2>1. /\ ccall.seq = 0 /\ ~ccall.failed /\ ~ccall.all /\ ran = << >> /\ denied = {}
        /\ Unraced
    BY DEF Init, Unraced
  <2>2. StartedSeqs = << >> /\ DeniedSeqs = {}
    BY <2>1 DEF StartedSeqs, DeniedSeqs
  <2>3. RpcInv /\ OwnCall
    BY InitInv DEF Init, OwnCall
  <2> QED
    BY <2>1, <2>2, <2>3
       DEF CallsInv, Ended, Told, Calls!CallsInit, Calls!Nothing, StartedSeqs, DeniedSeqs
<1>2. CallsInv /\ [Next]_vars => CallsInv'
  <2> SUFFICES ASSUME CallsInv, [Next]_vars, Unraced' PROVE RpcInv' /\ OwnCall' /\ Ended'
    BY DEF CallsInv
  <2>1. Unraced
    BY RacesGrow DEF Unraced
  <2> QED
    BY <2>1, NextInv, EndedStep DEF CallsInv, RpcInv, Unraced
<1> QED
    BY <1>1, <1>2, CallsStep, PTL DEF Spec, ImplementsCallsUntilRaced, Calls!CallsSpec
=============================================================================
