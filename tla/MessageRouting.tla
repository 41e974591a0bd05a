--------------------------- MODULE MessageRouting ---------------------------
(***************************************************************************)
(* A submitted message on its way from one session to another: the handler *)
(* that takes the submit_sm calls RouteMessage on SMPPServer, whose D-Bus   *)
(* thread picks a session from sessions_ and calls DeliverSm on that        *)
(* session's handler, whose own D-Bus thread writes the deliver_sm.         *)
(*                                                                          *)
(* Every call is synchronous and may time out at the caller while it is     *)
(* still on its way, or being served.  Each session has two threads (see    *)
(* SmppSession); the server's D-Bus thread serves one call at a time, in    *)
(* the order of arrival, and is blocked while it waits for DeliverSm.       *)
(* Binding, reading and keepalive are those of SmppSession and are reduced  *)
(* here to the changes of the session's state.                              *)
(***************************************************************************)
EXTENDS Integers, Sequences, FiniteSets

CONSTANTS
  NumSessions,  \* sessions are numbered in the order of their uuids
  Msgs,         \* messages that may be submitted
  Restarts      \* bound: restarts of the server process

Sessions == 1 .. NumSessions

RxStates == {"BOUND_RX", "BOUND_TRX"}

TxStates == {"BOUND_TX", "BOUND_TRX"}

States == {"NEW", "OPEN", "UNBOUND"} \cup RxStates \cup TxStates

NoMsg == "no message"

ASSUME RoutingAssumption ==
  /\ NumSessions \in Nat /\ Restarts \in Nat
  /\ NoMsg \notin Msgs /\ States \cap Msgs = {} /\ "bind_resp" \notin Msgs

UpdateCall(s, st) == [method |-> "UpdateSessionDetails", from |-> s, arg |-> st]

RouteCall(s, m) == [method |-> "RouteMessage", from |-> s, arg |-> m]

Calls == {UpdateCall(s, st) : s \in Sessions, st \in States}
           \cup {RouteCall(s, m) : s \in Sessions, m \in Msgs}

\* What the asio thread of a session is doing when it is not in a call.
Idle == [method |-> "none", from |-> 0, arg |-> NoMsg]

Bound == [method |-> "bound", from |-> 0, arg |-> NoMsg]

\* What RouteMessage returned for a message: nothing yet, or no session.
Pending == -1

Empty == 0

NoRoute == [msg |-> NoMsg, from |-> 0, to |-> 0]

VARIABLES
  state,     \* state_ of each session; "NEW" before its connection is accepted
  pc,        \* its asio thread: Idle, Bound or the call it is blocked in
  deliverq,  \* DeliverSm calls waiting for its D-Bus thread
  dpc,       \* its D-Bus thread: NoMsg or the message it is about to send
  wire,      \* what was written to its connection: bind_resp and messages
  queue,     \* calls waiting for the server's D-Bus thread
  info,      \* the state in SmppServerService::sessions_, "absent" if none
  routing,   \* the RouteMessage the server is in: NoRoute when it is idle
  submitted, \* messages of each session answered with ESME_ROK, in order
  result,    \* what RouteMessage returned: Pending, Empty or a session
  restarts   \* restarts of the server so far

sessionVars == <<state, pc, deliverq, dpc, wire>>
serverVars  == <<queue, info, routing>>
vars == <<sessionVars, serverVars, submitted, result, restarts>>

Range(f) == {f[i] : i \in DOMAIN f}

accepted == UNION {Range(submitted[s]) : s \in Sessions}

Init ==
  /\ state = [s \in Sessions |-> "NEW"] /\ pc = [s \in Sessions |-> Idle]
  /\ deliverq = [s \in Sessions |-> <<>>] /\ dpc = [s \in Sessions |-> NoMsg]
  /\ wire = [s \in Sessions |-> <<>>]
  /\ queue = <<>> /\ info = [s \in Sessions |-> "absent"] /\ routing = NoRoute
  /\ submitted = [s \in Sessions |-> <<>>] /\ result = [m \in Msgs |-> Pending] /\ restarts = 0

-----------------------------------------------------------------------------
(* The asio threads of the sessions.                                        *)

\* send_pdu: on a closed socket nothing is written.
send_pdu(s, p) ==
  wire' = IF state[s] = "UNBOUND" THEN wire ELSE [wire EXCEPT ![s] = Append(@, p)]

\* Mutant: the server is told of the bind before the response is sent.
handle_bind_announced(s) ==
  /\ pc[s] = Idle /\ state[s] = "OPEN"
  /\ \E st \in RxStates \cup TxStates :
       /\ state' = [state EXCEPT ![s] = st]
       /\ queue' = Append(queue, UpdateCall(s, st))
  /\ pc' = [pc EXCEPT ![s] = Bound]
  /\ UNCHANGED <<deliverq, dpc, wire, info, routing, submitted, result, restarts>>

\* A bind was accepted: the state is set before the response is sent.
handle_bind(s) ==
  /\ pc[s] = Idle /\ state[s] = "OPEN"
  /\ \E st \in RxStates \cup TxStates : state' = [state EXCEPT ![s] = st]
  /\ pc' = [pc EXCEPT ![s] = Bound]
  /\ UNCHANGED <<deliverq, dpc, wire, serverVars, submitted, result, restarts>>

\* The response is sent, then update_session_details calls the server.
send_bind_resp(s) ==
  /\ pc[s] = Bound
  /\ send_pdu(s, "bind_resp")
  /\ pc' = [pc EXCEPT ![s] = UpdateCall(s, state[s])]
  /\ queue' = Append(queue, UpdateCall(s, state[s]))
  /\ UNCHANGED <<state, deliverq, dpc, info, routing, submitted, result, restarts>>

\* submit_sm is answered with ESME_ROK, then the server is called.
handle_submit_sm(s, m) ==
  /\ pc[s] = Idle /\ state[s] \in TxStates /\ m \notin accepted
  /\ submitted' = [submitted EXCEPT ![s] = Append(@, m)]
  /\ pc' = [pc EXCEPT ![s] = RouteCall(s, m)]
  /\ queue' = Append(queue, RouteCall(s, m))
  /\ UNCHANGED <<state, deliverq, dpc, wire, info, routing, result, restarts>>

\* The call times out: the exception is caught and logged.
call_times_out(s) ==
  /\ pc[s] \in Calls
  /\ pc' = [pc EXCEPT ![s] = Idle]
  /\ UNCHANGED <<state, deliverq, dpc, wire, serverVars, submitted, result, restarts>>

do_disconnect(s) ==
  /\ pc[s] = Idle /\ state[s] \notin {"NEW", "UNBOUND"}
  /\ state' = [state EXCEPT ![s] = "UNBOUND"]
  /\ UNCHANGED <<pc, deliverq, dpc, wire, serverVars, submitted, result, restarts>>

-----------------------------------------------------------------------------
(* The server: its accept chain and its D-Bus thread.                       *)

\* A connection is accepted and listed, before or after a restart; SocketHandoff
\* has the way to its handler.  Its uuid is a millisecond and a random number, so
\* that the order of the uuids need not be the order of the connections.
register_session(s) ==
  /\ state[s] = "NEW"
  /\ state' = [state EXCEPT ![s] = "OPEN"]
  /\ info' = [info EXCEPT ![s] = "OPEN"]
  /\ UNCHANGED <<pc, deliverq, dpc, wire, queue, routing, submitted, result, restarts>>

\* The reply to call c wakes its caller, if that still waits for it.
reply(c) == pc' = [pc EXCEPT ![c.from] = IF @ = c THEN Idle ELSE @]

Serves(method) ==
  routing = NoRoute /\ queue # <<>> /\ Head(queue).method = method

\* An unknown uuid is ignored.
UpdateSessionDetails ==
  /\ Serves("UpdateSessionDetails")
  /\ LET c == Head(queue)
     IN  /\ info' = [info EXCEPT ![c.from] = IF @ = "absent" THEN @ ELSE c.arg]
         /\ reply(c)
  /\ queue' = Tail(queue)
  /\ UNCHANGED <<state, deliverq, dpc, wire, routing, submitted, result, restarts>>

Listed == {s \in Sessions : info[s] \in RxStates}

\* No session is listed as a receiver: RouteMessage returns an empty string.
RouteMessage_none ==
  /\ Serves("RouteMessage") /\ Listed = {}
  /\ result' = [result EXCEPT ![Head(queue).arg] = Empty]
  /\ reply(Head(queue))
  /\ queue' = Tail(queue)
  /\ UNCHANGED <<state, deliverq, dpc, wire, info, routing, submitted, restarts>>

\* The first listed receiver is called; sessions_mutex_ is not held meanwhile.
RouteMessage ==
  /\ Serves("RouteMessage")
  /\ \E t \in Listed :
       /\ \A u \in Listed : t <= u
       /\ routing' = [msg |-> Head(queue).arg, from |-> Head(queue).from, to |-> t]
       /\ deliverq' = [deliverq EXCEPT ![t] = Append(@, Head(queue).arg)]
  /\ queue' = Tail(queue)
  /\ UNCHANGED <<state, pc, dpc, wire, info, submitted, result, restarts>>

\* RouteMessage returns r, a session or Empty, and its reply is sent.
route_returns(r) ==
  /\ result' = [result EXCEPT ![routing.msg] = r]
  /\ reply(RouteCall(routing.from, routing.msg))
  /\ routing' = NoRoute

\* Mutant: a message whose DeliverSm timed out is tried again.
deliver_times_out_retries ==
  /\ routing # NoRoute
  /\ queue' = Append(queue, RouteCall(routing.from, routing.msg))
  /\ routing' = NoRoute
  /\ UNCHANGED <<state, pc, deliverq, dpc, wire, info, submitted, result, restarts>>

\* DeliverSm times out; the message stays with the session that was called.
deliver_times_out ==
  /\ routing # NoRoute
  /\ route_returns(Empty)
  /\ UNCHANGED <<state, deliverq, dpc, wire, queue, info, submitted, restarts>>

\* The server is restarted: sessions_ and the calls it held are gone, and the sessions
\* of before go on, unknown to it.
server_restarts ==
  /\ restarts < Restarts /\ restarts' = restarts + 1
  /\ queue' = <<>> /\ routing' = NoRoute
  /\ info' = [s \in Sessions |-> "absent"]
  /\ pc' = [s \in Sessions |-> IF pc[s] \in Calls THEN Idle ELSE pc[s]]
  /\ UNCHANGED <<state, deliverq, dpc, wire, submitted, result>>

-----------------------------------------------------------------------------
(* The D-Bus threads of the sessions.                                       *)

\* Mutant: any answer of the session called is taken for the awaited one.
answered_any(t, m, r) ==
  IF routing.to = t
  THEN route_returns(r)
  ELSE UNCHANGED <<result, pc, routing>>

\* A DeliverSm by session t has an answer r; the server may wait no longer.
answered(t, m, r) ==
  IF routing.to = t /\ routing.msg = m
  THEN route_returns(r)
  ELSE UNCHANGED <<result, pc, routing>>

\* DeliverSm finds the session not bound as a receiver and throws.
DeliverSm_refused(t) ==
  /\ dpc[t] = NoMsg /\ deliverq[t] # <<>> /\ state[t] \notin RxStates
  /\ deliverq' = [deliverq EXCEPT ![t] = Tail(@)]
  /\ answered(t, Head(deliverq[t]), Empty)
  /\ UNCHANGED <<state, dpc, wire, queue, info, submitted, restarts>>

\* Mutant: DeliverSm runs on the session's asio thread.
DeliverSm_on_asio(t) ==
  /\ pc[t] = Idle
  /\ dpc[t] = NoMsg /\ deliverq[t] # <<>> /\ state[t] \in RxStates
  /\ dpc' = [dpc EXCEPT ![t] = Head(deliverq[t])]
  /\ deliverq' = [deliverq EXCEPT ![t] = Tail(@)]
  /\ UNCHANGED <<state, pc, wire, serverVars, submitted, result, restarts>>

\* Mutant: the newest waiting call is served first.
DeliverSm_newest(t) ==
  /\ dpc[t] = NoMsg /\ deliverq[t] # <<>> /\ state[t] \in RxStates
  /\ dpc' = [dpc EXCEPT ![t] = deliverq[t][Len(deliverq[t])]]
  /\ deliverq' = [deliverq EXCEPT ![t] = SubSeq(@, 1, Len(@) - 1)]
  /\ UNCHANGED <<state, pc, wire, serverVars, submitted, result, restarts>>

\* DeliverSm passes its check and releases state_mutex_.
DeliverSm(t) ==
  /\ dpc[t] = NoMsg /\ deliverq[t] # <<>> /\ state[t] \in RxStates
  /\ dpc' = [dpc EXCEPT ![t] = Head(deliverq[t])]
  /\ deliverq' = [deliverq EXCEPT ![t] = Tail(@)]
  /\ UNCHANGED <<state, pc, wire, serverVars, submitted, result, restarts>>

\* It sends, whatever the state is now, and returns the sequence number.
send_deliver_sm(t) ==
  /\ dpc[t] # NoMsg
  /\ send_pdu(t, dpc[t])
  /\ answered(t, dpc[t], t)
  /\ dpc' = [dpc EXCEPT ![t] = NoMsg]
  /\ UNCHANGED <<state, deliverq, queue, info, submitted, restarts>>

AsioStep(s) ==
  \/ handle_bind(s) \/ send_bind_resp(s) \/ call_times_out(s) \/ do_disconnect(s)
  \/ \E m \in Msgs : handle_submit_sm(s, m)

ServerStep ==
  \/ UpdateSessionDetails \/ RouteMessage_none \/ RouteMessage
  \/ deliver_times_out \/ server_restarts \/ \E s \in Sessions : register_session(s)

DbusStep(s) == DeliverSm_refused(s) \/ DeliverSm(s) \/ send_deliver_sm(s)

Next == ServerStep \/ \E s \in Sessions : AsioStep(s) \/ DbusStep(s)

Spec == Init /\ [][Next]_vars
\* The threads of the services keep running: the server's D-Bus thread serves
\* its calls and the D-Bus thread of each handler its own.  No fairness on the
\* timeouts, which a call that is answered never meets, on clients, or restarts.
FairSpec ==
  /\ Spec
  /\ WF_vars(UpdateSessionDetails) /\ WF_vars(RouteMessage_none)
  /\ WF_vars(RouteMessage)
  /\ \A s \in Sessions : WF_vars(DbusStep(s))

-----------------------------------------------------------------------------
(* Properties.                                                              *)

\* The places on connections message m was written to.
deliveries ==
  [m \in Msgs |-> {p \in UNION {{s} \X DOMAIN wire[s] : s \in Sessions} : wire[p[1]][p[2]] = m}]

Abstract == INSTANCE AtMostOnceDelivery
              WITH Msgs <- Msgs, accepted <- accepted, deliveries <- deliveries

\* The whole path of a message, with its three threads, its timeouts at either
\* caller and the server's restarts, writes a message at most once and only
\* after it was accepted: RouteMessage gives up when DeliverSm fails rather
\* than try another session.
AtMostOnce == Abstract!Spec

\* Two messages of one session that reach the same session are written in the
\* order in which they were submitted, although the submitter goes on to its
\* next message when RouteMessage times out, and the server to its next call
\* when DeliverSm does.
SenderOrder ==
  \A s, t \in Sessions : \A i, j \in DOMAIN wire[t] : \A k, l \in DOMAIN submitted[s] :
    i < j /\ wire[t][i] = submitted[s][k] /\ wire[t][j] = submitted[s][l] => k < l

\* A session the server returned for a message has it on its connection unless
\* it has ended: an answer that comes after its call timed out is never taken
\* for the answer to a later call.
RoutedIsWritten ==
  \A m \in Msgs : \A t \in Sessions :
    result[m] = t /\ state[t] # "UNBOUND" => m \in Range(wire[t])

\* The first PDU a session is sent is the response to its bind, although its
\* D-Bus thread may send a deliver_sm as soon as state_ is set: the server does
\* not know of the bind before update_session_details, after the response.
BindRespFirst ==
  \A s \in Sessions : wire[s] # <<>> => wire[s][1] = "bind_resp"

\* A session's asio thread returns from every RouteMessage and
\* UpdateSessionDetails, even if no call ever times out: a message may be routed
\* to a session that is itself blocked in RouteMessage, its own submitter
\* included, because DeliverSm runs on the other thread.
CallsReturn ==
  \A s \in Sessions : \A c \in {d \in Calls : d.from = s} : pc[s] = c ~> pc[s] # c

-----------------------------------------------------------------------------
(* What the documentation says and the code does not do.                    *)

\* RouteMessage: "Find first BOUND_RX or BOUND_TRX session to deliver to".
\* sessions_ keeps the state of a session that has ended, so one that ended is
\* chosen although another one that is listed is bound.
RoutesToBound ==
  [][routing = NoRoute /\ routing' # NoRoute
       /\ (\E s \in Listed : state[s] \in RxStates)
     => state[routing'.to] \in RxStates]_vars
=============================================================================
