----------------------------- MODULE SmppSession -----------------------------
(***************************************************************************)
(* One SmppClientHandler process: the session object of                    *)
(* SmppClientHandler/src/smpp_session.cpp and the two threads that run it. *)
(*                                                                         *)
(*   - The asio thread runs io_ctx.run() (main.cpp): it takes completions  *)
(*     (socket reads, timers, posted functions) off a FIFO queue one at a  *)
(*     time.  A handler that makes a synchronous D-Bus call (Authenticate, *)
(*     UpdateSessionDetails, RouteMessage) blocks the thread until the     *)
(*     call returns, fails or times out; pc says which call it is in.      *)
(*   - The D-Bus thread runs the event loop and serves Disconnect and      *)
(*     DeliverSm whatever the asio thread is doing.                        *)
(*                                                                         *)
(* The peer (an ESME) sends whole PDUs, or closes the connection, possibly *)
(* in the middle of a PDU.  PDU bodies carry no data here: the answers of  *)
(* the authenticator and of the throttle are nondeterministic.             *)
(***************************************************************************)
EXTENDS Integers, Sequences, FiniteSets

CONSTANTS
  Pdus,        \* the PDUs the peer may send
  MaxInbox,    \* bound: PDUs sent by the peer and not read yet
  MaxQueue,    \* bound: Disconnect is called only while the queue is shorter
  SeqMod,      \* number of sequence numbers (2^32 in the code)
  ElBase,      \* first sequence number of the probes (0x10000000)
  KeepaliveOn, \* el_interval_sec_ > 0
  Throttling   \* max_submit_per_sec_ > 0

BindCommands == {"BIND_TRANSMITTER", "BIND_RECEIVER", "BIND_TRANSCEIVER"}

\* Commands that get exactly one response; OTHER is answered by GENERIC_NACK.
RequestCommands ==
  BindCommands \cup {"UNBIND", "ENQUIRE_LINK", "SUBMIT_SM", "OTHER"}

\* BAD_LENGTH stands for a header whose command_length is below 16.
Commands ==
  RequestCommands \cup {"ENQUIRE_LINK_RESP", "DELIVER_SM_RESP", "BAD_LENGTH"}

Seqs == 0 .. SeqMod - 1

\* body "cut": the connection ends between the header and the end of the body.
PduType == [cmd : Commands, seq : Seqs, body : {"none", "whole", "cut"}]

NoPdu == [cmd |-> "NONE", seq |-> 0, body |-> "none"]

NoProbe == -1

ASSUME ConstantsAssumption ==
  /\ SeqMod \in Nat \ {0}
  /\ ElBase \in Seqs
  /\ Pdus \subseteq PduType
  /\ MaxInbox \in Nat /\ MaxQueue \in Nat
  /\ KeepaliveOn \in BOOLEAN /\ Throttling \in BOOLEAN

VARIABLES
  state,       \* state_
  exited,      \* SessionExited signals emitted
  socket,      \* socket_: "open" or "closed"
  el_pending,  \* el_pending_
  el_seq,      \* el_seq_
  el_timer,    \* el_timer_ has a wait outstanding
  el_timeout,  \* el_timeout_timer_: NoProbe, or the probe its wait is for
  ready,       \* the io_context's queue of completions
  reading,     \* the async_read outstanding: "none", "header" or "body"
  hdr,         \* the PDU read and not finished with
  pc,          \* asio thread: "idle" or the point it is blocked at
  dpc,         \* D-Bus thread: "idle" or "deliver" (between check and send)
  running,     \* io_ctx.run() has not returned
  inbox,       \* PDUs in the socket, not read yet
  peer,        \* the peer's end: "open" or "closed"
  granted,     \* history: the bind command the authenticator accepted
  owed         \* history: requests the peer sent that have no response yet

sessionVars   == <<state, exited, socket, granted>>
keepaliveVars == <<el_pending, el_seq, el_timer, el_timeout>>
ioVars        == <<ready, reading, hdr>>
threadVars    == <<pc, dpc, running>>
peerVars      == <<inbox, peer>>
vars == <<sessionVars, keepaliveVars, ioVars, threadVars, peerVars, owed>>

BoundStates == {"BOUND_TX", "BOUND_RX", "BOUND_TRX"}

SessionStates == {"OPEN", "UNBOUND"} \cup BoundStates

BoundState(cmd) ==
  CASE cmd = "BIND_TRANSMITTER" -> "BOUND_TX"
    [] cmd = "BIND_RECEIVER"    -> "BOUND_RX"
    [] cmd = "BIND_TRANSCEIVER" -> "BOUND_TRX"

Handlers == {"header", "body", "el_timer", "el_timeout", "disconnect"}

\* A completion: the handler to run, its error code, and (for el_timeout) the
\* probe the timer was armed for, which the code does not see.
Completion == [h : Handlers, ec : BOOLEAN, probe : Seqs \cup {NoProbe}]

Done(h) == [h |-> h, ec |-> FALSE, probe |-> NoProbe]

Aborted(h) == [h |-> h, ec |-> TRUE, probe |-> NoProbe]

IsRequest(p) == p.cmd \in RequestCommands

Init ==
  /\ state = "OPEN" /\ exited = 0 /\ socket = "open" /\ granted = "NONE"
  /\ el_pending = FALSE /\ el_seq = 0
  /\ el_timer = KeepaliveOn /\ el_timeout = NoProbe
  /\ ready = <<>> /\ reading = "header" /\ hdr = NoPdu
  /\ pc = "idle" /\ dpc = "idle" /\ running = TRUE
  /\ inbox = <<>> /\ peer = "open" /\ owed = <<>>

-----------------------------------------------------------------------------
(* The peer and the reactor, which turns what happened into completions.   *)

PeerSend(p) ==
  /\ peer = "open" /\ socket = "open" /\ Len(inbox) < MaxInbox
  /\ inbox' = Append(inbox, p)
  /\ peer' = IF p.body = "cut" THEN "closed" ELSE "open"
  /\ owed' = IF IsRequest(p) THEN Append(owed, p) ELSE owed
  /\ UNCHANGED <<sessionVars, keepaliveVars, ioVars, threadVars>>

PeerClose ==
  /\ peer = "open" /\ socket = "open"
  /\ peer' = "closed"
  /\ UNCHANGED <<sessionVars, keepaliveVars, ioVars, threadVars, inbox, owed>>

\* async_read of 16 bytes completes with a header, or with an error at the end
\* of the stream.
HeaderArrives ==
  /\ running /\ reading = "header"
  /\ \/ /\ inbox # <<>>
        /\ hdr' = Head(inbox) /\ inbox' = Tail(inbox)
        /\ ready' = Append(ready, Done("header"))
     \/ /\ inbox = <<>> /\ peer = "closed"
        /\ ready' = Append(ready, Aborted("header"))
        /\ UNCHANGED <<hdr, inbox>>
  /\ reading' = "none"
  /\ UNCHANGED <<sessionVars, keepaliveVars, threadVars, peer, owed>>

BodyArrives ==
  /\ running /\ reading = "body"
  /\ ready' = Append(ready, IF hdr.body = "whole" THEN Done("body")
                                                  ELSE Aborted("body"))
  /\ reading' = "none"
  /\ UNCHANGED <<sessionVars, keepaliveVars, hdr, threadVars, peerVars, owed>>

IntervalExpires ==
  /\ running /\ el_timer
  /\ el_timer' = FALSE
  /\ ready' = Append(ready, Done("el_timer"))
  /\ UNCHANGED <<sessionVars, el_pending, el_seq, el_timeout, reading, hdr,
                 threadVars, peerVars, owed>>

TimeoutExpires ==
  /\ running /\ el_timeout # NoProbe
  /\ el_timeout' = NoProbe
  /\ ready' = Append(ready, [Done("el_timeout") EXCEPT !.probe = el_timeout])
  /\ UNCHANGED <<sessionVars, el_pending, el_seq, el_timer, reading, hdr,
                 threadVars, peerVars, owed>>

-----------------------------------------------------------------------------
(* What the handlers share.                                                *)

\* The asio thread takes a completion for handler h off the queue.
Turn(h) == running /\ pc = "idle" /\ ready # <<>> /\ Head(ready).h = h

\* send_pdu of a response to p.  Responses must come in the order of the
\* requests: any other response is recorded as a NoPdu that is never paid off.
\* On a closed socket async_write fails and is only logged.
send_pdu(p) ==
  owed' = IF socket = "closed" THEN owed
          ELSE IF owed # <<>> /\ Head(owed) = p THEN Tail(owed)
          ELSE Append(owed, NoPdu)

\* read_header and read_body on an open socket start an async_read; on a closed
\* one the read completes at once with an error.
start_read(what, q) ==
  IF socket = "open"
  THEN reading' = what /\ ready' = q
  ELSE reading' = "none" /\ ready' = Append(q, Aborted(what))

Closing == {"close", "close_read"}

\* Mutant of do_disconnect: without the early return on UNBOUND.
do_disconnect_twice(q, ret) == state' = "UNBOUND" /\ pc' = ret /\ ready' = q

\* do_disconnect up to the release of state_mutex_, q being the queue it leaves
\* behind; ret is "close_read" when dispatch's caller runs read_header next,
\* which fails on the closed socket.
do_disconnect(q, ret) ==
  IF state = "UNBOUND"
  THEN /\ pc' = "idle"
       /\ ready' = IF ret = "close_read" THEN Append(q, Aborted("header")) ELSE q
       /\ UNCHANGED state
  ELSE state' = "UNBOUND" /\ pc' = ret /\ ready' = q

\* The rest of do_disconnect, without the mutex: closing the socket aborts the
\* read that is outstanding and drops what was not read.
close_socket ==
  /\ running /\ pc \in Closing
  /\ socket' = "closed" /\ exited' = exited + 1
  /\ ready' = ready
       \o (IF reading = "none" THEN <<>> ELSE <<Aborted(reading)>>)
       \o (IF pc = "close" THEN <<>> ELSE <<Aborted("header")>>)
  /\ reading' = "none" /\ inbox' = <<>> /\ pc' = "idle"
  /\ UNCHANGED <<state, granted, keepaliveVars, hdr, dpc, running, peer, owed>>

\* expires_after and cancel abort the wait outstanding on the timer, if any.
abort_interval(q) ==
  IF el_timer THEN Append(q, Aborted("el_timer")) ELSE q

abort_timeout(q) ==
  IF el_timeout = NoProbe THEN q
  ELSE Append(q, [Aborted("el_timeout") EXCEPT !.probe = el_timeout])

\* What follows dispatch when the handler did not disconnect: read_header.
next_pdu(q) ==
  /\ hdr' = NoPdu
  /\ start_read("header", q)

\* dispatch runs: a PDU is complete.
Received(cmds) ==
  /\ \/ Turn("header") /\ hdr.cmd # "BAD_LENGTH" /\ hdr.body = "none"
     \/ Turn("body")
  /\ ~Head(ready).ec
  /\ hdr.cmd \in cmds

-----------------------------------------------------------------------------
(* Completion handlers of the asio thread.                                 *)

\* Mutant of read_failed: the error is logged and the handler returns.
read_failed_ignored ==
  /\ Turn("header") \/ Turn("body")
  /\ Head(ready).ec \/ hdr.cmd = "BAD_LENGTH"
  /\ ready' = Tail(ready) /\ hdr' = NoPdu
  /\ UNCHANGED <<sessionVars, keepaliveVars, reading, threadVars, peerVars, owed>>

\* on_header and on_body with an error, or a length below 16.
read_failed ==
  /\ Turn("header") \/ Turn("body")
  /\ \/ Head(ready).ec
     \/ Turn("header") /\ hdr.cmd = "BAD_LENGTH"
  /\ do_disconnect(Tail(ready), "close")
  /\ hdr' = NoPdu
  /\ UNCHANGED <<exited, socket, granted, keepaliveVars, reading, dpc, running,
                 peerVars, owed>>

read_body ==
  /\ Turn("header") /\ ~Head(ready).ec
  /\ hdr.cmd # "BAD_LENGTH" /\ hdr.body # "none"
  /\ start_read("body", Tail(ready))
  /\ UNCHANGED <<sessionVars, keepaliveVars, hdr, threadVars, peerVars, owed>>

handle_bind_again ==
  /\ Received(BindCommands) /\ state # "OPEN"
  /\ send_pdu(hdr)
  /\ next_pdu(Tail(ready))
  /\ UNCHANGED <<sessionVars, keepaliveVars, threadVars, peerVars>>

\* Mutant of handle_bind: without the check that the session is still OPEN.
handle_bind_unchecked ==
  /\ Received(BindCommands) /\ state # "UNBOUND"
  /\ pc' = "auth"
  /\ ready' = Tail(ready)
  /\ UNCHANGED <<sessionVars, keepaliveVars, reading, hdr, dpc, running,
                 peerVars, owed>>

\* The state is checked under state_mutex_, which is released before the
\* synchronous Authenticate call.
handle_bind ==
  /\ Received(BindCommands) /\ state = "OPEN"
  /\ pc' = "auth"
  /\ ready' = Tail(ready)
  /\ UNCHANGED <<sessionVars, keepaliveVars, reading, hdr, dpc, running,
                 peerVars, owed>>

\* Authenticate answered yes: the new state is set whatever state_ is by now.
auth_accepted ==
  /\ running /\ pc = "auth"
  /\ state' = BoundState(hdr.cmd)
  /\ granted' = hdr.cmd
  /\ pc' = "bound"
  /\ UNCHANGED <<exited, socket, keepaliveVars, ioVars, dpc, running,
                 peerVars, owed>>

\* Mutant of auth_rejected: auth_ok starts as true, so a failed call binds.
auth_rejected_binds ==
  /\ running /\ pc = "auth"
  /\ state' = BoundState(hdr.cmd)
  /\ pc' = "bound"
  /\ UNCHANGED <<exited, socket, granted, keepaliveVars, ioVars, dpc, running,
                 peerVars, owed>>

\* Authenticate answered no, failed or timed out.
auth_rejected ==
  /\ running /\ pc = "auth"
  /\ send_pdu(hdr)
  /\ do_disconnect(ready, "close_read")
  /\ hdr' = NoPdu
  /\ UNCHANGED <<exited, socket, granted, keepaliveVars, reading, dpc, running,
                 peerVars>>

\* The bind response is sent, then UpdateSessionDetails is called.
send_bind_resp ==
  /\ running /\ pc = "bound"
  /\ send_pdu(hdr)
  /\ pc' = "update"
  /\ UNCHANGED <<sessionVars, keepaliveVars, ioVars, dpc, running, peerVars>>

handle_unbind ==
  /\ Received({"UNBIND"})
  /\ send_pdu(hdr)
  /\ do_disconnect(Tail(ready), "close_read")
  /\ hdr' = NoPdu
  /\ UNCHANGED <<exited, socket, granted, keepaliveVars, reading, dpc, running,
                 peerVars>>

\* handle_enquire_link, and the default case of dispatch (GENERIC_NACK).
handle_simple_request ==
  /\ Received({"ENQUIRE_LINK", "OTHER"})
  /\ send_pdu(hdr)
  /\ next_pdu(Tail(ready))
  /\ UNCHANGED <<sessionVars, keepaliveVars, threadVars, peerVars>>

handle_deliver_sm_resp ==
  /\ Received({"DELIVER_SM_RESP"})
  /\ next_pdu(Tail(ready))
  /\ UNCHANGED <<sessionVars, keepaliveVars, threadVars, peerVars, owed>>

CanSubmit == state \in {"BOUND_TX", "BOUND_TRX"}

\* Mutant of handle_submit_sm: no response is sent before RouteMessage.
handle_submit_sm_silent ==
  /\ Received({"SUBMIT_SM"}) /\ CanSubmit
  /\ pc' = "route"
  /\ ready' = Tail(ready)
  /\ UNCHANGED <<sessionVars, keepaliveVars, reading, hdr, dpc, running,
                 peerVars, owed>>

\* The response goes out before RouteMessage is called.
handle_submit_sm ==
  /\ Received({"SUBMIT_SM"}) /\ CanSubmit
  /\ send_pdu(hdr)
  /\ pc' = "route"
  /\ ready' = Tail(ready)
  /\ UNCHANGED <<sessionVars, keepaliveVars, reading, hdr, dpc, running,
                 peerVars>>

\* ESME_RINVBNDSTS, or ESME_RTHROTTLED when throttle_check says no.
refuse_submit_sm ==
  /\ Received({"SUBMIT_SM"}) /\ (~CanSubmit \/ Throttling)
  /\ send_pdu(hdr)
  /\ next_pdu(Tail(ready))
  /\ UNCHANGED <<sessionVars, keepaliveVars, threadVars, peerVars>>

\* Mutant of call_returns: a failed call also skips the next read_header.
call_returns_unread ==
  /\ running /\ pc \in {"update", "route"}
  /\ pc' = "idle" /\ hdr' = NoPdu
  /\ UNCHANGED <<sessionVars, keepaliveVars, ready, reading, dpc, running,
                 peerVars, owed>>

\* UpdateSessionDetails or RouteMessage returned, failed or timed out.
call_returns ==
  /\ running /\ pc \in {"update", "route"}
  /\ pc' = "idle"
  /\ next_pdu(ready)
  /\ UNCHANGED <<sessionVars, keepaliveVars, dpc, running, peerVars, owed>>

\* Mutant of next_probe: no wrap-around at the width of el_seq_.
next_probe_wide == IF el_seq = 0 THEN ElBase ELSE el_seq + 1

next_probe == IF el_seq = 0 THEN ElBase ELSE (el_seq + 1) % SeqMod

\* Mutant of on_enquire_link_timer: the timeout is not armed.
on_enquire_link_timer_unarmed ==
  /\ Turn("el_timer")
  /\ ready' = Tail(ready)
  /\ IF Head(ready).ec \/ el_pending \/ state = "UNBOUND"
     THEN UNCHANGED <<el_seq, el_pending>>
     ELSE el_seq' = next_probe /\ el_pending' = TRUE
  /\ UNCHANGED <<sessionVars, el_timer, el_timeout, reading, hdr, threadVars,
                 peerVars, owed>>

on_enquire_link_timer ==
  /\ Turn("el_timer")
  /\ IF Head(ready).ec \/ el_pending \/ state = "UNBOUND"
     THEN /\ ready' = Tail(ready)
          /\ UNCHANGED keepaliveVars
     ELSE /\ el_seq' = next_probe
          /\ el_pending' = TRUE
          /\ el_timeout' = el_seq'
          /\ ready' = abort_timeout(Tail(ready))
          /\ UNCHANGED el_timer
  /\ UNCHANGED <<sessionVars, reading, hdr, threadVars, peerVars, owed>>

\* Mutant of handle_enquire_link_resp: the timeout timer is not cancelled.
handle_enquire_link_resp_uncancelled ==
  /\ Received({"ENQUIRE_LINK_RESP"})
  /\ IF hdr.seq = el_seq /\ el_pending
     THEN el_pending' = FALSE /\ el_timer' = TRUE /\ UNCHANGED <<el_seq, el_timeout>>
     ELSE UNCHANGED keepaliveVars
  /\ next_pdu(Tail(ready))
  /\ UNCHANGED <<sessionVars, threadVars, peerVars, owed>>

\* Mutant of handle_enquire_link_resp: the next probe is not scheduled.
handle_enquire_link_resp_last ==
  /\ Received({"ENQUIRE_LINK_RESP"})
  /\ IF hdr.seq = el_seq /\ el_pending
     THEN /\ el_pending' = FALSE /\ el_timeout' = NoProbe
          /\ UNCHANGED <<el_seq, el_timer>>
          /\ next_pdu(abort_timeout(Tail(ready)))
     ELSE next_pdu(Tail(ready)) /\ UNCHANGED keepaliveVars
  /\ UNCHANGED <<sessionVars, threadVars, peerVars, owed>>

handle_enquire_link_resp ==
  /\ Received({"ENQUIRE_LINK_RESP"})
  /\ IF hdr.seq = el_seq /\ el_pending
     THEN /\ el_pending' = FALSE
          /\ el_timeout' = NoProbe
          /\ el_timer' = TRUE
          /\ UNCHANGED el_seq
          /\ next_pdu(abort_interval(abort_timeout(Tail(ready))))
     ELSE /\ next_pdu(Tail(ready))
          /\ UNCHANGED keepaliveVars
  /\ UNCHANGED <<sessionVars, threadVars, peerVars, owed>>

on_enquire_link_timeout ==
  /\ Turn("el_timeout")
  /\ IF Head(ready).ec \/ ~el_pending
     THEN ready' = Tail(ready) /\ UNCHANGED <<state, pc>>
     ELSE do_disconnect(Tail(ready), "close")
  /\ UNCHANGED <<exited, socket, granted, keepaliveVars, reading, hdr, dpc,
                 running, peerVars, owed>>

\* Mutant of posted_disconnect: only a bound session is disconnected.
posted_disconnect_bound ==
  /\ Turn("disconnect")
  /\ IF state \in BoundStates
     THEN do_disconnect(Tail(ready), "close")
     ELSE ready' = Tail(ready) /\ UNCHANGED <<state, pc>>
  /\ UNCHANGED <<exited, socket, granted, keepaliveVars, reading, hdr, dpc,
                 running, peerVars, owed>>

\* The function that Disconnect posted.
posted_disconnect ==
  /\ Turn("disconnect")
  /\ do_disconnect(Tail(ready), "close")
  /\ UNCHANGED <<exited, socket, granted, keepaliveVars, reading, hdr, dpc,
                 running, peerVars, owed>>

\* SIGINT or SIGTERM: io_ctx.stop(), then main returns.
signal ==
  /\ running /\ pc = "idle"
  /\ running' = FALSE
  /\ UNCHANGED <<sessionVars, keepaliveVars, ioVars, pc, dpc, peerVars, owed>>

-----------------------------------------------------------------------------
(* The D-Bus thread.                                                       *)

\* Mutant of Disconnect: do_disconnect runs on the D-Bus thread.
Disconnect_inline ==
  /\ running /\ dpc = "idle" /\ state # "UNBOUND"
  /\ state' = "UNBOUND" /\ socket' = "closed" /\ exited' = exited + 1
  /\ ready' = IF reading = "none" THEN ready ELSE Append(ready, Aborted(reading))
  /\ reading' = "none" /\ inbox' = <<>>
  /\ UNCHANGED <<granted, keepaliveVars, hdr, threadVars, peer, owed>>

Disconnect ==
  /\ running /\ dpc = "idle" /\ Len(ready) < MaxQueue
  /\ ready' = Append(ready, Done("disconnect"))
  /\ UNCHANGED <<sessionVars, keepaliveVars, reading, hdr, threadVars,
                 peerVars, owed>>

CanDeliver == state \in {"BOUND_RX", "BOUND_TRX"}

\* DeliverSm checks the state under state_mutex_ (and throws if it is wrong),
\* releases the mutex, and only then sends.
DeliverSm ==
  /\ running /\ dpc = "idle" /\ CanDeliver
  /\ dpc' = "deliver"
  /\ UNCHANGED <<sessionVars, keepaliveVars, ioVars, pc, running, peerVars, owed>>

send_deliver_sm ==
  /\ dpc = "deliver"
  /\ dpc' = "idle"
  /\ UNCHANGED <<sessionVars, keepaliveVars, ioVars, pc, running, peerVars, owed>>
-----------------------------------------------------------------------------

AsioStep ==
  \/ read_failed \/ read_body \/ close_socket
  \/ handle_bind_again \/ handle_bind \/ auth_accepted \/ auth_rejected
  \/ send_bind_resp \/ handle_unbind \/ handle_simple_request
  \/ handle_deliver_sm_resp \/ handle_submit_sm \/ refuse_submit_sm
  \/ call_returns
  \/ on_enquire_link_timer \/ handle_enquire_link_resp
  \/ on_enquire_link_timeout \/ posted_disconnect

DbusStep == Disconnect \/ DeliverSm \/ send_deliver_sm

Environment == (\E p \in Pdus : PeerSend(p)) \/ PeerClose \/ signal

Reactor == HeaderArrives \/ BodyArrives \/ IntervalExpires \/ TimeoutExpires

\* The process has exited.
Stopped == ~running /\ UNCHANGED vars

Next == AsioStep \/ DbusStep \/ Environment \/ Reactor \/ Stopped

Spec == Init /\ [][Next]_vars

\* The asio thread keeps running handlers and a synchronous call returns or
\* times out; what the kernel has is delivered.  Nothing is assumed of the peer,
\* of D-Bus callers, of signals or of timers.
Fairness ==
  /\ WF_vars(AsioStep)
  /\ WF_vars(HeaderArrives) /\ WF_vars(BodyArrives)
  /\ WF_vars(send_deliver_sm)

FairSpec == Spec /\ Fairness

-----------------------------------------------------------------------------
(* Safety.                                                                 *)

\* Every variable stays in its type.
TypeOK ==
  /\ state \in SessionStates /\ exited \in Nat
  /\ socket \in {"open", "closed"} /\ granted \in BindCommands \cup {"NONE"}
  /\ el_pending \in BOOLEAN /\ el_seq \in Seqs
  /\ el_timer \in BOOLEAN /\ el_timeout \in Seqs \cup {NoProbe}
  /\ ready \in Seq(Completion) /\ reading \in {"none", "header", "body"}
  /\ hdr \in Pdus \cup {NoPdu}
  /\ pc \in {"idle", "auth", "bound", "update", "route"} \cup Closing
  /\ dpc \in {"idle", "deliver"} /\ running \in BOOLEAN
  /\ inbox \in Seq(Pdus) /\ peer \in {"open", "closed"}
  /\ owed \in Seq(Pdus \cup {NoPdu})

Lifecycle == INSTANCE SessionLifecycle WITH state <- state, exited <- exited

\* The session implements SessionLifecycle: although handle_bind lets go of
\* state_mutex_ while it authenticates and then sets the bound state without
\* looking at state_ again, a session that has ended never comes back, no
\* session is bound twice, and SessionExited is emitted exactly once.
RefinesLifecycle == Lifecycle!Spec

\* A session is bound only as the authenticator granted it: in the state of the
\* bind command it said yes to (handle_bind), until the session ends.
BoundAsGranted == state \in BoundStates => granted \in BindCommands
                                           /\ state = BoundState(granted)

\* do_disconnect leaves state_, the socket and the SessionExited signal in
\* step: an UNBOUND session is being closed or has been, and the signal goes out
\* once, with the socket, however many causes for a disconnect there are.
ClosedOnce ==
  /\ state = "UNBOUND" <=> (socket = "closed" \/ pc \in Closing)
  /\ exited = IF socket = "closed" THEN 1 ELSE 0

\* DeliverSm drops the mutex between its check and its send; when it sends, the
\* session still may receive messages or has ended, and never is bound anew as
\* something else.
DeliverToReceiver == dpc = "deliver" => CanDeliver \/ state = "UNBOUND"

Queued(h) == {i \in DOMAIN ready : ready[i].h = h}

ReadsQueued == Queued("header") \cup Queued("body")

\* The read loop neither stalls nor forks: until the session ends exactly one
\* of these is the case: a handler is blocked in a call, an async_read is
\* outstanding, or one read completion is queued.  header_buf_ has one reader.
OneReader ==
  state # "UNBOUND" =>
    /\ pc # "idle" <=> (reading = "none" /\ ReadsQueued = {})
    /\ reading = "none" \/ ReadsQueued = {}
    /\ \A i, j \in ReadsQueued : i = j

\* The asio thread holds a request that it has not answered.
Unanswered == IsRequest(hdr) /\ pc \notin {"update", "route"}

\* Where the requests are in what is not read yet.
Asked == {i \in DOMAIN inbox : IsRequest(inbox[i])}

\* Every request gets exactly one response, in the order of the requests: until
\* the session ends, the requests without a response are the one in hand and
\* then those not read yet, in their order.
ResponsesInOrder ==
  state # "UNBOUND" =>
    LET held == IF Unanswered THEN 1 ELSE 0
    IN  /\ Len(owed) = held + Cardinality(Asked)
        /\ Unanswered => Head(owed) = hdr
        /\ \A i \in Asked : owed[held + Cardinality({j \in Asked : j <= i})] = inbox[i]

LiveTimeouts == {i \in Queued("el_timeout") : ~ready[i].ec}

LiveIntervals == {i \in Queued("el_timer") : ~ready[i].ec}

\* The keepalive never dies: in an open session either a probe is outstanding
\* and its timeout is armed or queued, or the next probe is armed or queued.
KeepaliveArmed ==
  KeepaliveOn /\ state # "UNBOUND" =>
    IF el_pending
    THEN /\ ~el_timer /\ LiveIntervals = {}
         /\ \/ el_timeout = el_seq
            \/ \E i \in LiveTimeouts : ready[i].probe = el_seq
    ELSE /\ el_timeout = NoProbe
         /\ el_timer \/ LiveIntervals # {}

\* A timeout armed for an earlier probe never ends a session: by the time it is
\* handled no probe is outstanding (on_enquire_link_timeout, which only looks
\* at el_pending_, relies on it).
NoStaleTimeout ==
  el_pending => \A i \in LiveTimeouts : ready[i].probe = el_seq

-----------------------------------------------------------------------------
(* Liveness, under FairSpec.                                               *)

\* The session has ended and said so, or the process was stopped.
Over == exited = 1 \/ ~running

\* When the peer has closed its end the session ends, whatever call the asio
\* thread was blocked in and whatever was still in the socket: the reads notice
\* it, without any help from the keepalive's timers.
PeerGoneDetected == peer = "closed" ~> Over

\* A Disconnect call takes effect, even one made while the asio thread is
\* blocked in a synchronous call.
DisconnectHonoured == Queued("disconnect") # {} ~> Over

\* No timer stays armed for ever.
TimersExpire == []<>(~el_timer) /\ []<>(el_timeout = NoProbe)

\* A peer that falls silent is dropped by the keepalive, provided that timers
\* expire.
SilentPeerDropped ==
  KeepaliveOn /\ TimersExpire /\ <>[](inbox = <<>>) => <>Over
=============================================================================
