--------------------------- MODULE SessionTraffic ---------------------------
(***************************************************************************)
(* What a session bound as a transceiver lets in and what it writes: the   *)
(* token bucket of throttle_check, and send_pdu of                         *)
(* SmppClientHandler/src/smpp_session.cpp, which starts an async_write on   *)
(* the socket without a queue of its own, from either of the process's two  *)
(* threads (see SmppSession for the threads and the life of a session).     *)
(*                                                                         *)
(* asio writes what fits into the kernel's send buffer.  A write that was   *)
(* cut short goes on when its completion comes up on the asio thread; one    *)
(* that finds the buffer full, or others waiting, waits at the descriptor.  *)
(* A PDU is PduLen pieces; piece n of the k-th PDU is [pdu |-> k, n |-> n].  *)
(*                                                                         *)
(* The clock counts ticks, Second of them in a second.  A token is Second   *)
(* units, so that a tick adds Rate units and no fraction arises: the        *)
(* rounding of the code's doubles is left out.                              *)
(***************************************************************************)
EXTENDS Integers, Sequences, FiniteSets

CONSTANTS
  Rate,        \* max_submit_per_sec_
  Second,      \* ticks of the clock in a second
  PduLen,      \* pieces of a PDU
  SendBuffer,  \* pieces the kernel's send buffer holds
  MaxClock,    \* bound: ticks of the clock
  MaxPdus      \* bound: PDUs sent

ASSUME TrafficAssumption ==
  /\ Rate \in Nat /\ Second \in Nat \ {0}
  /\ PduLen \in Nat \ {0} /\ SendBuffer \in Nat \ {0}
  /\ MaxClock \in Nat /\ MaxPdus \in Nat

VARIABLES
  clock,     \* steady_clock::now()
  tokens,    \* tb_tokens_
  refilled,  \* tb_last_refill_
  admitted,  \* history: the times at which submit_sm's were admitted
  open,      \* socket_ is open
  reading,   \* an async_read is outstanding
  pc,        \* asio thread: "idle", or "route" while it is in RouteMessage
  ready,     \* the io_context's queue: a request read, or a write cut short
  waiting,   \* writes waiting for room at the descriptor
  room,      \* free pieces of the send buffer
  sent,      \* history: the PDUs given to send_pdu
  wire       \* history: the pieces that went into the send buffer

bucketVars == <<clock, tokens, refilled, admitted>>
writeVars  == <<ready, waiting, room, wire>>
vars == <<bucketVars, writeVars, open, reading, pc, sent>>

Write(k, done) == [pdu |-> k, done |-> done]

Request == [pdu |-> 0, done |-> 0]

Init ==
  /\ clock = 0 /\ tokens = Rate * Second /\ refilled = 0 /\ admitted = <<>>
  /\ open = TRUE /\ reading = TRUE /\ pc = "idle"
  /\ ready = <<>> /\ waiting = <<>> /\ room = SendBuffer
  /\ sent = <<>> /\ wire = <<>>

Smaller(a, b) == IF a <= b THEN a ELSE b

-----------------------------------------------------------------------------
(* Writing.                                                                 *)

Pieces(w, n) == [i \in 1 .. n |-> [pdu |-> w.pdu, n |-> w.done + i]]

\* As much of w as there is room for goes into the buffer; if that is not all,
\* its completion joins queue q.
write_some(w, q) ==
  LET n == Smaller(room, PduLen - w.done)
  IN  /\ wire' = wire \o Pieces(w, n)
      /\ room' = room - n
      /\ ready' = IF w.done + n = PduLen THEN q
                  ELSE Append(q, Write(w.pdu, w.done + n))

\* A write is started, q being the queue so far.  On a closed socket it fails,
\* which is only logged.
start_write(w, q) ==
  \/ /\ ~open
     /\ ready' = q
     /\ UNCHANGED <<waiting, room, wire>>
  \/ /\ open /\ waiting = <<>> /\ room > 0
     /\ write_some(w, q)
     /\ UNCHANGED waiting
  \/ /\ open /\ (waiting # <<>> \/ room = 0)
     /\ waiting' = Append(waiting, w)
     /\ ready' = q
     /\ UNCHANGED <<room, wire>>

send_pdu(kind, q) ==
  /\ sent' = Append(sent, kind)
  /\ start_write(Write(Len(sent) + 1, 0), q)

\* The socket has room again: the reactor, which the asio thread runs between
\* two handlers, lets the first write that waits for it go on.
Writable ==
  /\ pc = "idle" /\ open /\ waiting # <<>> /\ room > 0
  /\ write_some(Head(waiting), ready)
  /\ waiting' = Tail(waiting)
  /\ UNCHANGED <<bucketVars, open, reading, pc, sent>>

PeerReads ==
  /\ open /\ room < SendBuffer
  /\ room' = room + 1
  /\ UNCHANGED <<bucketVars, ready, waiting, wire, open, reading, pc, sent>>

\* Mutant: async_write_some, whose completion leaves the rest unwritten.
write_continues_not ==
  /\ pc = "idle" /\ ready # <<>> /\ Head(ready) # Request
  /\ ready' = Tail(ready)
  /\ UNCHANGED <<bucketVars, waiting, room, wire, open, reading, pc, sent>>

\* The asio thread takes up a write that was cut short.
write_continues ==
  /\ pc = "idle" /\ ready # <<>> /\ Head(ready) # Request
  /\ start_write(Head(ready), Tail(ready))
  /\ UNCHANGED <<bucketVars, open, reading, pc, sent>>

-----------------------------------------------------------------------------
(* The requests.                                                            *)

Tick ==
  /\ clock < MaxClock
  /\ clock' = clock + 1
  /\ UNCHANGED <<tokens, refilled, admitted, writeVars, open, reading, pc, sent>>

\* There is a PDU left to send besides the response to a request in the queue.
Bounded == Len(sent) + Cardinality({i \in DOMAIN ready : ready[i] = Request}) < MaxPdus

ReadArrives ==
  /\ open /\ reading /\ Bounded
  /\ ready' = Append(ready, Request) /\ reading' = FALSE
  /\ UNCHANGED <<bucketVars, waiting, room, wire, open, pc, sent>>

\* Mutant: the bucket has no upper limit.
Refill_unlimited == tokens + (clock - refilled) * Rate

\* Mutant: whole tokens only.
Refill_whole ==
  Smaller(tokens + (((clock - refilled) * Rate) \div Second) * Second, Rate * Second)

\* The bucket after the refill of throttle_check.
Refill == Smaller(tokens + (clock - refilled) * Rate, Rate * Second)

\* throttle_check says yes: it takes a token, or there is no limit.
throttle_check ==
  /\ Rate = 0 \/ Refill >= Second
  /\ admitted' = Append(admitted, clock)
  /\ IF Rate = 0 THEN UNCHANGED <<tokens, refilled>>
                 ELSE tokens' = Refill - Second /\ refilled' = clock

throttle_check_refuses ==
  /\ Rate # 0 /\ Refill < Second
  /\ tokens' = Refill /\ refilled' = clock
  /\ UNCHANGED admitted

\* The asio thread takes up a submit_sm.
Turn == pc = "idle" /\ ready # <<>> /\ Head(ready) = Request

\* The response is sent before the thread is blocked in RouteMessage.
handle_submit_sm ==
  /\ Turn /\ open
  /\ throttle_check
  /\ send_pdu("accepted", Tail(ready))
  /\ pc' = "route"
  /\ UNCHANGED <<clock, open, reading>>

\* ESME_RTHROTTLED, and the next read.
refuse_submit_sm ==
  /\ Turn /\ open
  /\ throttle_check_refuses
  /\ send_pdu("throttled", Tail(ready))
  /\ reading' = TRUE
  /\ UNCHANGED <<clock, open, pc>>

\* A request read before the session ended: ESME_RINVBNDSTS, which cannot be
\* written any more.
ended_submit_sm ==
  /\ Turn /\ ~open
  /\ ready' = Tail(ready)
  /\ UNCHANGED <<bucketVars, waiting, room, wire, open, reading, pc, sent>>

\* RouteMessage returns, fails or times out, and the next read starts.
route_returns ==
  /\ pc = "route"
  /\ pc' = "idle" /\ reading' = open
  /\ UNCHANGED <<bucketVars, writeVars, open, sent>>

\* On the D-Bus thread, whatever the asio thread is doing.
DeliverSm ==
  /\ open /\ Bounded
  /\ send_pdu("deliver_sm", ready)
  /\ UNCHANGED <<bucketVars, open, reading, pc>>

\* do_disconnect: what waits at the descriptor is aborted.
do_disconnect ==
  /\ open /\ pc = "idle"
  /\ open' = FALSE /\ waiting' = <<>> /\ reading' = FALSE
  /\ UNCHANGED <<bucketVars, ready, room, wire, pc, sent>>

AsioStep ==
  \/ handle_submit_sm \/ refuse_submit_sm \/ ended_submit_sm
  \/ route_returns \/ write_continues

Next ==
  \/ AsioStep \/ DeliverSm \/ do_disconnect
  \/ Writable \/ PeerReads \/ ReadArrives \/ Tick

Spec == Init /\ [][Next]_vars

\* The asio thread goes on, RouteMessage times out if need be, the reactor
\* serves the descriptor between two handlers and the peer reads what it is sent.
FairSpec == Spec /\ WF_vars(AsioStep) /\ WF_vars(Writable) /\ WF_vars(PeerReads)

-----------------------------------------------------------------------------
(* Properties.                                                              *)

\* Within any stretch of time no more than Rate submit_sm's are admitted, and
\* Rate more for every second of it: a pause, however long, saves up no more
\* than one second's worth (throttle_check).
RateBound ==
  Rate # 0 => \A i, j \in DOMAIN admitted :
    i <= j => (j - i + 1) * Second <= Rate * Second + Rate * (admitted[j] - admitted[i])

\* throttle_check refuses only what would break RateBound: however often a
\* client tries, and is refused, between two ticks of a token, it loses nothing
\* of what time has refilled.
OverRateNow ==
  \E i \in DOMAIN admitted :
    (Len(admitted) - i + 2) * Second > Rate * Second + Rate * (clock - admitted[i])

RefusesOnlyOverRate ==
  [][(Len(sent') > Len(sent) /\ sent'[Len(sent')] = "throttled") => OverRateNow]_vars

\* The pieces of PDU k on the wire.
Written(k) == {i \in DOMAIN wire : wire[i].pdu = k}

\* The writes in progress.
InProgress ==
  {waiting[i] : i \in DOMAIN waiting} \cup ({ready[i] : i \in DOMAIN ready} \ {Request})

\* Every PDU given to send_pdu by either thread gets onto the wire from its
\* first to its last piece, none twice and none left out; as long as the socket
\* is open what is missing has exactly one write in progress, and PDUs start in
\* the order in which they were sent.  It does not say that they are whole: with
\* no queue, a PDU sent while another is cut short may come between its pieces.
SentInOrder ==
  /\ \A i \in DOMAIN wire :
       wire[i].n = Cardinality({j \in Written(wire[i].pdu) : j <= i})
  /\ \A i, j \in DOMAIN wire :
       i < j /\ wire[i].n = 1 /\ wire[j].n = 1 => wire[i].pdu < wire[j].pdu
  /\ open => \A k \in DOMAIN sent :
       {w \in InProgress : w.pdu = k} =
         IF Cardinality(Written(k)) = PduLen THEN {}
         ELSE {Write(k, Cardinality(Written(k)))}

\* A peer that reads gets every PDU to its last byte unless the session ends,
\* although the writes that were cut short, and those that wait for room, wait for
\* the asio thread, which may be blocked in RouteMessage.
SentIsWritten ==
  \A k \in 1 .. MaxPdus :
    (k \in DOMAIN sent) ~> (Cardinality(Written(k)) = PduLen \/ ~open)
=============================================================================
