-------------------------- MODULE SmppSessionProofs --------------------------
(***************************************************************************)
(* Proofs about SmppSession, for every set of PDUs, every bound and every  *)
(* width of the sequence numbers.                                          *)
(***************************************************************************)
EXTENDS SmppSession, TLAPS

USE ConstantsAssumption DEF BindCommands, RequestCommands, Commands, PduType,
    NoPdu, BoundStates, SessionStates, Closing

\* What the queue operations of the handlers return is a queue again.
LEMMA QueueType ==
  ASSUME NEW q \in Seq(Completion), NEW h \in Handlers, TypeOK
  PROVE  /\ Done(h) \in Completion /\ Aborted(h) \in Completion
         /\ Append(q, Done(h)) \in Seq(Completion)
         /\ Append(q, Aborted(h)) \in Seq(Completion)
         /\ abort_interval(q) \in Seq(Completion)
         /\ abort_timeout(q) \in Seq(Completion)
<1>1. Done(h) \in Completion /\ Aborted(h) \in Completion
  BY DEF Done, Aborted, Completion
<1>2. Aborted("el_timer") \in Completion
  BY DEF Aborted, Completion, Handlers
<1>3. el_timeout # NoProbe =>
        [Aborted("el_timeout") EXCEPT !.probe = el_timeout] \in Completion
  BY Zenon DEF Aborted, Completion, Handlers, TypeOK
<1>4. abort_interval(q) \in Seq(Completion)
  BY <1>2 DEF abort_interval
<1>5. abort_timeout(q) \in Seq(Completion)
  BY <1>3 DEF abort_timeout
<1> QED BY <1>1, <1>4, <1>5

\* send_pdu keeps the type of owed.
LEMMA SendType ==
  ASSUME TypeOK, NEW p \in Pdus \cup {NoPdu}, send_pdu(p)
  PROVE  owed' \in Seq(Pdus \cup {NoPdu})
BY DEF send_pdu, TypeOK

\* start_read keeps the type of reading and of the queue.
LEMMA ReadType ==
  ASSUME TypeOK, NEW q \in Seq(Completion), NEW w \in {"header", "body"},
         start_read(w, q)
  PROVE  ready' \in Seq(Completion) /\ reading' \in {"none", "header", "body"}
<1>1. Append(q, Aborted(w)) \in Seq(Completion)
  BY QueueType DEF Handlers
<1> QED BY <1>1 DEF start_read

\* do_disconnect keeps the type of what it changes.
LEMMA DisconnectType ==
  ASSUME TypeOK, NEW q \in Seq(Completion), NEW ret \in Closing,
         do_disconnect(q, ret)
  PROVE  /\ ready' \in Seq(Completion) /\ state' \in SessionStates
         /\ pc' \in {"idle"} \cup Closing
<1>1. Append(q, Aborted("header")) \in Seq(Completion)
  BY QueueType DEF Handlers
<1> QED BY Zenon, <1>1 DEF do_disconnect, TypeOK


\* A completion can be taken off the queue.
LEMMA TurnType ==
  ASSUME TypeOK, NEW h, Turn(h)
  PROVE  /\ Tail(ready) \in Seq(Completion) /\ Head(ready) \in Completion
         /\ running /\ pc = "idle"
BY DEF Turn, TypeOK

\* The PDU in hand while Authenticate is called is a bind request.
AuthHasBind == pc = "auth" => hdr.cmd \in BindCommands

\* TypeOK is preserved by the asio thread's handlers.
LEMMA AsioType == TypeOK /\ AuthHasBind /\ AsioStep => TypeOK'
<1> SUFFICES ASSUME TypeOK, AuthHasBind, AsioStep PROVE TypeOK'
  OBVIOUS
<1> USE DEF sessionVars, keepaliveVars, ioVars, threadVars, peerVars
<1>0. hdr \in Pdus \cup {NoPdu}
  BY DEF TypeOK
<1>1. CASE read_failed
  <2>1. /\ ready' \in Seq(Completion) /\ state' \in SessionStates
        /\ pc' \in {"idle"} \cup Closing
    BY Zenon, <1>1, TurnType, DisconnectType DEF read_failed
  <2> QED BY <1>1, <2>1 DEF read_failed, TypeOK
<1>2. CASE read_body
  <2>1. ready' \in Seq(Completion) /\ reading' \in {"none", "header", "body"}
    BY Zenon, <1>2, TurnType, ReadType DEF read_body
  <2> QED BY <1>2, <2>1 DEF read_body, TypeOK
<1>3. CASE close_socket
  <2>1. /\ reading # "none" => Aborted(reading) \in Completion
        /\ Aborted("header") \in Completion
    BY DEF TypeOK, Aborted, Completion, Handlers
  <2>2. ready' \in Seq(Completion)
    BY <1>3, <2>1 DEF close_socket, TypeOK
  <2> QED BY <1>3, <2>2 DEF close_socket, TypeOK
<1>4. CASE handle_bind_again
  <2>1. ready' \in Seq(Completion) /\ reading' \in {"none", "header", "body"}
    BY Zenon, <1>4, TurnType, ReadType DEF handle_bind_again, Received, next_pdu
  <2>2. owed' \in Seq(Pdus \cup {NoPdu})
    BY <1>4, <1>0, SendType DEF handle_bind_again
  <2> QED BY <1>4, <2>1, <2>2 DEF handle_bind_again, next_pdu, TypeOK
<1>5. CASE handle_bind
  <2>1. ready' \in Seq(Completion)
    BY <1>5, TurnType DEF handle_bind, Received
  <2> QED BY <1>5, <2>1 DEF handle_bind, TypeOK
<1>6. CASE auth_accepted
  BY <1>6 DEF auth_accepted, AuthHasBind, BoundState, TypeOK
<1>7. CASE auth_rejected
  <2>1. ready \in Seq(Completion)
    BY DEF TypeOK
  <2>2. /\ ready' \in Seq(Completion) /\ state' \in SessionStates
        /\ pc' \in {"idle"} \cup Closing
    BY <1>7, <2>1, DisconnectType DEF auth_rejected
  <2>3. owed' \in Seq(Pdus \cup {NoPdu})
    BY <1>7, <1>0, SendType DEF auth_rejected
  <2> QED BY <1>7, <2>1, <2>2, <2>3 DEF auth_rejected, TypeOK
<1>8. CASE send_bind_resp
  <2>1. owed' \in Seq(Pdus \cup {NoPdu})
    BY <1>8, <1>0, SendType DEF send_bind_resp
  <2> QED BY <1>8, <2>1 DEF send_bind_resp, TypeOK
<1>9. CASE handle_unbind
  <2>1. /\ ready' \in Seq(Completion) /\ state' \in SessionStates
        /\ pc' \in {"idle"} \cup Closing
    BY Zenon, <1>9, TurnType, DisconnectType DEF handle_unbind, Received
  <2>2. owed' \in Seq(Pdus \cup {NoPdu})
    BY <1>9, <1>0, SendType DEF handle_unbind
  <2> QED BY <1>9, <2>1, <2>2 DEF handle_unbind, TypeOK
<1>10. CASE handle_simple_request
  <2>1. ready' \in Seq(Completion) /\ reading' \in {"none", "header", "body"}
    BY Zenon, <1>10, TurnType, ReadType DEF handle_simple_request, Received, next_pdu
  <2>2. owed' \in Seq(Pdus \cup {NoPdu})
    BY <1>10, <1>0, SendType DEF handle_simple_request
  <2> QED BY <1>10, <2>1, <2>2 DEF handle_simple_request, next_pdu, TypeOK
<1>11. CASE handle_deliver_sm_resp
  <2>1. ready' \in Seq(Completion) /\ reading' \in {"none", "header", "body"}
    BY Zenon, <1>11, TurnType, ReadType DEF handle_deliver_sm_resp, Received, next_pdu
  <2> QED BY <1>11, <2>1 DEF handle_deliver_sm_resp, next_pdu, TypeOK
<1>12. CASE handle_submit_sm
  <2>1. ready' \in Seq(Completion)
    BY <1>12, TurnType DEF handle_submit_sm, Received
  <2>2. owed' \in Seq(Pdus \cup {NoPdu})
    BY <1>12, <1>0, SendType DEF handle_submit_sm
  <2> QED BY <1>12, <2>1, <2>2 DEF handle_submit_sm, TypeOK
<1>13. CASE refuse_submit_sm
  <2>1. ready' \in Seq(Completion) /\ reading' \in {"none", "header", "body"}
    BY Zenon, <1>13, TurnType, ReadType DEF refuse_submit_sm, Received, next_pdu
  <2>2. owed' \in Seq(Pdus \cup {NoPdu})
    BY <1>13, <1>0, SendType DEF refuse_submit_sm
  <2> QED BY <1>13, <2>1, <2>2 DEF refuse_submit_sm, next_pdu, TypeOK
<1>14. CASE call_returns
  <2>1. ready \in Seq(Completion)
    BY DEF TypeOK
  <2>2. ready' \in Seq(Completion) /\ reading' \in {"none", "header", "body"}
    BY <1>14, <2>1, ReadType DEF call_returns, next_pdu
  <2> QED BY <1>14, <2>1, <2>2 DEF call_returns, next_pdu, TypeOK
<1>15. CASE on_enquire_link_timer
  <2>1. ready' \in Seq(Completion)
    BY Zenon, <1>15, TurnType, QueueType DEF on_enquire_link_timer, Handlers
  <2>2. next_probe \in Seqs
    BY DEF next_probe, Seqs, TypeOK
  <2>3. /\ el_pending' \in BOOLEAN /\ el_seq' \in Seqs
        /\ el_timer' \in BOOLEAN /\ el_timeout' \in Seqs \cup {NoProbe}
    <3>1. CASE Head(ready).ec \/ el_pending \/ state = "UNBOUND"
      BY <1>15, <3>1 DEF on_enquire_link_timer, TypeOK
    <3>2. CASE ~(Head(ready).ec \/ el_pending \/ state = "UNBOUND")
      BY <1>15, <2>2, <3>2 DEF on_enquire_link_timer, TypeOK
    <3> QED BY <3>1, <3>2
  <2> QED BY <1>15, <2>1, <2>3 DEF on_enquire_link_timer, TypeOK
<1>16. CASE handle_enquire_link_resp
  <2>1. /\ Tail(ready) \in Seq(Completion)
        /\ abort_interval(abort_timeout(Tail(ready))) \in Seq(Completion)
    BY Zenon, <1>16, TurnType, QueueType DEF handle_enquire_link_resp, Received, Handlers
  <2>2. ready' \in Seq(Completion) /\ reading' \in {"none", "header", "body"}
    BY Zenon, <1>16, <2>1, ReadType DEF handle_enquire_link_resp, next_pdu
  <2>3. /\ el_pending' \in BOOLEAN /\ el_seq' \in Seqs
        /\ el_timer' \in BOOLEAN /\ el_timeout' \in Seqs \cup {NoProbe}
    <3>1. CASE hdr.seq = el_seq /\ el_pending
      BY Zenon, <1>16, <3>1 DEF handle_enquire_link_resp, TypeOK
    <3>2. CASE ~(hdr.seq = el_seq /\ el_pending)
      BY <1>16, <3>2 DEF handle_enquire_link_resp, TypeOK
    <3> QED BY <3>1, <3>2
  <2> QED BY <1>16, <2>2, <2>3 DEF handle_enquire_link_resp, next_pdu, TypeOK
<1>17. CASE on_enquire_link_timeout
  <2>1. /\ ready' \in Seq(Completion) /\ state' \in SessionStates
        /\ pc' \in {"idle"} \cup Closing
    <3>1. state \in SessionStates
      BY DEF TypeOK
    <3> QED BY Zenon, <1>17, <3>1, TurnType, DisconnectType DEF on_enquire_link_timeout
  <2> QED BY <1>17, <2>1 DEF on_enquire_link_timeout, TypeOK
<1>18. CASE posted_disconnect
  <2>1. /\ ready' \in Seq(Completion) /\ state' \in SessionStates
        /\ pc' \in {"idle"} \cup Closing
    BY Zenon, <1>18, TurnType, DisconnectType DEF posted_disconnect
  <2> QED BY <1>18, <2>1 DEF posted_disconnect, TypeOK
<1> QED
  BY <1>1, <1>2, <1>3, <1>4, <1>5, <1>6, <1>7, <1>8, <1>9, <1>10, <1>11, <1>12, <1>13, <1>14,
     <1>15, <1>16, <1>17, <1>18 DEF AsioStep

\* TypeOK is preserved by every step.
LEMMA StepType == TypeOK /\ AuthHasBind /\ [Next]_vars => TypeOK'
<1> SUFFICES ASSUME TypeOK, AuthHasBind, [Next]_vars PROVE TypeOK'
  OBVIOUS
<1> USE DEF sessionVars, keepaliveVars, ioVars, threadVars, peerVars
<1>1. CASE AsioStep
  BY <1>1, AsioType
<1>2. CASE DbusStep
  <2>1. Append(ready, Done("disconnect")) \in Seq(Completion)
    BY DEF TypeOK, Done, Completion, Handlers
  <2>2. CASE Disconnect
    BY <2>1, <2>2 DEF Disconnect, TypeOK
  <2>3. CASE DeliverSm
    BY <2>3 DEF DeliverSm, TypeOK
  <2>4. CASE send_deliver_sm
    BY <2>4 DEF send_deliver_sm, TypeOK
  <2> QED BY <1>2, <2>2, <2>3, <2>4 DEF DbusStep
<1>3. CASE Environment
  <2>1. ASSUME NEW p \in Pdus, PeerSend(p) PROVE TypeOK'
    BY <2>1 DEF PeerSend, TypeOK
  <2>2. CASE PeerClose
    BY <2>2 DEF PeerClose, TypeOK
  <2>3. CASE signal
    <3>1. running' \in BOOLEAN
      BY Zenon, <2>3 DEF signal
    <3> QED BY <2>3, <3>1 DEF signal, TypeOK
  <2> QED BY <1>3, <2>1, <2>2, <2>3 DEF Environment
<1>4. CASE HeaderArrives
  <2>1. /\ Append(ready, Done("header")) \in Seq(Completion)
        /\ Append(ready, Aborted("header")) \in Seq(Completion)
    BY DEF TypeOK, Done, Aborted, Completion, Handlers
  <2>2. ready' \in Seq(Completion)
    BY <1>4, <2>1 DEF HeaderArrives
  <2>3. hdr' \in Pdus \cup {NoPdu} /\ inbox' \in Seq(Pdus)
    <3>1. hdr \in Pdus \cup {NoPdu} /\ inbox \in Seq(Pdus)
      BY DEF TypeOK
    <3>2. inbox # <<>> => Head(inbox) \in Pdus /\ Tail(inbox) \in Seq(Pdus)
      BY <3>1
    <3> QED BY Zenon, <1>4, <3>1, <3>2 DEF HeaderArrives
  <2> QED BY <1>4, <2>2, <2>3 DEF HeaderArrives, TypeOK
<1>5. CASE BodyArrives
  <2>1. /\ Append(ready, Done("body")) \in Seq(Completion)
        /\ Append(ready, Aborted("body")) \in Seq(Completion)
    BY DEF TypeOK, Done, Aborted, Completion, Handlers
  <2> QED BY <1>5, <2>1 DEF BodyArrives, TypeOK
<1>6. CASE IntervalExpires
  <2>1. Append(ready, Done("el_timer")) \in Seq(Completion)
    BY DEF TypeOK, Done, Completion, Handlers
  <2>2. el_timer' \in BOOLEAN
    BY Zenon, <1>6 DEF IntervalExpires
  <2> QED BY <1>6, <2>1, <2>2 DEF IntervalExpires, TypeOK
<1>7. CASE TimeoutExpires
  <2>1. [Done("el_timeout") EXCEPT !.probe = el_timeout] \in Completion
    BY Zenon DEF TypeOK, Done, Completion, Handlers
  <2> QED BY <1>7, <2>1 DEF TimeoutExpires, TypeOK
<1>8. CASE UNCHANGED vars
  BY <1>8 DEF vars, TypeOK
<1> QED
  BY <1>1, <1>2, <1>3, <1>4, <1>5, <1>6, <1>7, <1>8 DEF Next, Reactor, Stopped

-----------------------------------------------------------------------------
(* The read loop.  Reads(q) are the places of read completions in q.        *)

IsRead(c) == c.h \in {"header", "body"}

Reads(q) == {i \in DOMAIN q : IsRead(q[i])}

AtMostOne(S) == \A i, j \in S : i = j

\* A completion that is not a read leaves Reads alone, one that is adds a place.
LEMMA AppendReads ==
  ASSUME NEW q \in Seq(Completion), NEW c \in Completion
  PROVE  /\ ~IsRead(c) => Reads(Append(q, c)) = Reads(q)
         /\ IsRead(c) => Reads(Append(q, c)) = Reads(q) \cup {Len(q) + 1}
<1>1. /\ Len(Append(q, c)) = Len(q) + 1
      /\ \A i \in 1 .. Len(q) : Append(q, c)[i] = q[i]
      /\ Append(q, c)[Len(q) + 1] = c
      /\ Len(q) \in Nat /\ DOMAIN q = 1 .. Len(q)
      /\ DOMAIN Append(q, c) = 1 .. Len(q) + 1
  OBVIOUS
<1> QED BY <1>1 DEF Reads

\* Taking the head shifts the places by one.
LEMMA TailReads ==
  ASSUME NEW q \in Seq(Completion), q # <<>>
  PROVE  \A i : i \in Reads(Tail(q)) <=> i \in Nat \ {0} /\ i + 1 \in Reads(q)
<1>1. /\ Len(Tail(q)) = Len(q) - 1 /\ Len(q) \in Nat \ {0}
      /\ \A i \in 1 .. Len(q) - 1 : Tail(q)[i] = q[i + 1]
      /\ DOMAIN q = 1 .. Len(q) /\ DOMAIN Tail(q) = 1 .. Len(q) - 1
  OBVIOUS
<1> QED BY <1>1 DEF Reads

\* Taking the only read off the queue leaves none.
LEMMA TakeRead ==
  ASSUME NEW q \in Seq(Completion), q # <<>>, IsRead(Head(q)),
         AtMostOne(Reads(q))
  PROVE  Reads(Tail(q)) = {}
<1>1. 1 \in Reads(q)
  BY DEF Reads
<1>2. \A i \in Nat \ {0} : i + 1 \notin Reads(q)
  BY <1>1 DEF AtMostOne
<1> QED BY <1>2, TailReads

\* Taking another completion off keeps how many reads there are.
LEMMA TakeOther ==
  ASSUME NEW q \in Seq(Completion), q # <<>>, ~IsRead(Head(q)),
         AtMostOne(Reads(q))
  PROVE  /\ AtMostOne(Reads(Tail(q)))
         /\ Reads(Tail(q)) = {} <=> Reads(q) = {}
<1>1. \A i \in Reads(q) : i \in Nat /\ i > 1
  BY DEF Reads
<1>2. \A i \in Reads(q) : i - 1 \in Reads(Tail(q))
  BY <1>1, TailReads
<1>3. \A i \in Reads(Tail(q)) : i \in Nat /\ i + 1 \in Reads(q)
  BY TailReads
<1>4. AtMostOne(Reads(Tail(q)))
  BY <1>3 DEF AtMostOne
<1> QED BY <1>2, <1>3, <1>4

\* The read loop's invariant.  A handler blocked in a call, or about to close
\* the socket after dispatch, owns the read loop; otherwise one read is under
\* way or its completion is queued.  A closed socket has no read outstanding.
ReadInv ==
  /\ socket = "closed" => reading = "none"
  /\ pc # "idle" => socket = "open"
  /\ socket = "open" =>
       /\ AtMostOne(Reads(ready))
       /\ reading # "none" => Reads(ready) = {}
       /\ pc \notin {"idle", "close"} => reading = "none" /\ Reads(ready) = {}
       /\ state # "UNBOUND" /\ pc = "idle" =>
            reading # "none" \/ Reads(ready) # {}

\* The session's invariant: OneReader is in it through ReadInv, and the state
\* cannot change while Authenticate is called.
SessionInv ==
  /\ ReadInv
  /\ AuthHasBind
  /\ pc = "auth" => state = "OPEN"
  /\ ClosedOnce
  /\ BoundAsGranted
  /\ DeliverToReceiver

IInv == TypeOK /\ SessionInv

\* A handler that runs for a read finds no other read under way or queued.
LEMMA TookRead ==
  ASSUME IInv, Turn("header") \/ Turn("body")
  PROVE  /\ Tail(ready) \in Seq(Completion)
         /\ socket = "open" => reading = "none" /\ Reads(Tail(ready)) = {}
<1>1. ready \in Seq(Completion) /\ ready # <<>> /\ IsRead(Head(ready))
  BY DEF IInv, TypeOK, Turn, IsRead
<1>2. 1 \in Reads(ready)
  BY <1>1 DEF Reads
<1>3. socket = "open" => AtMostOne(Reads(ready)) /\ reading = "none"
  BY <1>2 DEF IInv, SessionInv, ReadInv
<1> QED BY <1>1, <1>3, TakeRead

\* Any other handler leaves the reads as they are.
LEMMA TookOther ==
  ASSUME IInv, NEW h \in {"el_timer", "el_timeout", "disconnect"}, Turn(h)
  PROVE  /\ Tail(ready) \in Seq(Completion)
         /\ socket = "open" =>
              /\ AtMostOne(Reads(Tail(ready)))
              /\ Reads(Tail(ready)) = {} <=> Reads(ready) = {}
<1>1. ready \in Seq(Completion) /\ ready # <<>> /\ ~IsRead(Head(ready))
  BY DEF IInv, TypeOK, Turn, IsRead
<1>2. socket = "open" => AtMostOne(Reads(ready))
  BY DEF IInv, SessionInv, ReadInv
<1> QED BY <1>1, <1>2, TakeOther

\* Aborting a timer leaves the reads as they are.
LEMMA AbortReads ==
  ASSUME TypeOK, NEW q \in Seq(Completion)
  PROVE  Reads(abort_interval(q)) = Reads(q) /\ Reads(abort_timeout(q)) = Reads(q)
<1>1. /\ Aborted("el_timer") \in Completion /\ ~IsRead(Aborted("el_timer"))
  BY DEF Aborted, Completion, Handlers, IsRead
<1> DEFINE c == [Aborted("el_timeout") EXCEPT !.probe = el_timeout]
<1>2. el_timeout # NoProbe => c \in Completion /\ ~IsRead(c)
  BY Zenon DEF Aborted, Completion, Handlers, IsRead, TypeOK
<1>3. Reads(abort_interval(q)) = Reads(q)
  BY <1>1, AppendReads DEF abort_interval
<1>4. Reads(abort_timeout(q)) = Reads(q)
  BY <1>2, AppendReads DEF abort_timeout
<1> QED BY <1>3, <1>4

\* Starting a read when there is none keeps ReadInv.
LEMMA RestartRead ==
  ASSUME IInv, NEW w \in {"header", "body"}, NEW q \in Seq(Completion),
         socket = "open" => Reads(q) = {},
         start_read(w, q), socket' = socket, pc' = "idle"
  PROVE  ReadInv'
BY DEF IInv, TypeOK, start_read, ReadInv, AtMostOne

\* do_disconnect keeps ReadInv when the reads are as the caller promises.
LEMMA DisconnectReads ==
  ASSUME IInv, pc \notin Closing, NEW ret \in Closing, NEW q \in Seq(Completion),
         socket = "open" => /\ AtMostOne(Reads(q))
                            /\ reading # "none" => Reads(q) = {},
         socket = "open" /\ ret = "close_read" => reading = "none" /\ Reads(q) = {},
         do_disconnect(q, ret), socket' = socket, reading' = reading
  PROVE  ReadInv'
<1>1. socket \in {"open", "closed"}
  BY DEF IInv, TypeOK
<1>2. socket = "closed" => reading = "none"
  BY DEF IInv, SessionInv, ReadInv
<1>3. CASE state = "UNBOUND"
  <2>1. socket = "closed" /\ pc' = "idle"
    BY <1>3 DEF IInv, SessionInv, ClosedOnce, do_disconnect
  <2> QED BY <2>1, <1>2 DEF ReadInv
<1>4. CASE state # "UNBOUND"
  <2>1. socket = "open"
    BY <1>1, <1>4 DEF IInv, SessionInv, ClosedOnce
  <2>2. ready' = q /\ pc' = ret /\ state' = "UNBOUND"
    BY <1>4 DEF do_disconnect
  <2> QED BY <2>1, <2>2 DEF ReadInv
<1> QED BY <1>3, <1>4

\* ReadInv is preserved by the asio thread's handlers.
LEMMA AsioReads == IInv /\ AsioStep => ReadInv'
<1> SUFFICES ASSUME IInv, AsioStep PROVE ReadInv'
  OBVIOUS
<1> USE DEF sessionVars, keepaliveVars, ioVars, threadVars, peerVars
<1>0. /\ TypeOK /\ ReadInv /\ ClosedOnce
      /\ ready \in Seq(Completion) /\ socket \in {"open", "closed"}
      /\ pc = "auth" => state = "OPEN"
  BY DEF IInv, SessionInv, TypeOK
<1>1. CASE read_failed
  <2>1. pc = "idle"
    BY <1>1 DEF read_failed, Turn
  <2>2. do_disconnect(Tail(ready), "close") /\ socket' = socket /\ reading' = reading
    BY <1>1 DEF read_failed
  <2> QED BY Zenon, <1>1, <2>1, <2>2, TookRead, DisconnectReads DEF read_failed, AtMostOne
<1>2. CASE read_body
  BY Zenon, <1>2, TookRead, RestartRead DEF read_body, Turn
<1>3. CASE close_socket
  BY <1>3 DEF close_socket, ReadInv
<1>4. CASE handle_bind_again
  BY Zenon, <1>4, TookRead, RestartRead DEF handle_bind_again, Received, Turn, next_pdu
<1>5. CASE handle_bind
  <2>1. socket = "open"
    BY <1>0, <1>5 DEF handle_bind, ClosedOnce
  <2> QED BY <1>5, <2>1, TookRead DEF handle_bind, Received, ReadInv, AtMostOne
<1>6. CASE auth_accepted
  BY <1>0, <1>6 DEF auth_accepted, ReadInv
<1>7. CASE auth_rejected
  <2>1. reading = "none" /\ Reads(ready) = {}
    BY <1>0, <1>7 DEF auth_rejected, ReadInv
  <2>2. do_disconnect(ready, "close_read") /\ socket' = socket /\ reading' = reading
    BY <1>7 DEF auth_rejected
  <2>3. pc = "auth"
    BY <1>7 DEF auth_rejected
  <2> QED BY <1>0, <2>1, <2>2, <2>3, DisconnectReads DEF AtMostOne
<1>8. CASE send_bind_resp
  BY <1>0, <1>8 DEF send_bind_resp, ReadInv
<1>9. CASE handle_unbind
  <2>1. pc = "idle"
    BY <1>9 DEF handle_unbind, Received, Turn
  <2>2. do_disconnect(Tail(ready), "close_read") /\ socket' = socket /\ reading' = reading
    BY <1>9 DEF handle_unbind
  <2>3. Turn("header") \/ Turn("body")
    BY <1>9 DEF handle_unbind, Received
  <2> QED BY Zenon, <2>1, <2>2, <2>3, TookRead, DisconnectReads DEF AtMostOne
<1>10. CASE handle_simple_request
  BY Zenon, <1>10, TookRead, RestartRead DEF handle_simple_request, Received, Turn, next_pdu
<1>11. CASE handle_deliver_sm_resp
  BY Zenon, <1>11, TookRead, RestartRead DEF handle_deliver_sm_resp, Received, Turn, next_pdu
<1>12. CASE handle_submit_sm
  <2>1. socket = "open"
    BY <1>0, <1>12 DEF handle_submit_sm, CanSubmit, ClosedOnce
  <2> QED BY <1>12, <2>1, TookRead DEF handle_submit_sm, Received, ReadInv, AtMostOne
<1>13. CASE refuse_submit_sm
  BY Zenon, <1>13, TookRead, RestartRead DEF refuse_submit_sm, Received, Turn, next_pdu
<1>14. CASE call_returns
  <2>1. socket = "open" => Reads(ready) = {}
    BY <1>0, <1>14 DEF call_returns, ReadInv
  <2> QED BY <1>0, <1>14, <2>1, RestartRead DEF call_returns, next_pdu
<1>15. CASE on_enquire_link_timer
  <2>1. /\ Tail(ready) \in Seq(Completion)
        /\ socket = "open" =>
             /\ AtMostOne(Reads(Tail(ready)))
             /\ Reads(Tail(ready)) = {} <=> Reads(ready) = {}
    BY <1>15, TookOther DEF on_enquire_link_timer
  <2>2. Reads(ready') = Reads(Tail(ready))
    BY Zenon, <1>0, <1>15, <2>1, AbortReads DEF on_enquire_link_timer
  <2> QED BY <1>0, <1>15, <2>1, <2>2 DEF on_enquire_link_timer, ReadInv
<1>16. CASE handle_enquire_link_resp
  <2>1. Turn("header") \/ Turn("body")
    BY <1>16 DEF handle_enquire_link_resp, Received
  <2> DEFINE q == abort_interval(abort_timeout(Tail(ready)))
  <2>2. /\ Tail(ready) \in Seq(Completion)
        /\ socket = "open" => Reads(Tail(ready)) = {}
    BY <2>1, TookRead
  <2>3. abort_timeout(Tail(ready)) \in Seq(Completion)
    BY Zenon, <1>0, <2>2, QueueType DEF Handlers
  <2>4. q \in Seq(Completion)
    BY <1>0, <2>3, QueueType DEF Handlers
  <2>5. Reads(q) = Reads(Tail(ready))
    BY Zenon, <1>0, <2>2, <2>3, AbortReads
  <2>6. start_read("header", q) \/ start_read("header", Tail(ready))
    BY <1>16 DEF handle_enquire_link_resp, next_pdu
  <2>7. socket' = socket /\ pc' = "idle"
    BY <1>16, <2>1 DEF handle_enquire_link_resp, Turn
  <2> HIDE DEF q
  <2> QED BY Zenon, <2>2, <2>4, <2>5, <2>6, <2>7, RestartRead
<1>17. CASE on_enquire_link_timeout
  <2>1. /\ pc = "idle" /\ Tail(ready) \in Seq(Completion)
        /\ socket = "open" =>
             /\ AtMostOne(Reads(Tail(ready)))
             /\ Reads(Tail(ready)) = {} <=> Reads(ready) = {}
    BY <1>17, TookOther DEF on_enquire_link_timeout, Turn
  <2>2. socket' = socket /\ reading' = reading
    BY <1>17 DEF on_enquire_link_timeout
  <2>3. CASE do_disconnect(Tail(ready), "close")
    BY Zenon, <1>0, <2>1, <2>2, <2>3, DisconnectReads DEF ReadInv
  <2>4. CASE ready' = Tail(ready) /\ UNCHANGED <<state, pc>>
    BY <1>0, <2>1, <2>2, <2>4 DEF ReadInv
  <2> QED BY <1>17, <2>3, <2>4 DEF on_enquire_link_timeout
<1>18. CASE posted_disconnect
  <2>1. /\ pc = "idle" /\ Tail(ready) \in Seq(Completion)
        /\ socket = "open" =>
             /\ AtMostOne(Reads(Tail(ready)))
             /\ Reads(Tail(ready)) = {} <=> Reads(ready) = {}
    BY <1>18, TookOther DEF posted_disconnect, Turn
  <2>2. /\ do_disconnect(Tail(ready), "close")
        /\ socket' = socket /\ reading' = reading
    BY <1>18 DEF posted_disconnect
  <2> QED BY Zenon, <1>0, <2>1, <2>2, DisconnectReads DEF ReadInv
<1> QED
  BY <1>1, <1>2, <1>3, <1>4, <1>5, <1>6, <1>7, <1>8, <1>9, <1>10, <1>11,
     <1>12, <1>13, <1>14, <1>15, <1>16, <1>17, <1>18 DEF AsioStep

\* ReadInv is preserved by every step.
LEMMA StepReads == IInv /\ [Next]_vars => ReadInv'
<1> SUFFICES ASSUME IInv, [Next]_vars PROVE ReadInv'
  OBVIOUS
<1> USE DEF sessionVars, keepaliveVars, ioVars, threadVars, peerVars
<1>0. /\ TypeOK /\ ReadInv /\ ready \in Seq(Completion)
  BY DEF IInv, SessionInv, TypeOK
<1>1. CASE AsioStep
  BY <1>1, AsioReads
<1>2. ASSUME NEW c \in Completion, ~IsRead(c), ready' = Append(ready, c),
             UNCHANGED <<socket, state, pc, reading>>
      PROVE  ReadInv'
  <2>1. Reads(ready') = Reads(ready)
    BY <1>0, <1>2, AppendReads
  <2> QED BY <1>0, <1>2, <2>1 DEF ReadInv
<1>3. ASSUME NEW c \in Completion, IsRead(c), ready' = Append(ready, c),
             reading # "none", reading' = "none", UNCHANGED <<socket, state, pc>>
      PROVE  ReadInv'
  <2>1. socket = "open" => Reads(ready') = {Len(ready) + 1}
    BY <1>0, <1>3, AppendReads DEF ReadInv
  <2> QED BY <1>0, <1>3, <2>1 DEF ReadInv, AtMostOne
<1>4. CASE DbusStep
  <2>1. Done("disconnect") \in Completion /\ ~IsRead(Done("disconnect"))
    BY DEF Done, Completion, Handlers, IsRead
  <2>2. CASE Disconnect
    BY <1>2, <2>1, <2>2 DEF Disconnect
  <2>3. CASE DeliverSm \/ send_deliver_sm
    BY <1>0, <2>3 DEF DeliverSm, send_deliver_sm, ReadInv
  <2> QED BY <1>4, <2>2, <2>3 DEF DbusStep
<1>5. CASE Environment
  BY <1>0, <1>5 DEF Environment, PeerSend, PeerClose, signal, ReadInv
<1>6. CASE HeaderArrives
  <2>1. /\ Done("header") \in Completion /\ IsRead(Done("header"))
        /\ Aborted("header") \in Completion /\ IsRead(Aborted("header"))
    BY DEF Done, Aborted, Completion, Handlers, IsRead
  <2> QED BY <1>3, <1>6, <2>1 DEF HeaderArrives
<1>7. CASE BodyArrives
  <2>1. /\ Done("body") \in Completion /\ IsRead(Done("body"))
        /\ Aborted("body") \in Completion /\ IsRead(Aborted("body"))
    BY DEF Done, Aborted, Completion, Handlers, IsRead
  <2> QED BY <1>3, <1>7, <2>1 DEF BodyArrives
<1>8. CASE IntervalExpires
  <2>1. Done("el_timer") \in Completion /\ ~IsRead(Done("el_timer"))
    BY DEF Done, Completion, Handlers, IsRead
  <2> QED BY <1>2, <1>8, <2>1 DEF IntervalExpires
<1>9. CASE TimeoutExpires
  <2> DEFINE c == [Done("el_timeout") EXCEPT !.probe = el_timeout]
  <2>1. c \in Completion /\ ~IsRead(c)
    BY Zenon, <1>0 DEF Done, Completion, Handlers, IsRead, TypeOK
  <2>2. ready' = Append(ready, c) /\ UNCHANGED <<socket, state, pc, reading>>
    BY <1>9 DEF TimeoutExpires
  <2> QED BY <1>2, <2>1, <2>2
<1>10. CASE UNCHANGED vars
  BY <1>0, <1>10 DEF vars, ReadInv
<1> QED
  BY <1>1, <1>4, <1>5, <1>6, <1>7, <1>8, <1>9, <1>10 DEF Next, Reactor, Stopped

-----------------------------------------------------------------------------
(* The session's state.                                                     *)

\* The parts of SessionInv other than ReadInv.
StateInv ==
  /\ AuthHasBind
  /\ pc = "auth" => state = "OPEN"
  /\ ClosedOnce
  /\ BoundAsGranted
  /\ DeliverToReceiver

\* do_disconnect keeps StateInv.
LEMMA DisconnectState ==
  ASSUME IInv, pc \notin Closing, NEW q, NEW ret \in Closing, do_disconnect(q, ret),
         UNCHANGED <<socket, exited, granted, dpc>>
  PROVE  StateInv'
BY DEF IInv, SessionInv, TypeOK, StateInv, AuthHasBind, ClosedOnce, BoundAsGranted,
       DeliverToReceiver, CanDeliver, do_disconnect

\* StateInv is preserved by every step.
LEMMA StepState == IInv /\ [Next]_vars => StateInv'
<1> SUFFICES ASSUME IInv, [Next]_vars PROVE StateInv'
  OBVIOUS
<1> USE DEF sessionVars, keepaliveVars, ioVars, threadVars, peerVars
<1>0. /\ TypeOK /\ ReadInv /\ StateInv
  BY DEF IInv, SessionInv, StateInv
<1>1. ASSUME UNCHANGED <<sessionVars, dpc>>, pc = "idle",
             pc' \in {"idle", "update", "route"} PROVE StateInv'
  BY <1>0, <1>1 DEF StateInv, AuthHasBind, ClosedOnce, BoundAsGranted,
       DeliverToReceiver, CanDeliver
<1>2. CASE read_failed
  BY <1>2, DisconnectState DEF read_failed, Turn
<1>3. CASE read_body
  BY <1>1, <1>3 DEF read_body, Turn
<1>4. CASE close_socket
  BY <1>0, <1>4 DEF close_socket, StateInv, AuthHasBind, ClosedOnce,
       BoundAsGranted, DeliverToReceiver, CanDeliver, ReadInv
<1>5. CASE handle_bind_again \/ handle_simple_request \/ handle_deliver_sm_resp
             \/ refuse_submit_sm \/ handle_submit_sm \/ handle_enquire_link_resp
  BY <1>1, <1>5 DEF handle_bind_again, handle_simple_request,
       handle_deliver_sm_resp, refuse_submit_sm, handle_submit_sm,
       handle_enquire_link_resp, Received, Turn
<1>6. CASE handle_bind
  BY <1>0, <1>6 DEF handle_bind, Received, Turn, StateInv, AuthHasBind,
       ClosedOnce, BoundAsGranted, DeliverToReceiver, CanDeliver
<1>7. CASE auth_accepted
  BY <1>0, <1>7 DEF auth_accepted, StateInv, AuthHasBind, ClosedOnce,
       BoundAsGranted, BoundState, DeliverToReceiver, CanDeliver
<1>8. CASE auth_rejected
  BY <1>8, DisconnectState DEF auth_rejected
<1>9. CASE send_bind_resp \/ call_returns
  BY <1>0, <1>9 DEF send_bind_resp, call_returns, StateInv, AuthHasBind,
       ClosedOnce, BoundAsGranted, DeliverToReceiver, CanDeliver
<1>10. CASE handle_unbind
  BY <1>10, DisconnectState DEF handle_unbind, Received, Turn
<1>11. CASE on_enquire_link_timer
  BY <1>1, <1>11 DEF on_enquire_link_timer, Turn
<1>12. CASE on_enquire_link_timeout
  <2>1. pc = "idle" /\ UNCHANGED <<socket, exited, granted, dpc>>
    BY <1>12 DEF on_enquire_link_timeout, Turn
  <2>2. CASE do_disconnect(Tail(ready), "close")
    BY <2>1, <2>2, DisconnectState
  <2>3. CASE UNCHANGED <<state, pc>>
    BY <1>1, <2>1, <2>3
  <2> QED BY <1>12, <2>2, <2>3 DEF on_enquire_link_timeout
<1>13. CASE posted_disconnect
  BY <1>13, DisconnectState DEF posted_disconnect, Turn
<1>14. CASE HeaderArrives
  \* Nothing is being read while Authenticate is called.
  <2>1. pc # "auth"
    BY <1>0, <1>14 DEF HeaderArrives, ReadInv
  <2> QED BY <1>0, <1>14, <2>1 DEF HeaderArrives, StateInv, AuthHasBind,
       ClosedOnce, BoundAsGranted, DeliverToReceiver, CanDeliver
<1>15. CASE DbusStep
  BY <1>0, <1>15 DEF DbusStep, Disconnect, DeliverSm, send_deliver_sm, StateInv,
       AuthHasBind, ClosedOnce, BoundAsGranted, DeliverToReceiver, CanDeliver
<1>16. CASE Environment \/ BodyArrives \/ IntervalExpires \/ TimeoutExpires
              \/ UNCHANGED vars
  <2>1. UNCHANGED <<sessionVars, pc, dpc, hdr>>
    BY <1>16 DEF Environment, PeerSend, PeerClose, signal, BodyArrives,
         IntervalExpires, TimeoutExpires, vars
  <2> QED BY <1>0, <2>1 DEF StateInv, AuthHasBind, ClosedOnce, BoundAsGranted,
       DeliverToReceiver, CanDeliver
<1> QED
  BY <1>2, <1>3, <1>4, <1>5, <1>6, <1>7, <1>8, <1>9, <1>10, <1>11, <1>12, <1>13,
     <1>14, <1>15, <1>16 DEF Next, AsioStep, Reactor, Stopped

-----------------------------------------------------------------------------
(* The theorems.                                                            *)

\* The initial state satisfies the inductive invariant.
LEMMA InitInv == Init => IInv
<1> SUFFICES ASSUME Init PROVE IInv
  OBVIOUS
<1>1. TypeOK
  <2>1. el_pending \in BOOLEAN /\ el_timer \in BOOLEAN /\ running \in BOOLEAN
    BY Zenon DEF Init
  <2>2. el_seq \in Seqs
    BY DEF Init, Seqs
  <2>3. inbox \in Seq(Pdus) /\ ready \in Seq(Completion)
        /\ owed \in Seq(Pdus \cup {NoPdu})
    BY DEF Init
  <2> QED BY <2>1, <2>2, <2>3 DEF Init, TypeOK
<1>2. Reads(ready) = {}
  BY DEF Init, Reads
<1>3. SessionInv
  BY <1>2 DEF Init, SessionInv, ReadInv, AtMostOne, AuthHasBind, ClosedOnce,
       BoundAsGranted, DeliverToReceiver
<1> QED BY <1>1, <1>3 DEF IInv

\* The inductive invariant holds of every reachable state of a session.
THEOREM Inductive == Spec => []IInv
<1>1. IInv /\ [Next]_vars => IInv'
  <2> SUFFICES ASSUME IInv, [Next]_vars PROVE IInv'
    OBVIOUS
  <2>1. TypeOK'
    BY StepType DEF IInv, SessionInv
  <2>2. ReadInv' /\ StateInv'
    BY StepReads, StepState
  <2> QED BY <2>1, <2>2 DEF IInv, SessionInv, StateInv
<1> QED BY <1>1, InitInv, PTL DEF Spec

\* Type correctness.  It needs the invariant: the bind command that
\* handle_bind turns into a state is the one it was called with only because
\* no other PDU is read while Authenticate is called.
THEOREM TypeCorrect == Spec => []TypeOK
<1>1. IInv => TypeOK
  BY DEF IInv
<1> QED BY <1>1, Inductive, PTL

\* do_disconnect closes the socket and emits SessionExited once, whichever of
\* the peer, the keepalive, an unbind, a failed bind or a D-Bus caller ends the
\* session, and however many of them do.
THEOREM ClosesOnce == Spec => []ClosedOnce
<1>1. IInv => ClosedOnce
  BY DEF IInv, SessionInv
<1> QED BY <1>1, Inductive, PTL

\* A session is bound only as Authenticate granted it (handle_bind).
THEOREM BindsAsGranted == Spec => []BoundAsGranted
<1>1. IInv => BoundAsGranted
  BY DEF IInv, SessionInv
<1> QED BY <1>1, Inductive, PTL

\* The check that DeliverSm makes and lets go of holds when it sends, unless
\* the session has ended.
THEOREM DeliversToReceiver == Spec => []DeliverToReceiver
<1>1. IInv => DeliverToReceiver
  BY DEF IInv, SessionInv
<1> QED BY <1>1, Inductive, PTL

\* The read loop of read_header, read_body and dispatch neither stalls nor forks.
THEOREM ReadsOnce == Spec => []OneReader
<1>1. IInv => OneReader
  <2> SUFFICES ASSUME IInv, state # "UNBOUND" PROVE
         /\ pc # "idle" <=> (reading = "none" /\ ReadsQueued = {})
         /\ reading = "none" \/ ReadsQueued = {}
         /\ \A i, j \in ReadsQueued : i = j
    BY DEF OneReader
  <2>1. ReadsQueued = Reads(ready)
    BY DEF ReadsQueued, Queued, Reads, IsRead
  <2>2. socket = "open" /\ pc \notin Closing
    BY DEF IInv, TypeOK, SessionInv, ClosedOnce
  <2> QED BY <2>1, <2>2 DEF IInv, SessionInv, ReadInv, AtMostOne
<1> QED BY <1>1, Inductive, PTL

\* The session implements SessionLifecycle: bound once, ended once, announced
\* once, although handle_bind sets the bound state without looking at state_
\* again after the call to the authenticator.
THEOREM Refinement == Spec => RefinesLifecycle
<1>1. Init => Lifecycle!Init
  BY DEF Init, Lifecycle!Init
<1>2. IInv /\ [Next]_vars => [Lifecycle!Next]_(Lifecycle!lifecycleVars)
  <2> SUFFICES ASSUME IInv, [Next]_vars
               PROVE  [Lifecycle!Next]_(Lifecycle!lifecycleVars)
    OBVIOUS
  <2> USE DEF sessionVars, Lifecycle!lifecycleVars, Lifecycle!BoundStates
  <2>1. ASSUME NEW q, NEW ret \in Closing, do_disconnect(q, ret), UNCHANGED exited
        PROVE  [Lifecycle!Next]_(Lifecycle!lifecycleVars)
    BY <2>1 DEF do_disconnect, Lifecycle!Next, Lifecycle!End
  <2>2. CASE auth_accepted
    BY <2>2 DEF IInv, SessionInv, AuthHasBind, auth_accepted, BoundState,
         Lifecycle!Next, Lifecycle!Bind
  <2>3. CASE close_socket
    BY <2>3 DEF IInv, SessionInv, ClosedOnce, ReadInv, close_socket,
         Lifecycle!Next, Lifecycle!Announce
  <2>4. CASE read_failed \/ auth_rejected \/ handle_unbind \/ posted_disconnect
    BY <2>1, <2>4 DEF read_failed, auth_rejected, handle_unbind, posted_disconnect
  <2>5. CASE on_enquire_link_timeout
    BY <2>1, <2>5 DEF on_enquire_link_timeout
  <2>6. CASE read_body \/ handle_bind_again \/ handle_bind \/ send_bind_resp
               \/ handle_simple_request \/ handle_deliver_sm_resp
               \/ handle_submit_sm \/ refuse_submit_sm \/ call_returns
               \/ on_enquire_link_timer \/ handle_enquire_link_resp
    BY <2>6 DEF read_body, handle_bind_again, handle_bind, send_bind_resp,
         handle_simple_request, handle_deliver_sm_resp, handle_submit_sm,
         refuse_submit_sm, call_returns, on_enquire_link_timer,
         handle_enquire_link_resp
  <2>7. CASE DbusStep \/ Environment \/ Reactor \/ UNCHANGED vars
    BY <2>7 DEF DbusStep, Disconnect, DeliverSm, send_deliver_sm, Environment,
         PeerSend, PeerClose, signal, Reactor, HeaderArrives, BodyArrives,
         IntervalExpires, TimeoutExpires, vars
  <2> QED
    BY <2>2, <2>3, <2>4, <2>5, <2>6, <2>7 DEF Next, AsioStep, Stopped
<1> QED BY <1>1, <1>2, Inductive, PTL DEF Spec, RefinesLifecycle, Lifecycle!Spec

-----------------------------------------------------------------------------
(***************************************************************************)
(* The keepalive: its two timers, the queue of completions, and            *)
(* el_pending_, for every sequence number width and any number of          *)
(* completions queued.                                                     *)
(*                                                                         *)
(* The argument is the order of the queue.  A response may be handled      *)
(* while the timeout of its probe is already queued; the interval timer is *)
(* armed only then, so that its completion comes after that timeout, and   *)
(* the next probe is sent when no timeout of an earlier one is left.       *)
(***************************************************************************)

HIDE ConstantsAssumption DEF BindCommands, RequestCommands, Commands, PduType,
    NoPdu, BoundStates, SessionStates, Closing

LiveI(c) == c.h = "el_timer" /\ ~c.ec

LiveT(c) == c.h = "el_timeout" /\ ~c.ec

\* The invariant, on a queue q, el_pending, el_timer, el_timeout and el_seq;
\* open: the keepalive is on and the session has not ended.
Kept(q, pending, timer, timeout, seq, open) ==
  /\ pending =>
       /\ ~timer /\ timeout \in {NoProbe, seq}
       /\ \A i \in DOMAIN q : ~LiveI(q[i])
       /\ \A i \in DOMAIN q : LiveT(q[i]) => q[i].probe = seq
       /\ open => timeout = seq \/ \E i \in DOMAIN q : LiveT(q[i])
  /\ ~pending =>
       /\ timeout = NoProbe
       /\ timer => \A i \in DOMAIN q : ~LiveI(q[i])
       /\ \A i, j \in DOMAIN q : LiveI(q[i]) /\ LiveI(q[j]) => i = j
       /\ \A i, j \in DOMAIN q : LiveT(q[i]) /\ LiveI(q[j]) => i < j
       /\ open => timer \/ \E i \in DOMAIN q : LiveI(q[i])

Open == KeepaliveOn /\ state # "UNBOUND"

KeepInv == Kept(ready, el_pending, el_timer, el_timeout, el_seq, Open)

-----------------------------------------------------------------------------
(* What happens to the queue.                                               *)

Quiet(c) == ~LiveI(c) /\ ~LiveT(c)

\* r is q followed by completions that are not of a timer that expired.
Longer(q, r) ==
  /\ \A i \in DOMAIN q : i \in DOMAIN r /\ r[i] = q[i]
  /\ \A i \in DOMAIN r : i \in DOMAIN q \/ Quiet(r[i])

LEMMA LongerOnce ==
  ASSUME NEW q \in Seq(Completion), NEW c \in Completion, Quiet(c)
  PROVE  Longer(q, Append(q, c))
<1>1. /\ \A i \in DOMAIN q : i \in DOMAIN Append(q, c) /\ Append(q, c)[i] = q[i]
      /\ \A i \in DOMAIN Append(q, c) : i \in DOMAIN q \/ Append(q, c)[i] = c
  OBVIOUS
<1> QED BY <1>1 DEF Longer

LEMMA LongerTwice ==
  ASSUME NEW q, NEW r, NEW s, Longer(q, r), Longer(r, s)
  PROVE  Longer(q, s)
BY DEF Longer

LEMMA LongerKept ==
  ASSUME NEW q, NEW r, Longer(q, r), NEW pending, NEW timer, NEW timeout, NEW seq,
         NEW o, NEW p, p => o, Kept(q, pending, timer, timeout, seq, o)
  PROVE  Kept(r, pending, timer, timeout, seq, p)
<1>1. /\ \A i \in DOMAIN r : LiveI(r[i]) \/ LiveT(r[i]) => i \in DOMAIN q /\ r[i] = q[i]
      /\ \A i \in DOMAIN q : i \in DOMAIN r /\ r[i] = q[i]
  BY DEF Longer, Quiet
<1>2. CASE pending
  BY <1>1, <1>2 DEF Kept
<1>3. CASE ~pending
  BY <1>1, <1>3 DEF Kept
<1> QED BY <1>2, <1>3

\* Taking the head keeps the invariant, unless it was the timer waited for.
LEMMA TailKept ==
  ASSUME NEW q \in Seq(Completion), q # <<>>,
         NEW pending, NEW timer, NEW timeout, NEW seq, NEW o, NEW p,
         p => o /\ (pending => ~LiveT(Head(q))) /\ (~pending => ~LiveI(Head(q))),
         Kept(q, pending, timer, timeout, seq, o)
  PROVE  Kept(Tail(q), pending, timer, timeout, seq, p)
<1> DEFINE r == Tail(q)
<1>1. /\ \A i \in DOMAIN r : i \in Nat /\ i + 1 \in DOMAIN q /\ r[i] = q[i + 1]
      /\ \A i \in DOMAIN q : i \in Nat /\ (i = 1 \/ (i - 1 \in DOMAIN r /\ r[i - 1] = q[i]))
      /\ q[1] = Head(q)
  OBVIOUS
<1> HIDE DEF r
<1>2. ASSUME NEW i \in DOMAIN r, NEW j \in DOMAIN r
      PROVE  (i + 1 = j + 1 => i = j) /\ (i + 1 < j + 1 => i < j)
  BY <1>1
<1>3. ASSUME pending PROVE Kept(r, pending, timer, timeout, seq, p)
  <2>1. /\ ~timer /\ timeout \in {NoProbe, seq}
        /\ \A i \in DOMAIN r : ~LiveI(r[i])
        /\ \A i \in DOMAIN r : LiveT(r[i]) => r[i].probe = seq
    BY <1>1, <1>3 DEF Kept
  <2>2. p => timeout = seq \/ \E i \in DOMAIN r : LiveT(r[i])
    BY <1>1, <1>3 DEF Kept
  <2> QED BY <1>3, <2>1, <2>2 DEF Kept
<1>4. ASSUME ~pending PROVE Kept(r, pending, timer, timeout, seq, p)
  <2>1. \A i, j \in DOMAIN r : LiveI(r[i]) /\ LiveI(r[j]) => i = j
    BY <1>1, <1>2, <1>4 DEF Kept
  <2>2. \A i, j \in DOMAIN r : LiveT(r[i]) /\ LiveI(r[j]) => i < j
    BY <1>1, <1>2, <1>4 DEF Kept
  <2>3. timeout = NoProbe /\ (timer => \A i \in DOMAIN r : ~LiveI(r[i]))
    BY <1>1, <1>4 DEF Kept
  <2>4. p => timer \/ \E i \in DOMAIN r : LiveI(r[i])
    BY Zenon, <1>1, <1>4 DEF Kept
  <2> QED BY <1>4, <2>1, <2>2, <2>3, <2>4 DEF Kept
<1> QED BY <1>3, <1>4 DEF r

\* The completions that are queued without a timer having expired.
LEMMA QuietOnes ==
  ASSUME TypeOK
  PROVE  /\ \A h \in Handlers : Aborted(h) \in Completion /\ Quiet(Aborted(h))
         /\ \A h \in {"header", "body", "disconnect"} : Done(h) \in Completion /\ Quiet(Done(h))
         /\ el_timeout # NoProbe =>
              /\ [Aborted("el_timeout") EXCEPT !.probe = el_timeout] \in Completion
              /\ Quiet([Aborted("el_timeout") EXCEPT !.probe = el_timeout])
BY Zenon DEF Aborted, Done, Completion, Handlers, Quiet, LiveI, LiveT, TypeOK

LEMMA LongerRead ==
  ASSUME TypeOK, NEW q \in Seq(Completion), NEW w \in {"header", "body"}, start_read(w, q)
  PROVE  Longer(q, ready')
<1>1. Aborted(w) \in Completion /\ Quiet(Aborted(w))
  BY QuietOnes DEF Handlers
<1>2. Longer(q, q) /\ Longer(q, Append(q, Aborted(w)))
  BY <1>1, LongerOnce DEF Longer
<1> QED BY Zenon, <1>2 DEF start_read

LEMMA LongerDisconnect ==
  ASSUME TypeOK, NEW q \in Seq(Completion), NEW ret, do_disconnect(q, ret)
  PROVE  Longer(q, ready') /\ state' = "UNBOUND"
<1>1. Aborted("header") \in Completion /\ Quiet(Aborted("header"))
  BY QuietOnes DEF Handlers
<1>2. Longer(q, q) /\ Longer(q, Append(q, Aborted("header")))
  BY <1>1, LongerOnce DEF Longer
<1> QED BY Zenon, <1>2 DEF do_disconnect

-----------------------------------------------------------------------------
(* The steps.                                                               *)

LEMMA StaysOpen ==
  ASSUME IInv, [Next]_vars
  PROVE  Open' => Open
<1> USE DEF sessionVars
<1>1. CASE auth_accepted
  BY <1>1 DEF auth_accepted, IInv, SessionInv, Open
<1>2. ASSUME NEW q, NEW ret, do_disconnect(q, ret) PROVE state' = "UNBOUND"
  BY <1>2 DEF do_disconnect
<1>3. CASE read_failed \/ auth_rejected \/ handle_unbind \/ posted_disconnect
  BY <1>2, <1>3 DEF read_failed, auth_rejected, handle_unbind, posted_disconnect, Open
<1>4. CASE on_enquire_link_timeout
  BY <1>2, <1>4 DEF on_enquire_link_timeout, Open
<1>5. CASE AsioStep /\ ~(\/ auth_accepted \/ read_failed \/ auth_rejected \/ handle_unbind
                         \/ posted_disconnect \/ on_enquire_link_timeout)
  <2>1. state' = state
    BY Zenon, <1>5 DEF AsioStep, read_body, close_socket, handle_bind_again, handle_bind,
       send_bind_resp, handle_simple_request, handle_deliver_sm_resp, handle_submit_sm,
       refuse_submit_sm, call_returns, on_enquire_link_timer, handle_enquire_link_resp
  <2> QED BY <2>1 DEF Open
<1>6. CASE DbusStep \/ Environment \/ Reactor \/ UNCHANGED vars
  <2>1. state' = state
    BY <1>6 DEF DbusStep, Disconnect, DeliverSm, send_deliver_sm, Environment, PeerSend,
       PeerClose, signal, Reactor, HeaderArrives, BodyArrives, IntervalExpires,
       TimeoutExpires, vars
  <2> QED BY <2>1 DEF Open
<1> QED BY <1>1, <1>3, <1>4, <1>5, <1>6 DEF Next, Stopped

\* A step that leaves the timers alone and adds nothing of theirs to the queue.
LEMMA KeptLonger ==
  ASSUME IInv, [Next]_vars, KeepInv, UNCHANGED keepaliveVars, Longer(ready, ready')
  PROVE  KeepInv'
<1>1. Kept(ready', el_pending, el_timer, el_timeout, el_seq, Open')
  BY StaysOpen, LongerKept DEF KeepInv
<1> QED BY <1>1 DEF KeepInv, keepaliveVars

\* The same for a handler, which takes the head of the queue.
LEMMA KeptTurn ==
  ASSUME IInv, [Next]_vars, KeepInv, UNCHANGED keepaliveVars,
         ready # <<>>, Longer(Tail(ready), ready'),
         Open' => /\ el_pending => ~LiveT(Head(ready))
                  /\ ~el_pending => ~LiveI(Head(ready))
  PROVE  KeepInv'
<1>1. ready \in Seq(Completion)
  BY DEF IInv, TypeOK
<1>2. Kept(Tail(ready), el_pending, el_timer, el_timeout, el_seq, Open')
  BY <1>1, StaysOpen, TailKept DEF KeepInv
<1>3. Kept(ready', el_pending, el_timer, el_timeout, el_seq, Open')
  BY <1>2, LongerKept
<1> QED BY <1>3 DEF KeepInv, keepaliveVars

LEMMA TurnQuiet ==
  ASSUME TypeOK, NEW h \in {"header", "body", "disconnect"}, Turn(h)
  PROVE  /\ ready # <<>> /\ Tail(ready) \in Seq(Completion)
         /\ ~LiveI(Head(ready)) /\ ~LiveT(Head(ready))
BY DEF TypeOK, Turn, LiveI, LiveT

\* The handlers that leave the timers alone.
LEMMA HandlersKeep ==
  ASSUME IInv, [Next]_vars, KeepInv, AsioStep, ~on_enquire_link_timer, ~handle_enquire_link_resp,
         ~on_enquire_link_timeout
  PROVE  KeepInv'
<1>0. TypeOK /\ ready \in Seq(Completion)
  BY DEF IInv, TypeOK
<1>1. UNCHANGED keepaliveVars
  BY Zenon DEF AsioStep, read_failed, read_body, close_socket, handle_bind_again, handle_bind,
     auth_accepted, auth_rejected, send_bind_resp, handle_unbind, handle_simple_request,
     handle_deliver_sm_resp, handle_submit_sm, refuse_submit_sm, call_returns,
     posted_disconnect
<1>2. \A q : Longer(q, q)
  BY DEF Longer
<1> DEFINE Took == \/ ready' = Tail(ready)
                   \/ \E w \in {"header", "body"} : start_read(w, Tail(ready))
                   \/ \E ret \in Closing : do_disconnect(Tail(ready), ret)
<1>3. ASSUME NEW h \in {"header", "body", "disconnect"}, Turn(h), Took
      PROVE  KeepInv'
  <2>1. /\ ready # <<>> /\ Tail(ready) \in Seq(Completion)
        /\ ~LiveI(Head(ready)) /\ ~LiveT(Head(ready))
    BY <1>0, <1>3, TurnQuiet
  <2>2. Longer(Tail(ready), ready')
    BY Zenon, <1>0, <1>2, <1>3, <2>1, LongerRead, LongerDisconnect
  <2> QED BY <1>1, <2>1, <2>2, KeptTurn
<1>4. CASE read_failed \/ read_body \/ posted_disconnect
  <2>1. Took
    BY <1>4 DEF read_failed, read_body, posted_disconnect, Closing
  <2>2. Turn("header") \/ Turn("body") \/ Turn("disconnect")
    BY <1>4 DEF read_failed, read_body, posted_disconnect
  <2> HIDE DEF Took
  <2> QED BY <1>3, <2>1, <2>2
<1>5. CASE \/ handle_bind_again \/ handle_bind \/ handle_unbind \/ handle_simple_request
           \/ handle_deliver_sm_resp \/ handle_submit_sm \/ refuse_submit_sm
  <2>1. Took
    BY <1>5 DEF handle_bind_again, handle_bind, handle_unbind, handle_simple_request,
       handle_deliver_sm_resp, handle_submit_sm, refuse_submit_sm, next_pdu, Closing
  <2>2. Turn("header") \/ Turn("body")
    BY <1>5 DEF handle_bind_again, handle_bind, handle_unbind, handle_simple_request,
       handle_deliver_sm_resp, handle_submit_sm, refuse_submit_sm, Received
  <2> HIDE DEF Took
  <2> QED BY <1>3, <2>1, <2>2
<1>6. CASE auth_accepted \/ send_bind_resp
  BY <1>1, <1>2, <1>6, KeptLonger DEF auth_accepted, send_bind_resp, ioVars
<1>7. CASE auth_rejected
  BY <1>0, <1>1, <1>7, LongerDisconnect, KeptLonger DEF auth_rejected
<1>8. CASE call_returns
  BY <1>0, <1>1, <1>8, LongerRead, KeptLonger DEF call_returns, next_pdu
<1>9. CASE close_socket
  <2> DEFINE a == IF reading = "none" THEN ready ELSE Append(ready, Aborted(reading))
             b == IF pc = "close" THEN a ELSE Append(a, Aborted("header"))
  <2>1. /\ Aborted("header") \in Completion /\ Quiet(Aborted("header"))
        /\ reading # "none" => Aborted(reading) \in Completion /\ Quiet(Aborted(reading))
    BY <1>0, QuietOnes DEF Handlers, TypeOK
  <2>2. a \in Seq(Completion) /\ Longer(ready, a)
    BY <1>0, <1>2, <2>1, LongerOnce
  <2> HIDE DEF a
  <2>3. Longer(a, b)
    BY <1>2, <2>1, <2>2, LongerOnce
  <2>4. ready' = b
    <3>1. ASSUME NEW q \in Seq(Completion), NEW e \in Completion
          PROVE  q \o <<>> = q /\ q \o <<e>> = Append(q, e)
      OBVIOUS
    <3>2. ready \o (IF reading = "none" THEN <<>> ELSE <<Aborted(reading)>>) = a
      BY <1>0, <2>1, <3>1 DEF a
    <3>3. a \o (IF pc = "close" THEN <<>> ELSE <<Aborted("header")>>) = b
      BY <2>1, <2>2, <3>1
    <3> QED BY Zenon, <1>9, <3>2, <3>3 DEF close_socket
  <2> QED BY <1>1, <2>2, <2>3, <2>4, LongerTwice, KeptLonger
<1> QED BY <1>4, <1>5, <1>6, <1>7, <1>8, <1>9 DEF AsioStep

\* on_enquire_link_timer sends a probe when no timeout of another is left.
LEMMA TimerKeeps ==
  ASSUME IInv, [Next]_vars, KeepInv, on_enquire_link_timer
  PROVE  KeepInv'
<1> DEFINE skip == Head(ready).ec \/ el_pending \/ state = "UNBOUND"
<1>1. /\ ready \in Seq(Completion) /\ ready # <<>> /\ Tail(ready) \in Seq(Completion)
      /\ Head(ready).h = "el_timer" /\ state' = state
  BY DEF on_enquire_link_timer, Turn, IInv, TypeOK, sessionVars
<1>2. CASE skip
  <2>1. ready' = Tail(ready) /\ UNCHANGED keepaliveVars
    BY <1>2 DEF on_enquire_link_timer
  <2>2. Longer(Tail(ready), ready')
    BY <2>1 DEF Longer
  <2>3. ~LiveT(Head(ready)) /\ (LiveI(Head(ready)) /\ ~el_pending => ~Open')
    BY <1>1, <1>2 DEF LiveI, LiveT, Open
  <2> QED BY <1>1, <2>1, <2>2, <2>3, KeptTurn
<1>3. CASE ~skip
  <2>1. ~el_pending /\ LiveI(ready[1]) /\ 1 \in DOMAIN ready
    BY <1>1, <1>3 DEF LiveI
  <2>2. /\ el_timeout = NoProbe /\ ~el_timer
        /\ \A i \in DOMAIN ready : LiveI(ready[i]) => i = 1
        /\ \A i \in DOMAIN ready : LiveT(ready[i]) => i < 1
    BY <2>1 DEF KeepInv, Kept
  <2>3. /\ ready' = Tail(ready) /\ el_timer' = el_timer
        /\ el_pending' = TRUE /\ el_timeout' = el_seq'
    BY <1>3, <2>2 DEF on_enquire_link_timer, abort_timeout
  <2>4. \A i \in DOMAIN Tail(ready) :
          i + 1 \in DOMAIN ready /\ Tail(ready)[i] = ready[i + 1] /\ i + 1 # 1 /\ ~(i + 1 < 1)
    BY <1>1
  <2>5. \A i \in DOMAIN ready' : ~LiveI(ready'[i]) /\ ~LiveT(ready'[i])
    BY <2>2, <2>3, <2>4
  <2> QED BY <2>2, <2>3, <2>5 DEF KeepInv, Kept
<1> QED BY <1>2, <1>3

\* handle_enquire_link_resp arms the interval timer; a timeout that is already
\* queued is ahead of it.
LEMMA ResponseKeeps ==
  ASSUME IInv, [Next]_vars, KeepInv, handle_enquire_link_resp
  PROVE  KeepInv'
<1>0. TypeOK /\ (Turn("header") \/ Turn("body"))
  BY DEF IInv, handle_enquire_link_resp, Received
<1>1. /\ ready # <<>> /\ Tail(ready) \in Seq(Completion) /\ ready \in Seq(Completion)
      /\ ~LiveI(Head(ready)) /\ ~LiveT(Head(ready))
  BY <1>0, TurnQuiet DEF TypeOK
<1>2. CASE ~(hdr.seq = el_seq /\ el_pending)
  <2>1. start_read("header", Tail(ready)) /\ UNCHANGED keepaliveVars
    BY <1>2 DEF handle_enquire_link_resp, next_pdu
  <2>2. Longer(Tail(ready), ready')
    BY Zenon, <1>0, <1>1, <2>1, LongerRead
  <2> QED BY <1>1, <2>1, <2>2, KeptTurn
<1>3. CASE hdr.seq = el_seq /\ el_pending
  <2> DEFINE a == abort_timeout(Tail(ready))
             b == abort_interval(a)
  <2>1. /\ el_pending' = FALSE /\ el_timeout' = NoProbe /\ el_timer' = TRUE
        /\ start_read("header", b)
    BY <1>3 DEF handle_enquire_link_resp, next_pdu
  <2>2. \A q : Longer(q, q)
    BY DEF Longer
  <2>3. a \in Seq(Completion) /\ Longer(Tail(ready), a)
    <3> DEFINE c == [Aborted("el_timeout") EXCEPT !.probe = el_timeout]
    <3>1. el_timeout # NoProbe => c \in Completion /\ Quiet(c)
      BY <1>0, QuietOnes
    <3>2. a = IF el_timeout = NoProbe THEN Tail(ready) ELSE Append(Tail(ready), c)
      BY DEF abort_timeout
    <3> HIDE DEF a, c
    <3>3. CASE el_timeout = NoProbe
      BY <1>1, <2>2, <3>2, <3>3
    <3>4. CASE el_timeout # NoProbe
      <4>1. a = Append(Tail(ready), c) /\ c \in Completion /\ Quiet(c)
        BY <3>1, <3>2, <3>4
      <4>2. a \in Seq(Completion)
        BY <1>1, <4>1
      <4>3. Longer(Tail(ready), Append(Tail(ready), c))
        BY Zenon, <1>1, <4>1, LongerOnce
      <4> QED BY <4>1, <4>2, <4>3
    <3> QED BY <3>3, <3>4
  <2> HIDE DEF a
  <2>4. b \in Seq(Completion) /\ Longer(a, b)
    BY <1>0, <2>2, <2>3, LongerOnce, QuietOnes DEF abort_interval, Handlers
  <2> HIDE DEF b
  <2>5. Longer(b, ready')
    BY <1>0, <2>1, <2>4, LongerRead
  <2>6. Longer(Tail(ready), ready')
    BY <2>3, <2>4, <2>5, LongerTwice
  <2>7. \A i \in DOMAIN Tail(ready) : i + 1 \in DOMAIN ready /\ Tail(ready)[i] = ready[i + 1]
    BY <1>1
  <2>8. \A i \in DOMAIN Tail(ready) : ~LiveI(Tail(ready)[i])
    BY <1>3, <2>7 DEF KeepInv, Kept
  <2>9. \A i \in DOMAIN ready' : ~LiveI(ready'[i])
    BY <2>6, <2>8 DEF Longer, Quiet
  <2> QED BY <2>1, <2>9 DEF KeepInv, Kept
<1> QED BY <1>2, <1>3

LEMMA TimeoutKeeps ==
  ASSUME IInv, [Next]_vars, KeepInv, on_enquire_link_timeout
  PROVE  KeepInv'
<1> DEFINE skip == Head(ready).ec \/ ~el_pending
<1>1. /\ TypeOK /\ ready # <<>> /\ Tail(ready) \in Seq(Completion)
      /\ Head(ready).h = "el_timeout" /\ UNCHANGED keepaliveVars
  BY DEF on_enquire_link_timeout, Turn, IInv, TypeOK
<1>2. CASE skip
  <2>1. ready' = Tail(ready)
    BY <1>2 DEF on_enquire_link_timeout
  <2>2. Longer(Tail(ready), ready')
    BY <2>1 DEF Longer
  <2>3. ~LiveI(Head(ready)) /\ (el_pending => ~LiveT(Head(ready)))
    BY <1>1, <1>2 DEF LiveI, LiveT
  <2> QED BY <1>1, <2>2, <2>3, KeptTurn
<1>3. CASE ~skip
  <2>1. do_disconnect(Tail(ready), "close")
    BY <1>3 DEF on_enquire_link_timeout
  <2>2. Longer(Tail(ready), ready') /\ ~Open'
    BY Zenon, <1>1, <2>1, LongerDisconnect DEF Open
  <2> QED BY <1>1, <2>2, KeptTurn
<1> QED BY <1>2, <1>3

\* t is q with c after it.
Last(q, c, t) ==
  /\ \A i \in DOMAIN t : (i \in DOMAIN q /\ t[i] = q[i]) \/ (i = Len(q) + 1 /\ t[i] = c)
  /\ \A i \in DOMAIN q : i < Len(q) + 1
  /\ Len(q) + 1 \in DOMAIN t /\ t[Len(q) + 1] = c

LEMMA AppendAt ==
  ASSUME NEW q \in Seq(Completion), NEW c \in Completion
  PROVE  Last(q, c, Append(q, c))
BY DEF Last

\* A timer expires: its completion is the last of the queue.
LEMMA ExpiryKeeps ==
  ASSUME IInv, [Next]_vars, KeepInv, IntervalExpires \/ TimeoutExpires
  PROVE  KeepInv'
<1>0. TypeOK /\ ready \in Seq(Completion)
  BY DEF IInv, TypeOK
<1>1. ASSUME NEW c \in Completion, ready' = Append(ready, c)
      PROVE  Last(ready, c, ready')
  BY Zenon, <1>0, <1>1, AppendAt
<1>2. CASE IntervalExpires
  <2> DEFINE c == Done("el_timer")
  <2>1. c \in Completion /\ LiveI(c) /\ ~LiveT(c)
    BY DEF Done, Completion, Handlers, LiveI, LiveT
  <2>2. /\ el_timer /\ ~el_timer' /\ ready' = Append(ready, c)
        /\ UNCHANGED <<el_pending, el_seq, el_timeout>>
    BY <1>2 DEF IntervalExpires
  <2> HIDE DEF c
  <2>3. ~el_pending /\ el_timeout = NoProbe /\ \A i \in DOMAIN ready : ~LiveI(ready[i])
    BY Zenon, <2>2 DEF KeepInv, Kept
  <2>4. Last(ready, c, ready')
    BY Zenon, <1>1, <2>1, <2>2
  <2>5. \A i \in DOMAIN ready' : LiveI(ready'[i]) => i = Len(ready) + 1
    BY Zenon, <2>3, <2>4 DEF Last
  <2>6. \A i \in DOMAIN ready' : LiveT(ready'[i]) => i < Len(ready) + 1
    BY Zenon, <2>1, <2>4 DEF Last
  <2>7. \A i, j \in DOMAIN ready' : LiveI(ready'[i]) /\ LiveI(ready'[j]) => i = j
    BY Zenon, <2>5
  <2>8. \A i, j \in DOMAIN ready' : LiveT(ready'[i]) /\ LiveI(ready'[j]) => i < j
    BY Zenon, <2>5, <2>6
  <2>9. \E i \in DOMAIN ready' : LiveI(ready'[i])
    BY Zenon, <2>1, <2>4 DEF Last
  <2> QED BY <2>2, <2>3, <2>7, <2>8, <2>9 DEF KeepInv, Kept
<1>3. CASE TimeoutExpires
  <2> DEFINE c == [Done("el_timeout") EXCEPT !.probe = el_timeout]
  <2>1. /\ el_timeout # NoProbe /\ el_timeout' = NoProbe /\ ready' = Append(ready, c)
        /\ UNCHANGED <<el_pending, el_seq, el_timer>>
    BY <1>3 DEF TimeoutExpires
  <2>2. c \in Completion /\ LiveT(c) /\ ~LiveI(c) /\ c.probe = el_timeout
    BY Zenon, <1>0 DEF Done, Completion, Handlers, LiveI, LiveT, TypeOK
  <2>3. Last(ready, c, ready')
    BY Zenon, <1>1, <2>1, <2>2
  <2> HIDE DEF c
  <2>4. /\ el_pending /\ ~el_timer /\ el_timeout = el_seq
        /\ \A i \in DOMAIN ready : ~LiveI(ready[i])
        /\ \A i \in DOMAIN ready : LiveT(ready[i]) => ready[i].probe = el_seq
    BY Zenon, <2>1 DEF KeepInv, Kept
  <2>5. \A i \in DOMAIN ready' :
          ~LiveI(ready'[i]) /\ (LiveT(ready'[i]) => ready'[i].probe = el_seq)
    BY Zenon, <2>2, <2>3, <2>4 DEF Last
  <2>6. \E i \in DOMAIN ready' : LiveT(ready'[i])
    BY Zenon, <2>2, <2>3 DEF Last
  <2> QED BY Zenon, <2>1, <2>4, <2>5, <2>6 DEF KeepInv, Kept
<1> QED BY <1>2, <1>3

LEMMA StepKeeps ==
  ASSUME IInv, [Next]_vars, KeepInv
  PROVE  KeepInv'
<1>0. TypeOK /\ ready \in Seq(Completion) /\ Longer(ready, ready)
  BY DEF IInv, TypeOK, Longer
<1>1. CASE AsioStep
  BY <1>1, HandlersKeep, TimerKeeps, ResponseKeeps, TimeoutKeeps
<1>2. CASE IntervalExpires \/ TimeoutExpires
  BY <1>2, ExpiryKeeps
<1>3. CASE HeaderArrives \/ BodyArrives \/ Disconnect
  <2>1. PICK c \in Completion : ready' = Append(ready, c) /\ Quiet(c)
    BY <1>0, <1>3, QuietOnes DEF HeaderArrives, BodyArrives, Disconnect, Handlers
  <2>2. UNCHANGED keepaliveVars
    BY <1>3 DEF HeaderArrives, BodyArrives, Disconnect
  <2> QED BY <1>0, <2>1, <2>2, LongerOnce, KeptLonger
<1>4. CASE DeliverSm \/ send_deliver_sm \/ Environment \/ UNCHANGED vars
  <2>1. ready' = ready /\ UNCHANGED keepaliveVars
    BY <1>4 DEF DeliverSm, send_deliver_sm, Environment, PeerSend, PeerClose, signal,
       ioVars, vars
  <2> QED BY <1>0, <2>1, KeptLonger
<1> QED BY <1>1, <1>2, <1>3, <1>4 DEF Next, DbusStep, Reactor, Stopped

-----------------------------------------------------------------------------
(* The theorems.                                                            *)

\* KeepInv holds of every reachable state of a session.
THEOREM Keeps == Spec => []KeepInv
<1>1. Init => KeepInv
  BY ConstantsAssumption DEF Init, KeepInv, Kept, Open
<1>2. IInv /\ KeepInv /\ [Next]_vars => KeepInv'
  BY StepKeeps
<1> QED BY <1>1, <1>2, Inductive, PTL DEF Spec

\* The keepalive never dies: until the session ends a probe is outstanding and
\* its timeout armed or queued, or the next probe is, whatever the order in
\* which responses and the two timers' completions reach the asio thread.
THEOREM KeepaliveNeverDies == Spec => []KeepaliveArmed
<1>1. IInv /\ KeepInv => KeepaliveArmed
  <2> SUFFICES ASSUME IInv, KeepInv, Open PROVE KeepaliveArmed
    BY DEF KeepaliveArmed, Open
  <2>1. \A i \in DOMAIN ready : (i \in LiveIntervals <=> LiveI(ready[i]))
                             /\ (i \in LiveTimeouts <=> LiveT(ready[i]))
    BY DEF LiveIntervals, LiveTimeouts, Queued, LiveI, LiveT
  <2>2. LiveIntervals \subseteq DOMAIN ready /\ LiveTimeouts \subseteq DOMAIN ready
    BY DEF LiveIntervals, LiveTimeouts, Queued
  <2>3. CASE el_pending
    <3>1. ~el_timer /\ LiveIntervals = {}
      BY <2>1, <2>2, <2>3 DEF KeepInv, Kept
    <3>2. el_timeout = el_seq \/ \E i \in LiveTimeouts : ready[i].probe = el_seq
      BY <2>1, <2>2, <2>3 DEF KeepInv, Kept
    <3> QED BY <2>3, <3>1, <3>2 DEF KeepaliveArmed
  <2>4. CASE ~el_pending
    <3>1. el_timeout = NoProbe /\ (el_timer \/ LiveIntervals # {})
      BY <2>1, <2>2, <2>4 DEF KeepInv, Kept
    <3> QED BY <2>4, <3>1 DEF KeepaliveArmed
  <2> QED BY <2>3, <2>4
<1> QED BY <1>1, Keeps, Inductive, PTL

\* A timeout armed for an earlier probe never ends a session, although
\* on_enquire_link_timeout only looks at el_pending_.
THEOREM StaleTimeoutHarmless == Spec => []NoStaleTimeout
<1>1. KeepInv => NoStaleTimeout
  BY DEF KeepInv, Kept, NoStaleTimeout, LiveTimeouts, Queued, LiveT
<1> QED BY <1>1, Keeps, PTL
=============================================================================
