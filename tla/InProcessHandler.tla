-------------------------- MODULE InProcessHandler --------------------------
(***************************************************************************)
(* The in-process SmppClientHandler of SMPPServer: the handler on its      *)
(* strand (smpp_client_handler.cpp), the framer it feeds                   *)
(* (smpp_pdu_framer.cpp), the answers of SmppHandler and the session's     *)
(* state (smpp_handler.cpp, smpp_session.cpp).  The handler processes have *)
(* replaced it and no target builds it.                                    *)
(*                                                                         *)
(* A byte on the connection is <<k, i>>, the i-th byte of the k-th PDU the  *)
(* peer sent.  The first HeaderLen bytes of a PDU (16 in the code) are its  *)
(* header; a header put together from other bytes says anything.  What an   *)
(* answer is encoded to is left out: encode_pdu is a placeholder that       *)
(* returns no bytes.                                                        *)
(***************************************************************************)
EXTENDS Integers, Sequences

CONSTANTS
  HeaderLen,  \* bytes of a header
  Pdus,       \* PDUs the peer may send
  MaxPdus     \* bound: PDUs the peer sends

BindCommands == {"BIND_RECEIVER", "BIND_TRANSMITTER", "BIND_TRANSCEIVER"}

Commands == BindCommands \cup {"UNBIND", "ENQUIRE_LINK", "OTHER"}

\* len is command_length; login says that a bind parses and that
\* validate_credentials accepts it.
PduType == [cmd : Commands, len : Nat, login : BOOLEAN]

ASSUME InProcessAssumption ==
  /\ HeaderLen \in Nat \ {0} /\ Pdus \subseteq PduType
  /\ MaxPdus \in Nat

VARIABLES
  stream,             \* history: the PDUs the peer has sent
  inbox,              \* their bytes that were not read yet
  peer,               \* the peer's end: "open" or "closed"
  reading,            \* an async_read_some is outstanding
  writing,            \* an async_write is outstanding
  ready,              \* the strand's queue of completions
  socket,             \* socket_: "open" or "closed"
  framer_state,       \* state_ of the framer
  full_pdu,           \* full_pdu_
  hdr,                \* the header fields parse_header read
  session,            \* state_ of the session
  write_queue,        \* write_queue_
  write_in_progress,  \* write_in_progress_
  close_after_write,  \* close_after_write_
  buffer,             \* the answer the outstanding async_write reads from
  answers,            \* history: the answers given to send_pdu
  written,            \* history: the answers that were written
  dispatched          \* history: the PDUs dispatched, 0 for what is none

peerVars   == <<stream, inbox, peer>>
framerVars == <<framer_state, full_pdu, hdr, dispatched>>
queueVars  == <<write_queue, write_in_progress, writing, buffer, answers, written>>
vars == <<peerVars, framerVars, queueVars, reading, ready, socket, session, close_after_write>>

BoundStates == {"BOUND_RECEIVER", "BOUND_TRANSMITTER", "BOUND_TRANSCEIVER"}

is_bound == session \in BoundStates

NoHeader == [cmd |-> "OTHER", len |-> 0, login |-> FALSE]

NoAnswer == [pdu |-> 0, status |-> "none"]

Read(bytes) == [h |-> "read", ec |-> FALSE, bytes |-> bytes]

Failed(h) == [h |-> h, ec |-> TRUE, bytes |-> <<>>]

\* start: the first read is outstanding.
Init ==
  /\ stream = <<>> /\ inbox = <<>> /\ peer = "open"
  /\ reading = TRUE /\ writing = FALSE /\ ready = <<>> /\ socket = "open"
  /\ framer_state = "WAITING_HEADER" /\ full_pdu = <<>> /\ hdr = NoHeader
  /\ session = "UNBOUND"
  /\ write_queue = <<>> /\ write_in_progress = FALSE /\ close_after_write = FALSE
  /\ buffer = NoAnswer /\ answers = <<>> /\ written = <<>>
  /\ dispatched = <<>>

Smaller(a, b) == IF a <= b THEN a ELSE b

Larger(a, b) == IF a >= b THEN a ELSE b

-----------------------------------------------------------------------------
(* The peer, and asio's reads and writes.                                   *)

\* A PDU has a header even if its command_length says less.
Bytes(k, p) == [i \in 1 .. Larger(p.len, HeaderLen) |-> <<k, i>>]

PeerSend(p) ==
  /\ peer = "open" /\ socket = "open" /\ Len(stream) < MaxPdus
  /\ stream' = Append(stream, p)
  /\ inbox' = inbox \o Bytes(Len(stream) + 1, p)
  /\ UNCHANGED <<peer, framerVars, queueVars, reading, ready, socket, session, close_after_write>>

PeerClose ==
  /\ peer = "open" /\ socket = "open"
  /\ peer' = "closed"
  /\ UNCHANGED <<stream, inbox, framerVars, queueVars, reading, ready, socket, session,
                 close_after_write>>

\* async_read_some completes with some of the bytes, or at the end of the stream.
ReadSome ==
  /\ reading
  /\ \/ \E n \in 1 .. Len(inbox) :
          /\ ready' = Append(ready, Read(SubSeq(inbox, 1, n)))
          /\ inbox' = SubSeq(inbox, n + 1, Len(inbox))
     \/ /\ inbox = <<>> /\ peer = "closed"
        /\ ready' = Append(ready, Failed("read"))
        /\ UNCHANGED inbox
  /\ reading' = FALSE
  /\ UNCHANGED <<stream, peer, framerVars, queueVars, socket, session, close_after_write>>

\* async_write completes, with an error or without.
WriteCompletes ==
  /\ writing
  /\ \E ec \in BOOLEAN : ready' = Append(ready, [Failed("write") EXCEPT !.ec = ec])
  /\ writing' = FALSE
  /\ UNCHANGED <<peerVars, framerVars, write_queue, write_in_progress, buffer, answers,
                 written, reading, socket, session, close_after_write>>

-----------------------------------------------------------------------------
(* The framer.                                                              *)

bytes_needed ==
  IF framer_state = "WAITING_HEADER" THEN HeaderLen - Len(full_pdu)
                                     ELSE hdr.len - Len(full_pdu)

\* What full_pdu_ holds after feed_bytes has taken its part of a read; the rest
\* of the read is gone.
Taken(bytes) == full_pdu \o SubSeq(bytes, 1, Smaller(Len(bytes), bytes_needed))

\* full is the beginning of the k-th PDU.
BeginsPdu(full, k) ==
  k \in DOMAIN stream /\ \A i \in 1 .. HeaderLen : full[i] = <<k, i>>

\* A header that was found to be too short is read again, with the same result.
parse_header(full) ==
  \/ full = full_pdu /\ UNCHANGED hdr
  \/ \E k \in DOMAIN stream : BeginsPdu(full, k) /\ hdr' = stream[k]
  \/ /\ full # full_pdu /\ \A k \in DOMAIN stream : ~BeginsPdu(full, k)
     /\ hdr' \in Pdus

\* Mutant: command_length is not checked.
feed_bytes_unchecked(bytes) ==
  /\ full_pdu' = Taken(bytes)
  /\ IF framer_state = "WAITING_HEADER" /\ Len(Taken(bytes)) >= HeaderLen
     THEN parse_header(Taken(bytes)) /\ framer_state' = "WAITING_BODY"
     ELSE UNCHANGED <<hdr, framer_state>>
  /\ UNCHANGED dispatched

\* feed_bytes without a PDU becoming complete.
feed_bytes(bytes) ==
  /\ full_pdu' = Taken(bytes)
  /\ IF framer_state = "WAITING_HEADER" /\ Len(Taken(bytes)) >= HeaderLen
     THEN /\ parse_header(Taken(bytes))
          /\ framer_state' = IF hdr'.len >= HeaderLen THEN "WAITING_BODY"
                                                      ELSE "WAITING_HEADER"
     ELSE UNCHANGED <<hdr, framer_state>>
  /\ UNCHANGED dispatched

Completes(bytes) ==
  framer_state = "WAITING_BODY" /\ Len(Taken(bytes)) >= hdr.len

\* Which PDU of the peer's it is, 0 if none.
PduOf(full) ==
  IF \E k \in DOMAIN stream : full = Bytes(k, stream[k]) THEN full[1][1] ELSE 0

\* A PDU is complete: it is taken out and the framer reset.
take_pdu(bytes) ==
  /\ framer_state' = "WAITING_HEADER" /\ full_pdu' = <<>> /\ hdr' = NoHeader
  /\ dispatched' = Append(dispatched, PduOf(Taken(bytes)))

-----------------------------------------------------------------------------
(* The write queue.                                                         *)

\* do_write: the buffer of the async_write is the front of the queue.
do_write(q) == writing' = TRUE /\ buffer' = Head(q)

\* Mutant: every answer is written at once.
send_pdu_unqueued(a) ==
  /\ answers' = Append(answers, a)
  /\ write_queue' = Append(write_queue, a)
  /\ write_in_progress' = TRUE
  /\ writing' = TRUE /\ buffer' = a
  /\ UNCHANGED written

\* send_pdu is on the strand already, so that enqueue_pdu runs at once.
send_pdu(a) ==
  /\ answers' = Append(answers, a)
  /\ write_queue' = Append(write_queue, a)
  /\ write_in_progress' = TRUE
  /\ IF write_in_progress THEN UNCHANGED <<writing, buffer>>
                          ELSE do_write(<<a>>)
  /\ UNCHANGED written

\* The strand runs the completion of a read or of a write.
Turn(h) == ready # <<>> /\ Head(ready).h = h

\* close: the read that is outstanding is aborted, what was not read is lost.
close(q) ==
  /\ socket' = "closed" /\ inbox' = <<>>
  /\ ready' = IF reading THEN Append(q, Failed("read")) ELSE q
  /\ reading' = FALSE

on_write_error ==
  /\ Turn("write") /\ Head(ready).ec
  /\ close(Tail(ready))
  /\ UNCHANGED <<stream, peer, framerVars, queueVars, session, close_after_write>>

\* What every successful on_write does first.
pop_front ==
  /\ Turn("write") /\ ~Head(ready).ec
  /\ write_queue' = Tail(write_queue)
  /\ written' = Append(written, buffer)

\* After an unbind the next write that completes closes, whatever it wrote.
on_write_close ==
  /\ pop_front /\ close_after_write
  /\ close(Tail(ready))
  /\ UNCHANGED <<stream, peer, framerVars, write_in_progress, writing, buffer, answers,
                 session, close_after_write>>

\* Mutant: write_in_progress_ is not reset when the queue is empty.
on_write_busy ==
  /\ pop_front /\ ~close_after_write
  /\ ready' = Tail(ready)
  /\ IF Tail(write_queue) # <<>> THEN do_write(Tail(write_queue))
                                ELSE UNCHANGED <<writing, buffer>>
  /\ UNCHANGED <<peerVars, framerVars, write_in_progress, answers, reading, socket, session,
                 close_after_write>>

on_write ==
  /\ pop_front /\ ~close_after_write
  /\ ready' = Tail(ready)
  /\ IF Tail(write_queue) # <<>>
     THEN do_write(Tail(write_queue)) /\ UNCHANGED write_in_progress
     ELSE write_in_progress' = FALSE /\ UNCHANGED <<writing, buffer>>
  /\ UNCHANGED <<peerVars, framerVars, answers, reading, socket, session, close_after_write>>

-----------------------------------------------------------------------------
(* Reading and dispatching.                                                 *)

\* do_read: on a closed socket it completes at once with an error.
do_read ==
  IF socket = "open" THEN reading' = TRUE /\ ready' = Tail(ready)
  ELSE ready' = Append(Tail(ready), Failed("read")) /\ UNCHANGED reading

on_read_error ==
  /\ Turn("read") /\ Head(ready).ec
  /\ close(Tail(ready))
  /\ UNCHANGED <<stream, peer, framerVars, queueVars, session, close_after_write>>

\* on_read when no PDU becomes complete.
on_read ==
  /\ Turn("read") /\ ~Head(ready).ec /\ ~Completes(Head(ready).bytes)
  /\ feed_bytes(Head(ready).bytes)
  /\ do_read
  /\ UNCHANGED <<peerVars, queueVars, socket, session, close_after_write>>

\* on_read with dispatch_pdu of a PDU with one of these commands.
dispatch_pdu(cmds) ==
  /\ Turn("read") /\ ~Head(ready).ec /\ Completes(Head(ready).bytes)
  /\ hdr.cmd \in cmds
  /\ take_pdu(Head(ready).bytes)
  /\ do_read
  /\ UNCHANGED <<peerVars, socket>>

Answer(status) == [pdu |-> Len(dispatched) + 1, status |-> status]

BoundState(cmd) ==
  CASE cmd = "BIND_RECEIVER"    -> "BOUND_RECEIVER"
    [] cmd = "BIND_TRANSMITTER" -> "BOUND_TRANSMITTER"
    [] cmd = "BIND_TRANSCEIVER" -> "BOUND_TRANSCEIVER"

\* The status of the response to a bind.
build_bind_resp ==
  CASE is_bound               -> "ESME_RALYBND"
    [] ~is_bound /\ hdr.login  -> "ESME_ROK"
    [] ~is_bound /\ ~hdr.login -> "ESME_RINVPASWD"

handle_bind ==
  /\ dispatch_pdu(BindCommands)
  /\ send_pdu(Answer(build_bind_resp))
  /\ session' = IF build_bind_resp = "ESME_ROK" THEN BoundState(hdr.cmd) ELSE session
  /\ UNCHANGED close_after_write

\* An exception while the response is built, perhaps after the session was bound:
\* build_bind_resp catches it if it comes from its own try, and handle_bind else.
handle_bind_caught ==
  /\ dispatch_pdu(BindCommands)
  /\ \/ ~is_bound /\ send_pdu(Answer("ESME_RINVPASWD"))
     \/ send_pdu(Answer("ESME_RINVCMDID"))
  /\ \/ UNCHANGED session
     \/ ~is_bound /\ hdr.login /\ session' = BoundState(hdr.cmd)
  /\ UNCHANGED close_after_write

handle_unbind ==
  /\ dispatch_pdu({"UNBIND"})
  /\ IF is_bound
     THEN close_after_write' = TRUE /\ send_pdu(Answer("ESME_ROK")) /\ session' = "UNBOUND"
     ELSE send_pdu(Answer("ESME_RBINDFAIL")) /\ UNCHANGED <<session, close_after_write>>

handle_enquire_link ==
  /\ dispatch_pdu({"ENQUIRE_LINK"})
  /\ send_pdu(Answer(IF is_bound THEN "ESME_ROK" ELSE "ESME_RBINDFAIL"))
  /\ UNCHANGED <<session, close_after_write>>

handle_unknown ==
  /\ dispatch_pdu({"OTHER"})
  /\ send_pdu(Answer("ESME_RINVCMDID"))
  /\ UNCHANGED <<session, close_after_write>>

\* An exception that nothing catches, from build_unbind_resp,
\* build_enquire_link_resp, build_generic_nack or the catch of handle_bind, leaves
\* on_read and io_context::run: the process is over and the kernel closes its
\* sockets.
exception_leaves ==
  /\ Turn("read") /\ ~Head(ready).ec /\ Completes(Head(ready).bytes)
  /\ socket' = "closed" /\ inbox' = <<>> /\ ready' = <<>>
  /\ reading' = FALSE /\ writing' = FALSE
  /\ UNCHANGED <<stream, peer, framerVars, write_queue, write_in_progress, buffer, answers,
                 written, session, close_after_write>>

StrandStep ==
  \/ on_read \/ on_read_error
  \/ handle_bind \/ handle_bind_caught \/ handle_unbind \/ handle_enquire_link
  \/ handle_unknown \/ exception_leaves
  \/ on_write \/ on_write_close \/ on_write_error

Next ==
  \/ StrandStep \/ ReadSome \/ WriteCompletes \/ PeerClose
  \/ \E p \in Pdus : PeerSend(p)

Spec == Init /\ [][Next]_vars

\* The strand runs its completions, and asio completes what it was given.
FairSpec ==
  Spec /\ WF_vars(StrandStep) /\ WF_vars(ReadSome) /\ WF_vars(WriteCompletes)

-----------------------------------------------------------------------------
(* Properties.                                                              *)

WritesQueued == {i \in DOMAIN ready : ready[i].h = "write"}

\* Answers are written one at a time and in the order of the requests, although
\* each on_write and each request may start a write: write_in_progress_ lets
\* only one in, and the buffer it reads from stays at the front of write_queue_,
\* where it is alive, until it is done.
WritesInOrder ==
  /\ answers = written \o write_queue
  /\ writing => WritesQueued = {}
  /\ \A i, j \in WritesQueued : i = j
  /\ writing \/ WritesQueued # {} =>
       write_in_progress /\ write_queue # <<>> /\ buffer = Head(write_queue)

\* bytes_needed() subtracts unsigned sizes, and its result never wraps: full_pdu_
\* never holds more than the framer waits for, whatever command_length says and
\* however the bytes are split into reads.  A PDU becomes complete with a header
\* at least, so that the length check of dispatch_pdu never drops one.
NeededNeverWraps ==
  /\ bytes_needed >= 0
  /\ framer_state = "WAITING_BODY" => Len(full_pdu) >= HeaderLen /\ hdr.len >= HeaderLen

\* PDUs of which every byte was read.
PdusRead == IF inbox = <<>> THEN Len(stream) ELSE inbox[1][1] - 1

\* When the handler waits for the next read, it has dispatched every PDU that was
\* read completely: feed_bytes "Returns true if PDU is complete", says
\* smpp_pdu_framer.hpp.  This does not hold: a PDU without a body is complete
\* with its header and dispatched on the next read only, whose bytes are dropped,
\* and so is what a read brings beyond the end of a PDU.
ReadIsDispatched ==
  reading /\ ready = <<>> /\ (\A k \in DOMAIN stream : stream[k].len >= HeaderLen) =>
    dispatched = [k \in 1 .. PdusRead |-> k]

\* An unbind that was answered with ESME_ROK ends the connection, whatever was
\* being written and whatever else was read meanwhile.
UnbindCloses == close_after_write ~> socket = "closed"
=============================================================================
