# opensmsc: a verification project in TLA+

This directory holds TLA+ models of the SMSC in `src/`, the TLC configurations
that check them on small instances, and TLAPS proofs of the most important
properties for every instance. `PROJECT.json` is the index: which module models
which lines, what each run checks, which mutation of the model each property
catches, the hazards of the code and the theorems.

Every definition is translated from the code. Definitions keep the names of the
functions they model; an action is one critical section or one completion
handler, so that what the code does without letting another thread in is one
step here, and what it does across an unlock, a blocking call or a callback is
several.

## 1. The system

The SMSC is three kinds of process that talk over the system D-Bus:

```
 ESME --TCP--> SMPPServer --systemd-run--> SmppClientHandler (one per connection)
                  ^  |  <---- GetSocket, UpdateSessionDetails, RouteMessage ---- |
                  |  -------- Disconnect, DeliverSm ---------------------------> |
               operator                                                          |
                              Authenticator <---------- Authenticate ------------+
```

| Part | State | Operations | Threads |
|---|---|---|---|
| `TcpServer`, `launch_client_handler` (SMPPServer) | acceptor, the connection in hand | accept, address check, register, release, launch | one accept chain on the asio pool |
| `IpValidator` | exact addresses, IPv4 ranges | load_config, reload, is_allowed | read by the accept chain |
| `ConnectionRegistry` | uuid to descriptor, counter per address, limit | add, claim_fd, remove, count, set_max_per_ip | mutex, both threads |
| `SmppServerService` | `sessions_`: uuid to address and bind state | GetSocket, UpdateSessionDetails, RouteMessage, DisconnectAll, SetMaxConnectionsPerIp, queries | D-Bus thread, one call at a time |
| `SmppClientHandler` process | socket, bus name | start-up, GetSocket, signals | asio thread, D-Bus thread |
| `SmppSession` | bind state, keepalive probe and two timers, token bucket, counters | ten PDU handlers, Disconnect, DeliverSm, timers | asio thread runs handlers and blocks in calls; D-Bus thread serves calls |
| PDU codec (`smpp_pdu.hpp`) | none | read_cstr, parse_submit_sm, make_response, make_deliver_sm | |
| `Authenticator` | credentials map, reader-writer mutex | Authenticate, ReloadCredentials, SIGHUP | one thread, plus a signal handler on top of it |
| in-process `SmppClientHandler` of SMPPServer (not built any more) | framer, bind state, write queue | do_read, on_read, four PDU handlers, on_write, close | one strand |
| state machine v2 (State pattern, not built into the handler) | current state object | ten PDU operations, transitions, callbacks | |
| Common | config, logger | | |

What makes it hard:

* **Two threads per handler, one mutex, and calls that block.** `handle_bind`
  looks at the state, lets go of the mutex, blocks up to 25 s in `Authenticate`,
  and then sets the bound state without looking again. Meanwhile the other
  thread serves `Disconnect` and `DeliverSm`.
* **Timers that complete late.** A steady_timer that has expired can no longer
  be cancelled: its handler runs with success after the response was handled.
* **Calls across three processes, each with a timeout.** `RouteMessage` blocks
  the server's only D-Bus thread while `DeliverSm` is served, perhaps by the
  very session that is blocked in `RouteMessage`. A call that timed out is still
  carried out.
* **Descriptors that change hands.** accept, register, release, launch and
  claim are steps of two processes; descriptor numbers are reused.
* **Processes that come and go.** systemd restarts the server and the
  authenticator; handlers outlive the server that made them.
* **Writes without a queue.** Both threads of a handler start async_writes on the
  same socket; one that is cut short goes on later, when the asio thread is free.
* **A signal handler that takes a mutex.**
* **Boundaries in the codec**: strings at the limit of `read_cstr`, a length
  cast to a byte, bodies that end anywhere, texts that pass D-Bus as strings.

Correctness, component by component, is the list of properties in section 4.

## 2. Modules

| Module | Models | Kind |
|---|---|---|
| `SessionLifecycle` | what a session promises: bound at most once, never after its end, one SessionExited | abstract |
| `SmppSession` | `smpp_session.cpp` with both threads, the asio queue, timers, peer, signals | detailed |
| `SmppSessionProofs` | theorems on `SmppSession`, the refinement and the keepalive among them | TLAPS |
| `ResponseProofs` | theorem on the responses of `SmppSession` | TLAPS |
| `SessionTraffic` | the token bucket and `send_pdu` of `smpp_session.cpp` with writes that are cut short | detailed |
| `SessionTrafficProofs` | theorems on the bucket and on what is written | TLAPS |
| `SocketHandoff` | `tcp_server.cpp`, `session_launcher.cpp`, `connection_registry.cpp`, the D-Bus methods of `smpp_server_service.cpp` that deal with connections, start-up in the handler's `main.cpp` | detailed, composes three processes |
| `SocketHandoffProofs` | theorems on `SocketHandoff` | TLAPS |
| `AtMostOnceDelivery` | what the SMSC promises of a message: written at most once, after it was accepted | abstract |
| `MessageRouting` | submit_sm to deliver_sm through two handlers and the server | detailed, composes three processes |
| `MessageRoutingProofs` | theorems on `MessageRouting`, the refinement among them | TLAPS |
| `Authenticator` | `credentials_store.cpp`, `auth_service.cpp`, `main.cpp` of the authenticator | detailed |
| `SmppPdu` | the codec of `smpp_pdu.hpp` and the D-Bus strings between the two PDUs | algorithm |
| `IpValidator` | `ip_validator.cpp` and the address `tcp_server.cpp` gives it | algorithm with state |
| `AdmissionProofs` | theorems on `Authenticator` and `IpValidator`: who is let in | TLAPS |
| `SmppStateMachine` | `smpp_state_machine_v2.cpp`, `smpp_states.cpp` and their headers, with callbacks that call back | detailed |
| `ProtocolProofs` | theorems on `SmppStateMachine` and `SmppPdu` | TLAPS |
| `InProcessHandler` | `smpp_client_handler.cpp`, `smpp_handler.cpp`, `smpp_pdu_framer.cpp`, `smpp_session.cpp` of SMPPServer | detailed |
| `InProcessHandlerProofs` | theorems on `InProcessHandler` | TLAPS |
| `MC*` | constants for TLC | |

Operators whose comment begins with "Mutant" are alternative versions of the
definition that follows them, each with one plausible mistake; nothing uses them
but the sensitivity runs that `PROJECT.json` lists under "mutants".

`AdmissionProofs` and `ProtocolProofs` extend two components that share nothing;
`IpValidator` and `SmppStateMachine` therefore have names of their own for their
specifications (`IpSpec`, `MachineSpec`).

The two refinements are `INSTANCE ... WITH`: `SmppSession` maps `state` and
`exited` of `SessionLifecycle` to its own; `MessageRouting` maps `accepted` of
`AtMostOnceDelivery` to the messages any session has submitted and `deliveries`
to the places of a message in what was written to the connections.

### SmppSession

The asio thread takes completions off the FIFO queue `ready`; `pc` says which
synchronous call it is blocked in (`"auth"`, `"update"`, `"route"`), or that it
is between the state change and the response of a bind (`"bound"`), or inside
do_disconnect (`Closing`). `dpc` is the D-Bus thread, `"deliver"` between the
check and the send of `DeliverSm`. A completion carries the error code the
handler sees; an `el_timeout` completion also carries the probe its timer was
armed for, which the code does not see and `NoStaleTimeout` talks about.
`sdbus` calls made on the asio thread wait for an asynchronous reply, so the
D-Bus thread keeps serving; they return, fail or time out nondeterministically.
`Disconnect` posts a function. A response is written when the request is
answered: `owed` is the history of requests without one. `ResponsesInOrder`
says which those are: the request in hand, if it is not answered yet, and then
the i-th request among the PDUs not read yet at the i-th place after it.

Abstractions: bodies have no contents; the authenticator's answer, the token
bucket and routing results are free choices; writes are atomic and do not fail
visibly (the code only logs); message ids are left out. The bucket and the
writes are the subject of `SessionTraffic`.

### SessionTraffic

A session bound as a transceiver, seen from its socket. `send_pdu` starts an
async_write from the asio thread (responses) or from the D-Bus thread
(`DeliverSm`). asio puts as much into the send buffer as there is `room` for; a
write that is cut short posts a completion to `ready` and goes on when the asio
thread, perhaps blocked in RouteMessage (`pc`), comes to it (`write_continues`);
one that finds no room waits at the descriptor in order (`waiting`) until the
thread, which is also the one that waits for the descriptor, is back in its loop
(`Writable`). `wire` is the history of pieces written. The peer reads, or not.

`tokens` is `tb_tokens_` in units of 1/Second of a token, so that a tick of the
clock adds `Rate` of them: the code's doubles without their rounding.
`throttle_check` refills, caps and takes; `throttle_check_refuses` is the same
call when less than one token is left, and keeps the fraction that was refilled,
as the code does.

Left out: that the two threads use the same asio socket object without a lock,
which asio does not allow (a data race inside the library). Completions of whole
writes do nothing but log errors and are no steps.

### SocketHandoff

A uuid is identified with its connection. `fds` is the descriptor table of the
server with lowest-number allocation, `owned` the descriptor the accepted asio
socket would close. `GetSocket` hands over whatever connection the registered
number refers to at that moment: `served` records it. The accept chain starts its
next accept before the socket object of the last connection is destroyed, and the
pool has several threads, so that object closes its descriptor (`closing`) at any
later moment. DisconnectAll calls its
targets one by one and blocks the D-Bus thread; the call to a handler that is
itself blocked in GetSocket ends by timeout. A restart empties the server's
memory and closes its descriptors; handlers go on.

### MessageRouting

Per session an asio thread (`pc`: the call it is in), a D-Bus thread (`dpc`,
`deliverq`) and what was written to the connection (`wire`); the server has a
FIFO `queue` of calls, `info` for `sessions_` and `routing` for the RouteMessage
it is blocked in. A session is `"NEW"` until `register_session` lists it, before or
after a restart of the server; one that was listed before a restart goes on, may
submit, and is no longer known. Every call may time out at its caller at any moment and is
still carried out. `info` follows UpdateSessionDetails only, as in the code.

### Authenticator

One thread (`pc`: idle, in authenticate with the shared lock, in load before or
after taking the unique lock) and the handler on top of it (`sig`). While
the handler runs the thread does not move. `written` is the history of the file,
`floor` the version the last finished reload has read.

### SmppPdu

A message goes through the stages submit, parsed, deliver, wire, received. A
body is a sequence of bytes and may end anywhere. `append_string` is what
happens to a `std::string` argument in sdbus-c++ (`c_str()`, then
`sd_bus_message_append_basic`, which takes UTF-8 only). The receiving ESME reads
with the same layout and no limit on strings. Header fields and flag octets have
a place and no meaning here; the header's `command_length` is modelled in
`SmppSession` by bodies that end early.

### InProcessHandler

Everything runs on the strand, so each completion handler is one step, `on_read`
with the feed, the dispatch and the answer together. A byte is its PDU and its
position in it. `async_read_some` returns any non-empty part of what has come.
`feed_bytes` takes up to `bytes_needed` of a read and leaves the rest, as the code
does; a header put together from other bytes may say anything, and one that is
too short leaves the framer stuck. An exception while a bind is answered is caught
and answered (`handle_bind_caught`); one that leaves any handler ends the run of the
strand, and with it the connection (`exception_leaves`). Answers are their status only, because
`encode_pdu` is a placeholder that returns no bytes; a write may fail or not.
Left out: `SmppServiceManager`, a stub that logs.

### IpValidator

`client_ip` is what the acceptor, a dual-stack IPv6 socket, shows of a client: an
IPv4 client has a mapped address.
load_config runs line by line; a line that `stoi` cannot take throws out of it
with the lists half filled. A word of W bits is the set of its bits that are 1,
counted from the most significant: `&` is an intersection, and `<<` moves the
set. A shift by all W bits, which C++ leaves undefined, is the one by k modulo W
that the processor makes; `mask` never makes it. An address string is its notation and its
word, so two spellings of one IPv6 address are different strings, as in the code.
`reload` is public and has no caller yet.

### SmppStateMachine

The State-pattern machine that is to replace the state in `SmppSession`; it is
not built into the handler yet. `stack` holds the callbacks that are running,
because a callback may call the machine again before the operation that made it
has gone on. `freed` is the set of state objects that `current_state_.reset` has
deleted, although the members own them too.

One guard is not in the code: `transition_to_connected` is public, checks
nothing and has no caller in `src/`. The model lets the owner call it in IDLE
only, as the transition table says
(`doc/SMPP_CLIENT_HANDLER_03_STATE_TRANSITIONS.md:7` and `:144`). An owner that
called it later would bring a deleted object back, so `StateObjectLive` and
`EndedStaysEnded`, and the theorems on them, are conditional on that. Direct calls
of the other `transition_to_*` methods, the external timers of that table and
the destructor (which deletes the current object a second time) are left out.

## 3. Bounds

| Run | Instance | Why it is enough |
|---|---|---|
| session | binds as transmitter and as transceiver, every other PDU kind, cut bodies, one PDU in the socket, Disconnect while fewer than two completions are queued, two sequence numbers, probes from 1 | every handler meets every point the other thread can be at; probe numbers wrap at the second probe; several disconnects queue up; a receiver is a transceiver whose submits are refused, as they are before the bind |
| handoff_safety | three connections from two addresses (one refused), two descriptor numbers, limit 1 changed to 0 or 2, one restart | a number is reused while another connection is registered or being closed; add refuses; two handlers wait at once |
| routing_safety | two sessions, two messages, one restart | a message to the other session, one to the submitter, overtaking needs two; a session of before the restart submits to one of after it |
| admission | two users, three files, two edits, two SIGHUPs; 3-bit addresses, every network and prefix, files with every kind of line | a signal on top of a reload after an edit in between, twice; a prefix of 0, of W and each in between |
| session_traffic | 2 requests per second, 3 ticks per second, two ticks; 2 pieces a PDU, room for 1, 4 PDUs | no whole token arrives with a tick, so fractions are kept; every PDU is cut; three writes are under way while the asio thread is blocked |
| in_process_handler | headers of 2 bytes, six PDUs: with and without a body, one of a bad length, a bind that fails; 3 of them, every split into reads | a bind, another request and an unbind with their answers still in the queue; reads that end inside a header or a body or span PDUs |
| protocol | bytes 0..4, strings read up to 2, addresses up to 3, texts up to 6 bytes, every cut; operations nested in callbacks four deep | below, at and beyond each limit; the longest way through the states has five transitions, each of which can be made from within the callback of another |

`MCAdmission` and `MCProtocol` each hold two components that share nothing (they
run in different processes, or are not linked to each other): each is explored
with the other at rest, so that one run asks one question, who is let in and what
is understood, of both. The violation runs use the instance of the run of their
module, `framer` with two PDUs.

Bounds appear as constants in guards: `MaxInbox`, `MaxQueue`, `Restarts`, `Fds`,
`MaxEdits`, `MaxHups`, `MaxClock`, `MaxPdus`, `MaxDepth`. Runs say `CHECK_DEADLOCK FALSE` where clients may simply
stop: routing (all messages submitted), the authenticator (no more edits), the
codec (message received), and the two runs whose peer stops after `MaxPdus`.

## 4. What the runs show

Passing runs:

* **session**: `RefinesLifecycle`: an ended session never comes back and
  none is bound twice, although the state is not looked at again after
  authentication; the reason is that everything that ends a session runs on the
  asio thread, which is blocked. `BoundAsGranted`, `ClosedOnce`,
  `DeliverToReceiver` (the check made before the mutex is dropped still holds at
  the send, or the session has ended), `OneReader` (one read loop, never none),
  `ResponsesInOrder`, `KeepaliveArmed` (no order of timers and responses stops
  the keepalive), `NoStaleTimeout` (an uncancellable timeout never ends the
  session for a later probe); `DisconnectHonoured`, `PeerGoneDetected` and
  `SilentPeerDropped`, whatever call the asio thread was blocked in.
* **handoff_safety**: `CountsMatch`, `OwnConnection`, `RefusedIsClosed` (a
  refused connection is neither registered nor served, and its descriptor is at
  most still being closed), `StartupCompletes` (GetSocket and DisconnectAll waiting for each other).
* **routing_safety**: `AtMostOnce` (refinement), `SenderOrder`,
  `RoutedIsWritten`, `BindRespFirst`, `CallsReturn` (no cycle of blocked
  threads, even without timeouts).
* **admission**: `LoadedIsAFile` (never a mixture of two files),
  `RevokedIsRefused` (after a reload returned, no answer comes from an older
  file); `FileDecides` against a bit-by-bit definition of a range, `FailsClosed`.
* **session_traffic**: `RateBound` (no stretch of time lets in more than one
  second's worth and what the time refills), `RefusesOnlyOverRate` (the bucket
  refuses nothing that `RateBound` would allow, so that trying often costs a
  client nothing), `SentInOrder` (no byte of a PDU lost or written twice, PDUs
  start in order; that their pieces are not mixed is not among what holds),
  `SentIsWritten` (what the D-Bus thread sent gets out although
  the asio thread blocks).
* **in_process_handler**: `WritesInOrder` (one write at a time, in the order of
  the requests, from a buffer that is alive), `NeededNeverWraps` (the framer's
  unsigned differences never wrap, and no PDU shorter than a header is reported),
  `UnbindCloses`.
* **protocol**: `TruncationIsPrefix` (each field is a prefix of what was sent
  if the strings before it are shorter than their limit),
  `DeliversWhatItWasGiven`, `TextArrivesAsSent` (UTF-8 without NUL, the other
  fields within their limits); `StateObjectLive` (no use of a deleted state
  object) and `EndedStaysEnded`, both for an owner that reports the connection in
  IDLE only; `AnnouncedWasBound` for the three types of bind. A bind response of
  any other type runs bind_success with nothing bound; the property leaves it
  out. EndedStaysEnded lets DISCONNECTED become ERROR_STATE, which a late PDU
  makes it although `smpp_states.hpp:123` calls it terminal.

Runs that end in a violation, each of something the repository says:

* **routing_stale**: a message goes to a session that has ended although
  another receiver is bound (`smpp_server_service.cpp:108`).
* **auth_sighup**: a SIGHUP during Authenticate never returns (`IAuth.xml:19`).
* **ip_clients**: an IPv4 client that a line of the whitelist covers is turned
  away: it reaches the dual-stack acceptor as a `::ffff:` address, which no plain
  IPv4 line and no range matches (`ip_validator.hpp:10`, `allowed_ips.conf:15`).
* **binary_text**: a text with a NUL byte arrives cut at it and one that is not
  UTF-8 is lost, because it passes D-Bus as a string (`smpp_pdu.hpp:87`, `:140`).
* **framer**: `feed_bytes` does not report a PDU without a body that has been read
  completely; the next read completes it and is dropped (`smpp_pdu_framer.hpp:18`).
  The in-process handler is not built.

Met while modelling and not pursued in a run of its own (see "hazards"):
the server never closes its descriptor after GetSocket, although the
repository's `README.md:133` says so; a string of exactly max_len characters
leaves its terminator unread, against the comment at `smpp_pdu.hpp:63`, so that
the fields after it are read from the wrong place;
a handler process does not exit when its session ends, although `README.md:141`
says so (nothing stops io_ctx, which waits for signals); PDUs that both
threads of a handler write at the same time may be mixed up on the wire;
GetConnectionCount and the limit count unclaimed connections only;
SessionStarted is emitted before the launch, which may fail, and a failed
launch leaves its entry for ever; GetAllSessions lists ended sessions; a
DisconnectAll passes over a handler not on the bus yet; RouteMessage returns a
uuid although the write failed, and nothing although DeliverSm is carried out
later; SIGTERM ends a handler without SessionExited; a SIGHUP nested in a
ReloadCredentials is overwritten by the older file; two sessions
may make the same message id. In the in-process handler, which is not built:
a header with a length below 16 leaves the framer stuck; the connection may be
closed after an earlier answer, before the unbind response is written.

## 5. Fairness

* `SmppSession`: weak fairness of the asio thread (io_ctx.run() takes what is
  queued; a synchronous call returns or times out after 25 s), of the kernel's
  reads, and of the D-Bus thread's send. None on the peer, on callers, on
  signals, and none on timers, so that `PeerGoneDetected` does not lean on the
  keepalive. `SilentPeerDropped` has the expiry of timers as a premise.
* `SocketHandoff`: the accept chain, the server's calls and their timeouts, a
  launched process gets to run, a completion handler is destroyed; strong fairness of GetSocket because D-Bus
  queues calls in order while the model keeps them in a set.
* `MessageRouting`: the D-Bus threads only. `CallsReturn` holds without a single
  timeout.
* `SessionTraffic`: the asio thread (RouteMessage returns or times out, and no more
  than the bounded number of requests make it block again, so that weak fairness
  of `Writable`, which needs the thread in its loop, is enough), and the peer, which reads: to a peer that does not read nothing can be
  promised.
* `InProcessHandler`: the strand runs its completions, and asio completes reads
  for which there is something to read, and writes, with success or without.
* `Authenticator`: the thread and its signal handler, for the violation run.

## 6. What is proved

TLAPS proves the following for all values of the constants that satisfy the
ASSUMEs (finite sets of connections, descriptors that are naturals, sequence
numbers of any positive modulus, any sets of PDUs, addresses and limits).

`SmppSessionProofs`, from `IInv == TypeOK /\ SessionInv`:

* `TypeCorrect`, `ClosesOnce`, `BindsAsGranted`, `DeliversToReceiver`,
  `ReadsOnce`: the invariants of the session run;
* `Refinement`: `Spec => RefinesLifecycle`.

TypeOK alone is not inductive: that a bind gets a bound state from its PDU needs
`AuthHasBind` (while pc is "auth" the PDU in hand is a bind), and that in turn
needs that nothing is read meanwhile, which is `ReadInv`: while the socket is
open at most one read is outstanding or queued, and none while the thread is
blocked. ReadInv rests on lemmas about what taking the head of the completion
queue and appending to it do to the read completions in it. `OneReader` and the
refinement then follow: a bind step is taken only from OPEN because the asio
thread, the only one that ends sessions, is in handle_bind.

The keepalive, also in `SmppSessionProofs`, from `KeepInv` on top of IInv:

* `KeepaliveNeverDies` (`KeepaliveArmed`), `StaleTimeoutHarmless`
  (`NoStaleTimeout`).

The argument is about the order of the queue. A timeout that expired before its
response was handled is in the queue already when the response re-arms the
interval, hence ahead of the interval's completion, which sends the next probe:
when the timeout is handled no probe is outstanding. KeepInv says this of every
pair of live completions, and that there is one interval at most.

`ResponseProofs`, from `AnswerInv` on top of IInv:

* `AnswersInOrder` (`ResponsesInOrder`).

The property counts the requests not read yet, so the lemmas are about the
cardinality of a set of positions when a PDU arrives (one more, at the end) and
when one is read (the others move up by one). AnswerInv adds what is in hand:
nothing while a header is read, and the bind until its response is sent, so that
the one response a handler sends is the one that is due.

`SocketHandoffProofs`, from `IInv == TypeOK /\ FdInv /\ RefusalInv /\
CountsMatch /\ OwnConnection`:

* `TypeCorrect`, `HandsOverOwn`, `CountsRight`, `RefusedClosed`.

`FdInv` says that a registered number still refers to the connection it was
registered for, that the asio socket owns it only until release, and that one being
closed is neither registered nor owned; without it
OwnConnection fails after a reuse. `RefusalInv` follows a refused connection
through the accept chain. CountsMatch uses the cardinality theorems for adding
and removing one entry.

`SessionTrafficProofs`, from `BucketInv`:

* `RateKept` (`RateBound`), `RefusesExactly` (`RefusesOnlyOverRate`), for every
  rate and resolution of the clock.

For each admitted request i let its level be what a full bucket at that time
would hold now if all requests from i on were taken out of it. The bucket holds
no more than any level (hence RateBound) and, unless it is full, exactly one of
them (hence it refuses only what would exceed one).

The writes, also in `SessionTrafficProofs`, from `WriteInv`:

* `WrittenInOrder` (`SentInOrder`), for every size of a PDU and of the send buffer.

WriteInv says of the writes under way, at the descriptor or in the queue, that
each is of another PDU and goes on where its pieces on the wire end, that pieces
of a PDU are on the wire from the first on, and that PDUs begin in their turn; as
long as the socket is open a PDU that is not complete has a write.

`MessageRoutingProofs`, from `MoveInv == TypeInv /\ OrderInv /\ PlaceInv` and
`SilentInv`:

* `OrderKept` (`SenderOrder`), `ReturnedIsWritten` (`RoutedIsWritten`),
  `BindRespLeads` (`BindRespFirst`), and `DeliversAtMostOnce`: `Spec =>
  AtMostOnce`, the refinement of `AtMostOnceDelivery`.

A message is on its way through the server's queue, the receiver's queue, its
D-Bus thread and the connection. OrderInv says that along this line the messages
of one sender are in order of submission; PlaceInv that a message is at one place
of it only; SilentInv that before its bind was answered nothing is on its way to
a session and the server neither lists it nor has a call in its queue that would.

`AdmissionProofs`, on the credentials, from `IInv`:

* `LoadedWhole` (`LoadedIsAFile`), `RevocationHolds` (`RevokedIsRefused`, which is
  about behaviours without SIGHUP).

What load() has parsed but not yet stored, on the thread and in the handler on
top of it, is a version of the file that parsed; without SIGHUP credentials_ is no
older than the last reload that finished.

The whitelist, also in `AdmissionProofs`, from `IpInv`:

* `WhitelistRight` (`FileDecides`), `FailedLoadClosed` (`FailsClosed`), for words of
  any width and any files.

IpInv says that the two lists hold what the lines read so far put there and
nothing else. The mask of a prefix is proved to be its first prefix bits, so that
`(addr & mask) == (net & mask)` is agreement on them.

`ProtocolProofs`, on the state machine, from `MachineInv`: every deleted state object has a lower
`Rank` than the current one.

* `NeverDangling` (`StateObjectLive`), `EndsForGood` (`EndedStaysEnded`), for any
  depth of nesting and under the assumption on the owner given in section 2.

StateObjectLive alone is not inductive: a later transition could go back to a
deleted object. The rank says that transitions only go forward. `AnnouncedOnce`
(`AnnouncedWasBound`) has an invariant of its own, `AInv`: at most one frame of
the stack still has a bind to announce, and only if none was announced before.

The codec, also in `ProtocolProofs`, from `PduInv`:

* `TruncationHarmless` (`TruncationIsPrefix`), `ReadsBack`
  (`DeliversWhatItWasGiven`), `WholeArrives` (`TextArrivesAsSent`), for bytes and
  strings of any length, any limit of `read_cstr` and a body that ends anywhere.

The lemmas go from the operators up: where `read_cstr`, the skips and `read_text`
end up and what they return from a place where a given string begins (`ReadCstr`,
`Skip`, `ReadText`), for a buffer that has it in full and for one that ends before;
then that a submit_sm and a deliver_sm are laid out as `parse` reads them
(`BuiltSubmit`, `BuiltDeliver`, `ParseLaid`). `read_cstr` is written with the least
NUL of a range of positions and not as a loop, which is why no induction over the
bytes is needed. PduInv says what the fields are at each stage; that strings which
went over D-Bus have no NUL is what lets them be read back.

`InProcessHandlerProofs`, from `TypeInv /\ QueueInv` and `FramerInv`:

* `WritesOneByOne` (`WritesInOrder`). The flag is set as long as a write is
  outstanding or its completion queued, and nothing waits when it is not set.
* `FramerBounded` (`NeededNeverWraps`). A read adds no more than `bytes_needed`, and
  the length that is waited for changes only when a header has just been filled and
  its length is no smaller.

Only model-checked are the liveness properties (fairness and ENABLED are out of
the prover's reach): `DisconnectHonoured`, `PeerGoneDetected`,
`SilentPeerDropped`, `StartupCompletes`, `CallsReturn`, `SentIsWritten` and
`UnbindCloses`. Every other property of the passing runs has a theorem.

## 7. Not modelled

* The first state machine (`smpp_state_machine.cpp`): not built, and no
  operation leaves IDLE.
* The `SmppClientHandler` class around the second state machine
  (`SmppClientHandler/src/smpp_client_handler.cpp`): not built, and its PDU
  processing is still to be written.
* `SmppServiceManager` in SMPPServer: not built, a stub whose methods only log.
* Config and logger (Common), the generated D-Bus adaptors, systemd units,
  Docker files and the test clients: I/O and configuration. AdminService is a
  README only.
* Within modelled parts: message ids (they identify nothing inside the system:
  no code looks one up; that two sessions may give out the same is noted as a
  hazard), the rounding of the bucket's doubles, the data race on the asio
  socket object, `inet_pton` and TOML parsing, and the read-only D-Bus queries.
* The composition of SmppSession with the Authenticator, and of IpValidator with
  SocketHandoff: each sees of the other one answer, which the models take as free
  choice (Authenticate) or as a constant set (`Allowed`); no property relates the
  two.
