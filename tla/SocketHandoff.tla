---------------------------- MODULE SocketHandoff ----------------------------
(***************************************************************************)
(* How an accepted connection gets from SMPPServer to the SmppClientHandler *)
(* process that will serve it.                                              *)
(*                                                                          *)
(*   - The accept chain (tcp_server.cpp): one connection at a time is       *)
(*     accepted, checked, registered, released and given a handler process. *)
(*   - The D-Bus thread of the server (smpp_server_service.cpp) serves      *)
(*     GetSocket, DisconnectAll and SetMaxConnectionsPerIp one at a time;   *)
(*     DisconnectAll calls the handlers and blocks while a call lasts.      *)
(*   - The handlers (SmppClientHandler/src/main.cpp) put their name on the  *)
(*     bus, call GetSocket, and only then run their own event loop.         *)
(*                                                                          *)
(* A uuid stands for the connection it was generated for.  File descriptor  *)
(* numbers of the server process are reused, as the kernel reuses them.     *)
(***************************************************************************)
EXTENDS Integers, FiniteSets

CONSTANTS
  Conns,    \* client connections, each with its uuid
  Ips,      \* source addresses
  IpOf,     \* the source address of a connection
  Allowed,  \* addresses that IpValidator lets in
  DEFAULT_MAX_PER_IP,  \* max_per_ip at start-up (5 in main.cpp)
  Fds,      \* bound: descriptor numbers the server process may have open
  Limits,   \* values that SetMaxConnectionsPerIp is called with
  Restarts  \* bound: how often the server process may be restarted

NoConn == "no connection"

NoFd == -1

ASSUME HandoffAssumption ==
  /\ IsFiniteSet(Conns) /\ NoConn \notin Conns
  /\ IpOf \in [Conns -> Ips] /\ Allowed \subseteq Ips
  /\ Fds \subseteq Nat /\ DEFAULT_MAX_PER_IP \in Nat
  /\ Limits \subseteq Nat /\ Restarts \in Nat

VARIABLES
  backlog,     \* connections the kernel holds for the acceptor
  fds,         \* the server's descriptor table
  apc,         \* where the accept chain is
  cur,         \* the connection it works on
  owned,       \* the descriptor its asio socket object would close
  closing,     \* descriptors of socket objects that are being destroyed
  registry,    \* ConnectionRegistry::sessions_: uuid -> fd
  ip_counts,   \* ConnectionRegistry::ip_counts_
  max_per_ip,  \* ConnectionRegistry::max_per_ip_
  sessions,    \* keys of SmppServerService::sessions_
  handler,     \* the handler process of each uuid
  served,      \* the connection behind the descriptor a handler was given
  calls,       \* GetSocket calls on their way to the server
  targets,     \* DisconnectAll: uuids still to be called; {} when not in it
  disconnects, \* Disconnect calls a handler has received and not yet served
  restarts     \* restarts so far

acceptVars   == <<backlog, fds, apc, cur, owned, closing>>
registryVars == <<registry, ip_counts, max_per_ip>>
serviceVars  == <<sessions, targets>>
handlerVars  == <<handler, served, calls, disconnects>>
vars == <<acceptVars, registryVars, serviceVars, handlerVars, restarts>>

\* "launched": started, not on the bus yet; "calling": on the bus and blocked in
\* GetSocket; "serving": its session is up; "ended": the session is over and the
\* process lives on; "gone": the process has exited.
HandlerStates == {"none", "launched", "calling", "serving", "ended", "gone"}

FreeFds == {f \in Fds : fds[f] = NoConn}

Init ==
  /\ backlog = Conns /\ fds = [f \in Fds |-> NoConn]
  /\ apc = "accept" /\ cur = NoConn /\ owned = NoFd /\ closing = {}
  /\ registry = [c \in Conns |-> NoFd]
  /\ ip_counts = [ip \in Ips |-> 0] /\ max_per_ip = DEFAULT_MAX_PER_IP
  /\ sessions = {} /\ targets = {}
  /\ handler = [c \in Conns |-> "none"]
  /\ served = [c \in Conns |-> NoConn]
  /\ calls = {} /\ disconnects = {} /\ restarts = 0

-----------------------------------------------------------------------------
(* The accept chain.  do_accept is called again only when handle_connection *)
(* has returned, so connections are handled one after the other, but the    *)
(* socket object of the last one may still be there when the next begins.   *)

\* The kernel gives a new connection the lowest free descriptor number.
do_accept(c) ==
  /\ apc = "accept" /\ c \in backlog
  /\ \E f \in FreeFds :
       /\ \A g \in FreeFds : f <= g
       /\ fds' = [fds EXCEPT ![f] = c]
       /\ owned' = f
  /\ backlog' = backlog \ {c} /\ cur' = c /\ apc' = "check"
  /\ UNCHANGED <<closing, registryVars, serviceVars, handlerVars, restarts>>

\* Mutant of check_connection: the refusal is logged and not returned on.
check_connection_warns ==
  /\ apc = "check" /\ apc' \in {"done", "add"}
  /\ UNCHANGED <<backlog, fds, cur, owned, closing, registryVars, serviceVars,
                 handlerVars, restarts>>

\* remote_endpoint fails when the client has gone; is_allowed may say no.
check_connection ==
  /\ apc = "check"
  /\ \/ apc' = "done"
     \/ IpOf[cur] \in Allowed /\ apc' = "add"
  /\ UNCHANGED <<backlog, fds, cur, owned, closing, registryVars, serviceVars,
                 handlerVars, restarts>>

\* ConnectionRegistry::add, under the registry's mutex.
add ==
  /\ apc = "add"
  /\ IF ip_counts[IpOf[cur]] >= max_per_ip
     THEN apc' = "release" /\ UNCHANGED <<registry, ip_counts>>
     ELSE /\ registry' = [registry EXCEPT ![cur] = owned]
          /\ ip_counts' = [ip_counts EXCEPT ![IpOf[cur]] = @ + 1]
          /\ apc' = "insert"
  /\ UNCHANGED <<backlog, fds, cur, owned, closing, max_per_ip, serviceVars,
                 handlerVars, restarts>>

\* The rest of register_session, under sessions_mutex_.
insert_session ==
  /\ apc = "insert"
  /\ sessions' = sessions \cup {cur}
  /\ apc' = "release"
  /\ UNCHANGED <<backlog, fds, cur, owned, closing, registryVars, targets,
                 handlerVars, restarts>>

\* Mutant of release: the socket object keeps the descriptor.
release_kept ==
  /\ apc = "release"
  /\ apc' = "launch"
  /\ UNCHANGED <<backlog, fds, cur, owned, closing, registryVars, serviceVars,
                 handlerVars, restarts>>

\* socket->release(): register_session returns nothing, so this happens for a
\* connection that was not registered too.
release ==
  /\ apc = "release"
  /\ owned' = NoFd /\ apc' = "launch"
  /\ UNCHANGED <<backlog, fds, cur, closing, registryVars, serviceVars, handlerVars,
                 restarts>>

\* launch_client_handler runs systemd-run and waits for it; it may fail.
launch_client_handler ==
  /\ apc = "launch"
  /\ \/ handler' = [handler EXCEPT ![cur] = "launched"]
     \/ UNCHANGED handler
  /\ apc' = "done"
  /\ UNCHANGED <<backlog, fds, cur, owned, closing, registryVars, serviceVars, served,
                 calls, disconnects, restarts>>

\* handle_connection returns and the next accept is started, on any of the threads
\* of io_ctx, while the completion handler still holds this socket object.
connection_done ==
  /\ apc = "done"
  /\ closing' = closing \cup ({owned} \ {NoFd})
  /\ owned' = NoFd /\ cur' = NoConn /\ apc' = "accept"
  /\ UNCHANGED <<backlog, fds, registryVars, serviceVars, handlerVars, restarts>>

\* The completion handler is destroyed, and its socket object closes what it owned.
socket_destroyed(f) ==
  /\ f \in closing
  /\ closing' = closing \ {f} /\ fds' = [fds EXCEPT ![f] = NoConn]
  /\ UNCHANGED <<backlog, apc, cur, owned, registryVars, serviceVars, handlerVars,
                 restarts>>

-----------------------------------------------------------------------------
(* The server's D-Bus thread.                                               *)

ServerIdle == targets = {}

\* Mutant of claim_fd: an off-by-one in the guard of the decrement.
claim_fd_off_by_one(c) ==
  /\ registry' = [registry EXCEPT ![c] = NoFd]
  /\ ip_counts' = [ip_counts EXCEPT ![IpOf[c]] =
                     IF registry[c] # NoFd /\ @ > 1 THEN @ - 1 ELSE @]

\* ConnectionRegistry::claim_fd.
claim_fd(c) ==
  IF registry[c] = NoFd
  THEN UNCHANGED <<registry, ip_counts>>
  ELSE /\ registry' = [registry EXCEPT ![c] = NoFd]
       /\ ip_counts' = [ip_counts EXCEPT ![IpOf[c]] = IF @ > 0 THEN @ - 1 ELSE @]

\* The descriptor is duplicated into the reply: the server's own stays open.
\* An unknown uuid is an error, which ends the handler.  A reply to a handler
\* that has given up is dropped.
GetSocket(c) ==
  /\ ServerIdle /\ c \in calls
  /\ calls' = calls \ {c}
  /\ claim_fd(c)
  /\ IF handler[c] # "calling"
     THEN UNCHANGED <<handler, served>>
     ELSE IF registry[c] = NoFd
     THEN handler' = [handler EXCEPT ![c] = "gone"] /\ UNCHANGED served
     ELSE /\ handler' = [handler EXCEPT ![c] = "serving"]
          /\ served' = [served EXCEPT ![c] = fds[registry[c]]]
  /\ UNCHANGED <<acceptVars, max_per_ip, serviceVars, disconnects, restarts>>

\* The ip argument is not used.
SetMaxConnectionsPerIp(max) ==
  /\ ServerIdle
  /\ max_per_ip' = max
  /\ UNCHANGED <<acceptVars, registry, ip_counts, serviceVars, handlerVars,
                 restarts>>

\* The sessions of ip are collected under sessions_mutex_, then called in turn.
DisconnectAll(ip) ==
  /\ ServerIdle
  /\ targets' = {c \in sessions : IpOf[c] = ip}
  /\ UNCHANGED <<acceptVars, registryVars, sessions,
                 handlerVars, restarts>>

OnBus(c) == handler[c] \in {"calling", "serving", "ended"}

\* Disconnect on a handler that runs its event loop, or that is not on the bus.
disconnect_target(c) ==
  /\ c \in targets /\ handler[c] # "calling"
  /\ targets' = targets \ {c}
  /\ disconnects' = IF OnBus(c) THEN disconnects \cup {c} ELSE disconnects
  /\ UNCHANGED <<acceptVars, registryVars, sessions, handler, served,
                 calls, restarts>>

\* Mutant of disconnect_times_out: the call waits for the answer for ever.
disconnect_times_out_never(c) == c \in targets /\ FALSE /\ UNCHANGED vars

\* A handler that is still in GetSocket does not answer: the call times out,
\* and the handler finds it when its event loop starts.
disconnect_times_out(c) ==
  /\ c \in targets /\ handler[c] = "calling"
  /\ targets' = targets \ {c}
  /\ disconnects' = disconnects \cup {c}
  /\ UNCHANGED <<acceptVars, registryVars, sessions, handler, served,
                 calls, restarts>>

-----------------------------------------------------------------------------
(* The handlers.                                                            *)

\* createSystemBusConnection, then the call to GetSocket.
call_get_socket(c) ==
  /\ handler[c] = "launched"
  /\ handler' = [handler EXCEPT ![c] = "calling"]
  /\ calls' = calls \cup {c}
  /\ UNCHANGED <<acceptVars, registryVars, serviceVars, served, disconnects,
                 restarts>>

\* An exception in main (no bus, GetSocket timed out) or a signal ends the
\* process; a call that was sent is still on its way.
handler_exits(c) ==
  /\ handler[c] \in {"launched", "calling", "serving", "ended"}
  /\ handler' = [handler EXCEPT ![c] = "gone"]
  /\ disconnects' = disconnects \ {c}
  /\ UNCHANGED <<acceptVars, registryVars, serviceVars, served, calls, restarts>>

\* do_disconnect, because the client left or because of Disconnect.
session_ends(c) ==
  /\ handler[c] = "serving"
  /\ handler' = [handler EXCEPT ![c] = "ended"]
  /\ disconnects' = disconnects \ {c}
  /\ UNCHANGED <<acceptVars, registryVars, serviceVars, served, calls, restarts>>

\* The server process stops and systemd starts it anew: everything it held is
\* lost and calls to it fail.
server_restarts ==
  /\ restarts < Restarts /\ restarts' = restarts + 1
  /\ fds' = [f \in Fds |-> NoConn]
  /\ apc' = "accept" /\ cur' = NoConn /\ owned' = NoFd /\ closing' = {}
  /\ registry' = [c \in Conns |-> NoFd]
  /\ ip_counts' = [ip \in Ips |-> 0] /\ max_per_ip' = DEFAULT_MAX_PER_IP
  /\ sessions' = {} /\ targets' = {} /\ calls' = {}
  /\ handler' = [c \in Conns |-> IF handler[c] = "calling" THEN "gone"
                                                          ELSE handler[c]]
  /\ UNCHANGED <<backlog, served, disconnects>>

AcceptStep ==
  \/ \E c \in Conns : do_accept(c)
  \/ check_connection \/ add \/ insert_session \/ release
  \/ launch_client_handler \/ connection_done

ServiceStep ==
  \/ \E c \in Conns : GetSocket(c) \/ disconnect_target(c) \/ disconnect_times_out(c)
  \/ \E max \in Limits : SetMaxConnectionsPerIp(max)
  \/ \E ip \in Ips : DisconnectAll(ip)

HandlerStep ==
  \E c \in Conns : call_get_socket(c) \/ handler_exits(c) \/ session_ends(c)

Next ==
  \/ AcceptStep \/ ServiceStep \/ HandlerStep \/ server_restarts
  \/ \E f \in Fds : socket_destroyed(f)

Spec == Init /\ [][Next]_vars

\* The threads of the server go on; a call that a handler does not answer times
\* out; D-Bus delivers calls in order, so GetSocket is not passed over for ever.
\* A process that was launched gets to run.  Nothing is assumed of clients,
\* operators, signals and restarts.
Fairness ==
  /\ WF_vars(AcceptStep)
  /\ \A f \in Fds : WF_vars(socket_destroyed(f))
  /\ \A c \in Conns : /\ SF_vars(GetSocket(c))
                      /\ WF_vars(disconnect_target(c))
                      /\ WF_vars(disconnect_times_out(c))
                      /\ WF_vars(call_get_socket(c))

FairSpec == Spec /\ Fairness

-----------------------------------------------------------------------------
(* Properties.                                                              *)

\* Every variable stays in its type.
TypeOK ==
  /\ backlog \subseteq Conns /\ fds \in [Fds -> Conns \cup {NoConn}]
  /\ apc \in {"accept", "check", "add", "insert", "release", "launch", "done"}
  /\ cur \in IF apc = "accept" THEN {NoConn} ELSE Conns
  /\ owned \in Fds \cup {NoFd} /\ closing \subseteq Fds
  /\ registry \in [Conns -> Fds \cup {NoFd}]
  /\ ip_counts \in [Ips -> Nat] /\ max_per_ip \in Nat
  /\ sessions \subseteq Conns
  /\ handler \in [Conns -> HandlerStates]
  /\ served \in [Conns -> Conns \cup {NoConn}]
  /\ calls \subseteq Conns /\ targets \subseteq Conns
  /\ disconnects \subseteq Conns
  /\ restarts \in Nat

EntriesOf(ip) == {c \in Conns : registry[c] # NoFd /\ IpOf[c] = ip}

\* The counters that add and claim_fd keep beside the registry always equal
\* the number of entries of the address, so the limit check sees the truth
\* and the decrement never meets a zero.
CountsMatch == \A ip \in Ips : ip_counts[ip] = Cardinality(EntriesOf(ip))

\* A handler is given the connection its uuid was made for, however descriptor
\* numbers are reused between accept, release, GetSocket and a restart.
OwnConnection == \A c \in Conns : served[c] \in {NoConn, c}

\* A connection the address check turned away is never registered, listed or served,
\* and once the chain has gone on from it the server has no descriptor of it but one
\* whose socket object is being destroyed.
RefusedIsClosed ==
  \A c \in Conns : IpOf[c] \notin Allowed =>
    /\ registry[c] = NoFd /\ c \notin sessions /\ served[c] = NoConn
    /\ cur # c => \A f \in Fds : fds[f] = c => f \in closing

\* A handler that calls GetSocket is not left waiting, although DisconnectAll
\* may at the same time wait for that handler: the cycle is broken by the
\* timeout of the server's call.
StartupCompletes ==
  \A c \in Conns : handler[c] = "calling" ~> handler[c] # "calling"
=============================================================================
