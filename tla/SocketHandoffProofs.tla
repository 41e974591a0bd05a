------------------------- MODULE SocketHandoffProofs -------------------------
(***************************************************************************)
(* Proofs about SocketHandoff, for every number of connections, addresses,  *)
(* descriptors, limits and restarts.                                        *)
(***************************************************************************)
EXTENDS SocketHandoff, FiniteSetTheorems, TLAPS

USE HandoffAssumption DEF acceptVars, registryVars, serviceVars, handlerVars

\* A registered descriptor is open and refers to the connection it was
\* registered for; the descriptor the accept chain owns refers to the current
\* connection, and closing it takes no registered descriptor away.  A descriptor
\* that is being closed is still open, and is neither registered nor owned.
FdInv ==
  /\ \A c \in Conns : registry[c] # NoFd => fds[registry[c]] = c
  /\ \A c \in backlog : registry[c] = NoFd /\ c # cur
  /\ owned # NoFd => fds[owned] = cur
  /\ \A f \in closing : fds[f] \in Conns /\ f # owned
  /\ \A c \in Conns : registry[c] \notin closing
  /\ apc \in {"check", "add"} => owned # NoFd /\ registry[cur] = NoFd
  /\ apc = "done" /\ owned # NoFd => registry[cur] = NoFd
  /\ apc \in {"accept", "launch"} => owned = NoFd

\* A refused connection has no descriptor but the one about to be closed, or being closed.
RefusalInv ==
  /\ apc \in {"add", "insert", "release", "launch"} => IpOf[cur] \in Allowed
  /\ \A c \in Conns : IpOf[c] \notin Allowed =>
       /\ registry[c] = NoFd /\ c \notin sessions /\ served[c] = NoConn
       /\ \A f \in Fds : fds[f] = c => (cur = c /\ owned = f) \/ f \in closing

IInv == TypeOK /\ FdInv /\ RefusalInv /\ CountsMatch /\ OwnConnection

\* The steps that touch neither the descriptors nor the entries nor what is served.
Aside ==
  \/ \E c \in Conns : \/ disconnect_target(c) \/ disconnect_times_out(c)
                      \/ call_get_socket(c) \/ handler_exits(c) \/ session_ends(c)
  \/ \E max \in Limits : SetMaxConnectionsPerIp(max)
  \/ \E ip \in Ips : DisconnectAll(ip)

LEMMA AsideKeeps ==
  Aside \/ UNCHANGED vars => UNCHANGED <<acceptVars, registry, ip_counts, sessions, served>>
<1>1. ASSUME NEW c \in Conns, disconnect_target(c) \/ disconnect_times_out(c)
      PROVE  UNCHANGED <<acceptVars, registry, ip_counts, sessions, served>>
  BY <1>1 DEF disconnect_target, disconnect_times_out
<1>2. ASSUME NEW c \in Conns, call_get_socket(c) \/ handler_exits(c) \/ session_ends(c)
      PROVE  UNCHANGED <<acceptVars, registry, ip_counts, sessions, served>>
  BY <1>2 DEF call_get_socket, handler_exits, session_ends
<1>3. ASSUME NEW max \in Limits, SetMaxConnectionsPerIp(max)
      PROVE  UNCHANGED <<acceptVars, registry, ip_counts, sessions, served>>
  BY <1>3 DEF SetMaxConnectionsPerIp
<1>4. ASSUME NEW ip \in Ips, DisconnectAll(ip)
      PROVE  UNCHANGED <<acceptVars, registry, ip_counts, sessions, served>>
  BY <1>4 DEF DisconnectAll
<1>5. CASE UNCHANGED vars
  BY <1>5 DEF vars
<1> QED BY Zenon, <1>1, <1>2, <1>3, <1>4, <1>5 DEF Aside

\* Every step is one of these, or one that an invariant has to be shown to survive.
LEMMA StepKinds ==
  ASSUME [Next]_vars
  PROVE  \/ \E c \in Conns : do_accept(c) \/ GetSocket(c)
         \/ check_connection \/ add \/ insert_session \/ release
         \/ launch_client_handler \/ connection_done \/ server_restarts
         \/ \E f \in Fds : socket_destroyed(f)
         \/ UNCHANGED <<acceptVars, registry, ip_counts, sessions, served>>
BY Zenon, AsideKeeps DEF Next, AcceptStep, ServiceStep, HandlerStep, Aside

\* TypeOK is preserved by every step.
LEMMA StepType == TypeOK /\ FdInv /\ [Next]_vars => TypeOK'
<1> SUFFICES ASSUME TypeOK, FdInv, [Next]_vars PROVE TypeOK'
  OBVIOUS
<1> USE DEF TypeOK, HandlerStates
<1>1. ASSUME NEW c \in Conns, do_accept(c) PROVE TypeOK'
  BY <1>1 DEF do_accept, FreeFds
<1>2. CASE check_connection
  BY <1>2 DEF check_connection
<1>3. CASE add
  BY <1>3 DEF add
<1>4. CASE insert_session
  BY <1>4 DEF insert_session
<1>5. CASE release
  BY <1>5 DEF release
<1>6. CASE launch_client_handler
  BY <1>6 DEF launch_client_handler
<1>7. CASE connection_done
  BY Zenon, <1>7 DEF connection_done
<1>8. ASSUME NEW c \in Conns, GetSocket(c) PROVE TypeOK'
  <2>1. registry' \in [Conns -> Fds \cup {NoFd}] /\ ip_counts' \in [Ips -> Nat]
    BY <1>8 DEF GetSocket, claim_fd
  <2>2. /\ handler' \in [Conns -> HandlerStates]
        /\ served' \in [Conns -> Conns \cup {NoConn}]
    <3>1. registry[c] # NoFd => fds[registry[c]] \in Conns \cup {NoConn}
      BY Zenon
    <3> QED BY <1>8, <3>1 DEF GetSocket
  <2> QED BY <1>8, <2>1, <2>2 DEF GetSocket
<1>9. ASSUME NEW c \in Conns, disconnect_target(c) \/ disconnect_times_out(c)
      PROVE  TypeOK'
  <2>1. CASE disconnect_target(c)
    BY Zenon, <2>1 DEF disconnect_target
  <2>2. CASE disconnect_times_out(c)
    BY Zenon, <2>2 DEF disconnect_times_out
  <2> QED BY <1>9, <2>1, <2>2
<1>10. ASSUME NEW max \in Limits, SetMaxConnectionsPerIp(max) PROVE TypeOK'
  BY <1>10 DEF SetMaxConnectionsPerIp
<1>11. ASSUME NEW ip \in Ips, DisconnectAll(ip) PROVE TypeOK'
  BY <1>11 DEF DisconnectAll
<1>12. ASSUME NEW c \in Conns, call_get_socket(c) \/ handler_exits(c) \/ session_ends(c)
       PROVE  TypeOK'
  <2>1. CASE call_get_socket(c)
    BY <2>1 DEF call_get_socket
  <2>2. CASE handler_exits(c)
    BY <2>2 DEF handler_exits
  <2>3. CASE session_ends(c)
    BY <2>3 DEF session_ends
  <2> QED BY Zenon, <1>12, <2>1, <2>2, <2>3
<1>13. CASE server_restarts
  BY <1>13 DEF server_restarts
<1>14. CASE UNCHANGED vars
  BY <1>14 DEF vars
<1>15. ASSUME NEW f \in Fds, socket_destroyed(f) PROVE TypeOK'
  BY <1>15 DEF socket_destroyed
<1> QED
  BY Zenon, <1>1, <1>2, <1>3, <1>4, <1>5, <1>6, <1>7, <1>8, <1>9, <1>10, <1>11, <1>12,
     <1>13, <1>14, <1>15 DEF Next, AcceptStep, ServiceStep, HandlerStep

\* FdInv is preserved by every step.
LEMMA StepFd == TypeOK /\ FdInv /\ [Next]_vars => FdInv'
<1> SUFFICES ASSUME TypeOK, FdInv, [Next]_vars PROVE FdInv'
  OBVIOUS
<1> USE DEF TypeOK, FdInv
<1>0. NoFd \notin Fds
  BY DEF NoFd
<1>1. ASSUME NEW c \in Conns, do_accept(c) PROVE FdInv'
  <2>1. PICK f \in FreeFds : fds' = [fds EXCEPT ![f] = c] /\ owned' = f
    BY Zenon, <1>1 DEF do_accept
  <2>2. f \in Fds /\ f \notin closing /\ \A d \in Conns : registry[d] # f
    BY <2>1, <1>0 DEF FreeFds
  <2>3. \A d \in Conns : registry[d] # NoFd => fds'[registry[d]] = d
    BY <2>1, <2>2
  <2> QED BY <1>1, <2>1, <2>2, <2>3 DEF do_accept
<1>2. CASE check_connection
  BY <1>2 DEF check_connection
<1>3. CASE add
  BY <1>3 DEF add
<1>4. CASE insert_session \/ launch_client_handler \/ release
  <2>1. CASE insert_session \/ launch_client_handler
    BY Zenon, <2>1 DEF insert_session, launch_client_handler
  <2>2. CASE release
    BY <1>0, <2>2 DEF release
  <2> QED BY <1>4, <2>1, <2>2
<1>5. CASE connection_done
  <2>1. \A d \in Conns : registry[d] # NoFd => registry[d] # owned
    BY <1>5 DEF connection_done
  <2> QED BY <1>0, <1>5, <2>1 DEF connection_done
<1>6. ASSUME NEW c \in Conns, GetSocket(c) PROVE FdInv'
  <2>1. \A d \in Conns : registry'[d] \in {registry[d], NoFd}
    BY <1>6 DEF GetSocket, claim_fd
  <2>2. UNCHANGED <<backlog, fds, apc, cur, owned, closing>>
    BY <1>6 DEF GetSocket
  <2>3. \A d \in Conns : registry'[d] # NoFd => registry'[d] = registry[d]
    BY Zenon, <2>1
  <2>4. \A d \in Conns : registry'[d] \notin closing
    <3>1. NoFd \notin closing /\ \A d \in Conns : registry[d] \notin closing
      BY Zenon, <1>0
    <3> HIDE DEF TypeOK, FdInv
    <3> QED BY Zenon, <2>1, <3>1
  <2>5. \A d \in Conns : registry[d] = NoFd => registry'[d] = NoFd
    BY Zenon, <2>1
  <2> QED BY Zenon, <2>2, <2>3, <2>4, <2>5
<1>7. CASE server_restarts
  BY <1>7 DEF server_restarts
<1>8. CASE UNCHANGED <<acceptVars, registry, ip_counts, sessions, served>>
  BY <1>8
<1>9. ASSUME NEW f \in Fds, socket_destroyed(f) PROVE FdInv'
  <2>1. f \in closing /\ f # owned /\ \A d \in Conns : registry[d] # f
    BY <1>9 DEF socket_destroyed
  <2> QED BY <1>9, <2>1 DEF socket_destroyed
<1> HIDE DEF TypeOK, FdInv
<1> QED
  BY Zenon, <1>1, <1>2, <1>3, <1>4, <1>5, <1>6, <1>7, <1>8, <1>9, StepKinds

\* RefusalInv is preserved by every step.
LEMMA StepRefusal == TypeOK /\ FdInv /\ RefusalInv /\ [Next]_vars => RefusalInv'
<1> SUFFICES ASSUME TypeOK, FdInv, RefusalInv, [Next]_vars PROVE RefusalInv'
  OBVIOUS
<1> USE DEF TypeOK, RefusalInv
<1>1. ASSUME NEW c \in Conns, do_accept(c) PROVE RefusalInv'
  <2>0. owned = NoFd /\ NoFd \notin Fds
    BY <1>1 DEF do_accept, FdInv, NoFd
  <2>1. \A d \in Conns, f \in Fds : IpOf[d] \notin Allowed /\ fds[f] = d => f \in closing
    BY <2>0
  <2> QED BY <1>1, <2>1 DEF do_accept, FreeFds
<1>2. CASE check_connection
  BY <1>2 DEF check_connection
<1>3. CASE add
  BY <1>3 DEF add
<1>4. CASE insert_session \/ launch_client_handler
  BY <1>4 DEF insert_session, launch_client_handler
<1>5. CASE release
  <2>1. IpOf[cur] \in Allowed /\ cur \in Conns
    BY <1>5 DEF release
  <2> QED BY <1>5, <2>1 DEF release
<1>6. CASE connection_done
  <2>1. NoFd \notin Fds
    BY DEF NoFd
  <2> QED BY <1>6, <2>1 DEF connection_done
<1>7. ASSUME NEW c \in Conns, GetSocket(c) PROVE RefusalInv'
  <2>1. /\ \A d \in Conns : registry'[d] \in {registry[d], NoFd}
        /\ \A d \in Conns : served'[d] # served[d] => registry[d] # NoFd
    BY <1>7 DEF GetSocket, claim_fd
  <2> QED BY <1>7, <2>1 DEF GetSocket
<1>8. CASE server_restarts
  BY <1>8 DEF server_restarts
<1>9. CASE UNCHANGED <<acceptVars, registry, ip_counts, sessions, served>>
  BY <1>9
<1>10. ASSUME NEW f \in Fds, socket_destroyed(f) PROVE RefusalInv'
  BY <1>10 DEF socket_destroyed
<1> HIDE DEF TypeOK, RefusalInv
<1> QED
  BY Zenon, <1>1, <1>2, <1>3, <1>4, <1>5, <1>6, <1>7, <1>8, <1>9, <1>10, StepKinds

\* OwnConnection is preserved: GetSocket hands out what fds holds for the entry.
LEMMA StepOwn == TypeOK /\ FdInv /\ OwnConnection /\ [Next]_vars => OwnConnection'
<1> SUFFICES ASSUME TypeOK, FdInv, OwnConnection, [Next]_vars PROVE OwnConnection'
  OBVIOUS
<1> USE DEF OwnConnection
<1>1. ASSUME NEW c \in Conns, GetSocket(c) PROVE OwnConnection'
  BY <1>1 DEF GetSocket, FdInv, TypeOK
<1>2. CASE UNCHANGED served
  BY <1>2
<1>3. ASSUME NEW c \in Conns, do_accept(c) PROVE UNCHANGED served
  BY <1>3 DEF do_accept
<1>4. CASE check_connection \/ add \/ insert_session \/ release
  BY <1>2, <1>4 DEF check_connection, add, insert_session, release
<1>5. CASE launch_client_handler \/ connection_done \/ server_restarts
  BY <1>2, <1>5 DEF launch_client_handler, connection_done, server_restarts
<1>6. ASSUME NEW f \in Fds, socket_destroyed(f) PROVE UNCHANGED served
  BY <1>6 DEF socket_destroyed
<1> HIDE DEF OwnConnection
<1> QED BY Zenon, <1>1, <1>2, <1>3, <1>4, <1>5, <1>6, StepKinds

\* The entries of an address are finitely many.
LEMMA EntriesFinite ==
  ASSUME NEW ip PROVE IsFiniteSet(EntriesOf(ip)) /\ Cardinality(EntriesOf(ip)) \in Nat
BY FS_Subset, FS_CardinalityType DEF EntriesOf

\* CountsMatch is preserved by every step.
LEMMA StepCounts == TypeOK /\ FdInv /\ CountsMatch /\ [Next]_vars => CountsMatch'
<1> SUFFICES ASSUME TypeOK, FdInv, CountsMatch, [Next]_vars PROVE CountsMatch'
  OBVIOUS
<1>1. CASE UNCHANGED <<registry, ip_counts>>
  <2>1. \A ip : EntriesOf(ip)' = EntriesOf(ip)
    BY <1>1 DEF EntriesOf
  <2> QED BY <1>1, <2>1 DEF CountsMatch
<1>2. CASE add /\ apc' = "insert"
  <2> SUFFICES ASSUME NEW ip \in Ips
               PROVE  ip_counts'[ip] = Cardinality(EntriesOf(ip)')
    BY DEF CountsMatch
  <2>1. /\ cur \in Conns /\ registry[cur] = NoFd /\ owned # NoFd
        /\ registry' = [registry EXCEPT ![cur] = owned]
        /\ ip_counts' = [ip_counts EXCEPT ![IpOf[cur]] = @ + 1]
    BY <1>2 DEF add, FdInv, TypeOK
  <2>2. CASE ip = IpOf[cur]
    <3>1. EntriesOf(ip)' = EntriesOf(ip) \cup {cur} /\ cur \notin EntriesOf(ip)
      BY <2>1, <2>2 DEF EntriesOf, TypeOK
    <3>2. Cardinality(EntriesOf(ip)') = Cardinality(EntriesOf(ip)) + 1
      BY Zenon, <3>1, EntriesFinite, FS_AddElement
    <3> QED BY <2>1, <2>2, <3>2 DEF CountsMatch, TypeOK
  <2>3. CASE ip # IpOf[cur]
    <3>1. EntriesOf(ip)' = EntriesOf(ip)
      BY <2>1, <2>3 DEF EntriesOf, TypeOK
    <3> QED BY <2>1, <2>3, <3>1 DEF CountsMatch, TypeOK
  <2> QED BY <2>2, <2>3
<1>3. ASSUME NEW c \in Conns, GetSocket(c), registry[c] # NoFd PROVE CountsMatch'
  <2> SUFFICES ASSUME NEW ip \in Ips
               PROVE  ip_counts'[ip] = Cardinality(EntriesOf(ip)')
    BY DEF CountsMatch
  <2>1. /\ registry' = [registry EXCEPT ![c] = NoFd]
        /\ ip_counts' = [ip_counts EXCEPT ![IpOf[c]] = IF @ > 0 THEN @ - 1 ELSE @]
    BY <1>3 DEF GetSocket, claim_fd
  <2>2. CASE ip = IpOf[c]
    <3>1. EntriesOf(ip)' = EntriesOf(ip) \ {c} /\ c \in EntriesOf(ip)
      BY <1>3, <2>1, <2>2 DEF EntriesOf, TypeOK
    <3>2. Cardinality(EntriesOf(ip)') = Cardinality(EntriesOf(ip)) - 1
      BY Zenon, <3>1, EntriesFinite, FS_RemoveElement
    <3>3. Cardinality(EntriesOf(ip)) # 0
      BY <3>1, EntriesFinite, FS_EmptySet
    <3> QED BY <2>1, <2>2, <3>2, <3>3, EntriesFinite DEF CountsMatch, TypeOK
  <2>3. CASE ip # IpOf[c]
    <3>1. EntriesOf(ip)' = EntriesOf(ip)
      BY <2>1, <2>3 DEF EntriesOf, TypeOK
    <3> QED BY <2>1, <2>3, <3>1 DEF CountsMatch, TypeOK
  <2> QED BY <2>2, <2>3
<1>4. CASE server_restarts
  <2>1. \A ip : EntriesOf(ip)' = {}
    BY <1>4 DEF server_restarts, EntriesOf
  <2> QED BY Zenon, <1>4, <2>1, FS_EmptySet DEF server_restarts, CountsMatch
<1>5. CASE add
  BY <1>1, <1>2, <1>5 DEF add
<1>6. ASSUME NEW c \in Conns, GetSocket(c) PROVE CountsMatch'
  BY <1>1, <1>3, <1>6 DEF GetSocket, claim_fd
<1>7. ASSUME NEW c \in Conns, do_accept(c) PROVE UNCHANGED <<registry, ip_counts>>
  BY <1>7 DEF do_accept
<1>8. CASE check_connection \/ insert_session \/ release
  BY <1>1, <1>8 DEF check_connection, insert_session, release
<1>9. CASE launch_client_handler \/ connection_done
  BY <1>1, <1>9 DEF launch_client_handler, connection_done
<1>10. ASSUME NEW f \in Fds, socket_destroyed(f) PROVE UNCHANGED <<registry, ip_counts>>
  BY <1>10 DEF socket_destroyed
<1> QED BY Zenon, <1>1, <1>4, <1>5, <1>6, <1>7, <1>8, <1>9, <1>10, StepKinds

\* The inductive invariant holds of every reachable state.
THEOREM Inductive == Spec => []IInv
<1>1. Init => IInv
  <2> SUFFICES ASSUME Init PROVE IInv
    OBVIOUS
  <2>1. TypeOK /\ FdInv /\ RefusalInv /\ OwnConnection
    BY DEF Init, TypeOK, HandlerStates, FdInv, RefusalInv, OwnConnection
  <2>2. \A ip : EntriesOf(ip) = {}
    BY DEF Init, EntriesOf
  <2>3. CountsMatch
    BY <2>2, FS_EmptySet DEF Init, CountsMatch
  <2> QED BY <2>1, <2>3 DEF IInv
<1>2. IInv /\ [Next]_vars => IInv'
  BY StepType, StepFd, StepRefusal, StepOwn, StepCounts DEF IInv
<1> QED BY <1>1, <1>2, PTL DEF Spec

\* Type correctness.
THEOREM TypeCorrect == Spec => []TypeOK
<1>1. IInv => TypeOK
  BY DEF IInv
<1> QED BY <1>1, Inductive, PTL

\* A handler is never given another client's connection (GetSocket).
THEOREM HandsOverOwn == Spec => []OwnConnection
<1>1. IInv => OwnConnection
  BY DEF IInv
<1> QED BY <1>1, Inductive, PTL

\* add and claim_fd keep the per-address counters equal to what they count.
THEOREM CountsRight == Spec => []CountsMatch
<1>1. IInv => CountsMatch
  BY DEF IInv
<1> QED BY <1>1, Inductive, PTL

\* A connection from an address that is not allowed is closed, not served.
THEOREM RefusedClosed == Spec => []RefusedIsClosed
<1>1. IInv => RefusedIsClosed
  BY DEF IInv, RefusalInv, RefusedIsClosed
<1> QED BY <1>1, Inductive, PTL

=============================================================================
