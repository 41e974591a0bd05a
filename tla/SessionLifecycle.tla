-------------------------- MODULE SessionLifecycle --------------------------
(***************************************************************************)
(* What one SMPP session promises to the rest of the system, without the   *)
(* threads, sockets and timers that implement it: it is OPEN, it may be    *)
(* bound once, it ends once, and SessionExited is emitted after it ended.  *)
(* SmppSession implements this specification.                              *)
(***************************************************************************)
EXTENDS Naturals

VARIABLES
  state,    \* SessionState of include/smpp_session.hpp
  exited    \* how many times SessionExited was emitted

lifecycleVars == <<state, exited>>

BoundStates == {"BOUND_TX", "BOUND_RX", "BOUND_TRX"}

SessionStates == {"OPEN", "UNBOUND"} \cup BoundStates

Init ==
  /\ state = "OPEN"
  /\ exited = 0

\* A bind request succeeds: only an OPEN session can become bound.
Bind ==
  /\ state = "OPEN"
  /\ state' \in BoundStates
  /\ UNCHANGED exited

\* The session ends, for whatever reason.
End ==
  /\ state # "UNBOUND"
  /\ state' = "UNBOUND"
  /\ UNCHANGED exited

\* The end is announced: SessionExited is emitted, once.
Announce ==
  /\ state = "UNBOUND" /\ exited = 0
  /\ exited' = 1
  /\ UNCHANGED state

Next == Bind \/ End \/ Announce

Spec == Init /\ [][Next]_lifecycleVars
=============================================================================
