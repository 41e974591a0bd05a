------------------------- MODULE AtMostOnceDelivery -------------------------
(***************************************************************************)
(* What the message centre promises about a submitted message, without the *)
(* processes and calls in between: it is written to the connection of one  *)
(* session at most, once, and only after its submission was accepted.      *)
(* MessageRouting implements this specification.                           *)
(***************************************************************************)
CONSTANT Msgs

VARIABLES
  accepted,   \* messages whose submit_sm was answered with ESME_ROK
  deliveries  \* for each message, the places on connections it was written to

Init ==
  /\ accepted = {}
  /\ deliveries = [m \in Msgs |-> {}]

Accept(m) ==
  /\ m \notin accepted
  /\ accepted' = accepted \cup {m}
  /\ UNCHANGED deliveries

\* The message is written to one place.
Deliver(m) ==
  /\ m \in accepted /\ deliveries[m] = {}
  /\ \E p \in deliveries'[m] : deliveries' = [deliveries EXCEPT ![m] = {p}]
  /\ UNCHANGED accepted

Next == \E m \in Msgs : Accept(m) \/ Deliver(m)

Spec == Init /\ [][Next]_<<accepted, deliveries>>
=============================================================================
