-------------------------- MODULE MCMessageRouting --------------------------
(* Instances of MessageRouting for TLC; the messages are model values.      *)
EXTENDS MessageRouting
=============================================================================
