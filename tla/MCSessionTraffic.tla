-------------------------- MODULE MCSessionTraffic --------------------------
(* SessionTraffic with PDUs that do not fit into the send buffer.            *)
EXTENDS SessionTraffic
=============================================================================
