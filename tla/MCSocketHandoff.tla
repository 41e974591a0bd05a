--------------------------- MODULE MCSocketHandoff ---------------------------
(* SocketHandoff with two connections from one address and one from another. *)
EXTENDS SocketHandoff

CONSTANTS c1, c2, c3, ip1, ip2

MCConns == {c1, c2, c3}

MCIpOf == [c \in MCConns |-> IF c = c3 THEN ip2 ELSE ip1]
=============================================================================
