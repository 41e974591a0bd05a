------------------------- MODULE MCInProcessHandler -------------------------
(* InProcessHandler with headers of two bytes: PDUs with and without a body,  *)
(* one whose command_length is too small, and a bind that fails.              *)
EXTENDS InProcessHandler

Pdu(cmd, len, login) == [cmd |-> cmd, len |-> len, login |-> login]

MCPdus ==
  {Pdu("BIND_TRANSCEIVER", 3, TRUE), Pdu("BIND_TRANSCEIVER", 2, FALSE), Pdu("UNBIND", 2, FALSE),
   Pdu("ENQUIRE_LINK", 2, FALSE), Pdu("OTHER", 2, FALSE), Pdu("OTHER", 1, FALSE)}
=============================================================================
