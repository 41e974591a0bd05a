---------------------------- MODULE MCSmppSession ----------------------------
(* SmppSession with PDUs that reach every branch of dispatch.               *)
EXTENDS SmppSession

Pdu(c, s, b) == [cmd |-> c, seq |-> s, body |-> b]

\* A bind as a transmitter and one as a transceiver, one PDU of every other command,
\* and responses to probes with every sequence number.
MCPdus ==
  {Pdu(c, 1, "whole") : c \in {"BIND_TRANSMITTER", "BIND_TRANSCEIVER", "SUBMIT_SM"}}
    \cup {Pdu(c, 1, "none") : c \in {"UNBIND", "ENQUIRE_LINK", "OTHER",
                                      "DELIVER_SM_RESP", "BAD_LENGTH"}}
    \cup {Pdu("ENQUIRE_LINK_RESP", s, "none") : s \in Seqs}
    \cup {Pdu("SUBMIT_SM", 1, "cut")}
=============================================================================
