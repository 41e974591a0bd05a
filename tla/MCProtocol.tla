---------------------------- MODULE MCProtocol ----------------------------
(* The SMPP code no thread is part of: SmppStateMachine with operations nested *)
(* in callbacks up to four deep, and SmppPdu with the messages of MCSmppPdu.    *)
(* The two share nothing, so each is explored with the other at rest.          *)
EXTENDS SmppStateMachine, MCSmppPdu

CodecRests == Init /\ stage = "caller" /\ sent = NoFields

MachineMoves == CodecRests /\ MachineNext /\ UNCHANGED vars

CodecMoves == init_states /\ Next /\ UNCHANGED machineVars

ProtocolInit == init_states /\ Init

ProtocolNext == MachineMoves \/ CodecMoves

ProtocolSpec == ProtocolInit /\ [][ProtocolNext]_<<machineVars, vars>>
=============================================================================
