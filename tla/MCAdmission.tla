---------------------------- MODULE MCAdmission ----------------------------
(* What decides who is let in: Authenticator with two users and files that     *)
(* add, change and drop one, and IpValidator with addresses of three bits and   *)
(* the files of MCIpValidator.  The two run in different processes and share    *)
(* nothing, so each is explored with the other at rest.                        *)
EXTENDS MCAuthenticator, MCIpValidator

WhitelistRests == IpInit /\ file = <<Cidr("v4", {}, W)>>

AuthenticatorRests == Init /\ OnDisk[u1] = p1

AuthenticatorMoves == WhitelistRests /\ Next /\ UNCHANGED ipVars

WhitelistMoves == AuthenticatorRests /\ IpNext /\ UNCHANGED vars

AdmissionInit == Init /\ IpInit

AdmissionNext == AuthenticatorMoves \/ WhitelistMoves

AdmissionSpec == AdmissionInit /\ [][AdmissionNext]_<<vars, ipVars>>
=============================================================================
