--------------------------- MODULE MCAuthenticator ---------------------------
(* Authenticator with two users and files that add, change and drop a user.  *)
EXTENDS Authenticator

CONSTANTS u1, u2, p1, p2

MCFiles ==
  {[u \in {u1, u2} |-> IF u = u1 THEN p1 ELSE p2],
   [u \in {u1, u2} |-> IF u = u1 THEN p2 ELSE NoPassword],
   [u \in {u1, u2} |-> IF u = u1 THEN NoPassword ELSE p2]}
=============================================================================
