---------------------------- MODULE Authenticator ----------------------------
(***************************************************************************)
(* The authenticator process: CredentialsStore, the D-Bus service on top of *)
(* it and the SIGHUP handler of Authenticator/src/main.cpp.                 *)
(*                                                                          *)
(* The process has one thread, which runs the D-Bus event loop.  SIGHUP     *)
(* interrupts it anywhere and runs the same load() as ReloadCredentials, on *)
(* the same thread and on top of whatever that thread was doing, with the   *)
(* mutex in whatever state it is.  SIGHUP is blocked while its handler runs.*)
(***************************************************************************)
EXTENDS Integers, Sequences

CONSTANTS
  Users,      \* system ids
  Passwords,
  Files,      \* contents of the credentials file that parse
  MaxEdits,   \* bound: edits of the file
  MaxHups     \* bound: SIGHUPs sent to the process

NoPassword == "no password"

\* A file that does not parse: it has no entries to look at.
Malformed == << >>

Credentials == [Users -> Passwords \cup {NoPassword}]

ASSUME AuthAssumption ==
  /\ NoPassword \notin Passwords /\ Malformed \notin Files
  /\ Files \subseteq Credentials
  /\ MaxEdits \in Nat /\ MaxHups \in Nat

VARIABLES
  written,      \* history: the contents the file has had; the last is on disk
  credentials,  \* credentials_
  pc,           \* the thread outside the signal handler
  req,          \* the Authenticate call it serves
  tmp,          \* tmp of its load()
  sig,          \* the signal handler: "none", or waiting for the lock
  hup_tmp,      \* tmp of the handler's load()
  last,         \* the last answer of Authenticate
  floor,        \* history: the file version the last finished reload read
  hups          \* SIGHUPs so far

vars == <<written, credentials, pc, req, tmp, sig, hup_tmp, last, floor, hups>>

OnDisk == written[Len(written)]

Requests == [system_id : Users, password : Passwords]

NoRequest == [system_id |-> "none", password |-> "none"]

Codes == {"OK", "ESME_RINVSYSID", "ESME_RINVPASWD"}

NoAnswer == [req |-> NoRequest, code |-> "ESME_RINVSYSID", floor |-> 1]

\* The constructor has loaded the file.
Init ==
  /\ written \in {<<f>> : f \in Files} /\ credentials = OnDisk
  /\ pc = "idle" /\ req = NoRequest /\ tmp = OnDisk
  /\ sig = "none" /\ hup_tmp = OnDisk
  /\ last = NoAnswer /\ floor = 1 /\ hups = 0

\* An operator edits the file.
edit_file(f) ==
  /\ Len(written) <= MaxEdits
  /\ written' = Append(written, f)
  /\ UNCHANGED <<credentials, pc, req, tmp, sig, hup_tmp, last, floor, hups>>

-----------------------------------------------------------------------------
(* The event loop.  It makes no step while the signal handler runs.          *)

Turn(at) == sig = "none" /\ pc = at

\* Authenticate takes the shared lock ...
Authenticate(r) ==
  /\ Turn("idle")
  /\ pc' = "auth" /\ req' = r
  /\ UNCHANGED <<written, credentials, tmp, sig, hup_tmp, last, floor, hups>>

authenticate(r) ==
  CASE credentials[r.system_id] = NoPassword -> "ESME_RINVSYSID"
    [] credentials[r.system_id] \notin {NoPassword, r.password} -> "ESME_RINVPASWD"
    [] OTHER -> "OK"

\* ... looks the user up and answers.
Authenticate_returns ==
  /\ Turn("auth")
  /\ last' = [req |-> req, code |-> authenticate(req), floor |-> floor]
  /\ pc' = "idle" /\ req' = NoRequest
  /\ UNCHANGED <<written, credentials, tmp, sig, hup_tmp, floor, hups>>

\* Mutant: the map is emptied before the file is parsed.
ReloadCredentials_clears ==
  /\ Turn("idle")
  /\ credentials' = [u \in Users |-> NoPassword]
  /\ IF OnDisk = Malformed THEN UNCHANGED <<pc, tmp>>
                           ELSE pc' = "parsed" /\ tmp' = OnDisk
  /\ UNCHANGED <<written, req, sig, hup_tmp, last, floor, hups>>

\* load() parses into tmp; a file that does not parse is an error reply.
ReloadCredentials ==
  /\ Turn("idle")
  /\ IF OnDisk = Malformed THEN UNCHANGED <<pc, tmp>>
                           ELSE pc' = "parsed" /\ tmp' = OnDisk
  /\ UNCHANGED <<written, credentials, req, sig, hup_tmp, last, floor, hups>>

reload_lock ==
  /\ Turn("parsed")
  /\ pc' = "swap"
  /\ UNCHANGED <<written, credentials, req, tmp, sig, hup_tmp, last, floor, hups>>

\* The newest version of the file with content f.
VersionOf(f) ==
  CHOOSE n \in DOMAIN written :
    written[n] = f /\ \A k \in n + 1 .. Len(written) : written[k] # f

\* Mutant: tmp is dropped and credentials_ is left as it was.
reload_swap_dropped ==
  /\ Turn("swap")
  /\ floor' = VersionOf(tmp)
  /\ pc' = "idle"
  /\ UNCHANGED <<written, credentials, req, tmp, sig, hup_tmp, last, hups>>

\* credentials_ is replaced as a whole, under the lock.
reload_swap ==
  /\ Turn("swap")
  /\ credentials' = tmp /\ floor' = VersionOf(tmp)
  /\ pc' = "idle"
  /\ UNCHANGED <<written, req, tmp, sig, hup_tmp, last, hups>>

-----------------------------------------------------------------------------
(* SIGHUP.                                                                   *)

\* The handler parses the file; an exception that leaves it ends the process.
sighup ==
  /\ sig = "none" /\ pc # "down" /\ hups < MaxHups
  /\ hups' = hups + 1
  /\ IF OnDisk = Malformed
     THEN pc' = "down" /\ UNCHANGED <<sig, hup_tmp>>
     ELSE sig' = "lock" /\ hup_tmp' = OnDisk /\ UNCHANGED pc
  /\ UNCHANGED <<written, credentials, req, tmp, last, floor>>

\* The handler gets the lock only if the thread it interrupted does not hold
\* it.  A thread that holds it shared waits for itself and never goes on.
sighup_swap ==
  /\ sig = "lock" /\ pc \in {"idle", "parsed"}
  /\ credentials' = hup_tmp
  /\ sig' = "none"
  /\ UNCHANGED <<written, pc, req, tmp, hup_tmp, last, floor, hups>>

\* A thread that holds it exclusively gets EDEADLK, which is an exception.
sighup_throws ==
  /\ sig = "lock" /\ pc = "swap"
  /\ sig' = "none" /\ pc' = "down"
  /\ UNCHANGED <<written, credentials, req, tmp, hup_tmp, last, floor, hups>>

\* systemd starts the process again; it comes up once the file parses.
restart ==
  /\ pc = "down" /\ OnDisk # Malformed
  /\ credentials' = OnDisk /\ floor' = Len(written)
  /\ pc' = "idle" /\ req' = NoRequest
  /\ UNCHANGED <<written, tmp, sig, hup_tmp, last, hups>>

LoopStep ==
  \/ \E r \in Requests : Authenticate(r)
  \/ Authenticate_returns \/ ReloadCredentials \/ reload_lock \/ reload_swap

SignalStep == sighup_swap \/ sighup_throws

Next ==
  \/ LoopStep \/ sighup \/ SignalStep \/ restart
  \/ \E f \in Files \cup {Malformed} : edit_file(f)

Spec == Init /\ [][Next]_vars

\* The thread goes on and systemd restarts the process.
FairSpec == Spec /\ WF_vars(LoopStep) /\ WF_vars(SignalStep) /\ WF_vars(restart)

-----------------------------------------------------------------------------
(* Properties.                                                               *)

\* credentials_ is always the whole content of a file that parsed: a reload,
\* by D-Bus or by SIGHUP, interrupted anywhere or failing, leaves neither a
\* part of a file nor a mixture of two.
LoadedIsAFile == \E n \in DOMAIN written : credentials = written[n]

\* As long as SIGHUP is not used, a password is accepted only if the file had it
\* at the time of the last reload that finished, or later: a client whose
\* password was taken away is refused once ReloadCredentials has returned.
RevokedIsRefused ==
  hups = 0 /\ last.code = "OK" =>
    \E n \in last.floor .. Len(written) :
      /\ written[n] # Malformed
      /\ written[n][last.req.system_id] = last.req.password

\* IAuth.xml: ReloadCredentials is "Equivalent to SIGHUP": a SIGHUP is over at
\* some time, like ReloadCredentials.
SighupReturns == sig = "lock" ~> sig = "none"
=============================================================================
