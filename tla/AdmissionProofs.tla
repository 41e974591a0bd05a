--------------------------- MODULE AdmissionProofs ---------------------------
(***************************************************************************)
(* Theorems on who is let in: on the reload of the credentials, for any     *)
(* users, passwords and files, any number of edits and any number of        *)
(* SIGHUPs, and on the whitelist, for addresses of any width and any files.  *)
(***************************************************************************)
EXTENDS Authenticator, IpValidator, TLAPS, WellFoundedInduction

-----------------------------------------------------------------------------
(* The credentials.                                                         *)

\* x is a file that parses, as it was at some version from n on.
LoadedSince(n, x) == x \in Files /\ \E k \in n .. Len(written) : written[k] = x

\* What load() has parsed, on the thread and in the signal handler, and what it
\* replaced credentials_ by is a version of the file; without SIGHUP the thread
\* is never interrupted, and credentials_ is no older than the last reload.
IInv ==
  /\ written \in Seq(Files \cup {Malformed}) /\ hups \in Nat
  /\ floor \in DOMAIN written /\ last.floor \in DOMAIN written
  /\ LoadedSince(1, credentials) /\ LoadedSince(1, tmp) /\ LoadedSince(1, hup_tmp)
  /\ hups = 0 => sig = "none" /\ pc # "down" /\ LoadedSince(floor, credentials)
  /\ RevokedIsRefused

\* A content the file has had has a newest version.
LEMMA Newest ==
  ASSUME IInv, NEW f, LoadedSince(1, f)
  PROVE  VersionOf(f) \in DOMAIN written /\ written[VersionOf(f)] = f
<1> DEFINE L == Len(written)
           Ago == {a \in Nat : L - a \in DOMAIN written /\ written[L - a] = f}
<1>1. L \in Nat /\ DOMAIN written = 1 .. L
  BY DEF IInv
<1>2. Ago # {}
  <2>1. PICK k \in 1 .. L : written[k] = f
    BY DEF LoadedSince
  <2>2. L - k \in Nat /\ L - (L - k) = k
    BY <1>1
  <2> QED BY Zenon, <1>1, <2>1, <2>2
<1>3. PICK a \in Ago : \A b \in Ago : ~ (<<b, a>> \in OpToRel(<, Nat))
  <2> HIDE DEF Ago
  <2>1. Ago \subseteq Nat
    BY DEF Ago
  <2> QED BY Zenon, <1>2, <2>1, WFMin, NatLessThanWellFounded
<1>4. \A b \in Ago : a <= b
  <2>1. \A b \in Nat : b < a => <<b, a>> \in OpToRel(<, Nat)
    BY DEF OpToRel
  <2>2. a \in Nat /\ \A b \in Ago : b \in Nat
    OBVIOUS
  <2> HIDE DEF Ago
  <2>3. \A b \in Ago : ~(b < a)
    BY Zenon, <1>3, <2>1, <2>2
  <2> QED BY <2>2, <2>3
<1>5. /\ L - a \in DOMAIN written /\ written[L - a] = f
      /\ \A k \in L - a + 1 .. L : written[k] # f
  <2>1. a \in Nat /\ L - a \in DOMAIN written /\ written[L - a] = f
    OBVIOUS
  <2>2. ASSUME NEW k \in L - a + 1 .. L, written[k] = f PROVE FALSE
    <3>1. k \in 1 .. L /\ L - k \in Nat /\ L - (L - k) = k /\ L - k < a
      BY <1>1, <2>1
    <3>2. L - k \in Ago
      BY <1>1, <2>2, <3>1
    <3> HIDE DEF Ago
    <3> QED BY <1>4, <3>1, <3>2, <2>1
  <2> QED BY <2>1, <2>2
<1> QED BY <1>5 DEF VersionOf

\* What the invariant says of the file and of the answer survives an edit.
LEMMA EditKeeps ==
  ASSUME IInv, NEW f \in Files \cup {Malformed}, edit_file(f)
  PROVE  IInv'
<1>1. /\ written' = Append(written, f)
      /\ UNCHANGED <<credentials, pc, req, tmp, sig, hup_tmp, last, floor, hups>>
  BY DEF edit_file
<1>2. /\ written' \in Seq(Files \cup {Malformed})
      /\ Len(written) \in Nat /\ Len(written') = Len(written) + 1
      /\ DOMAIN written = 1 .. Len(written) /\ DOMAIN written' = 1 .. Len(written')
      /\ \A k \in 1 .. Len(written) : written'[k] = written[k]
  BY <1>1 DEF IInv
<1>3. \A x : \A n \in 1 .. Len(written) :
        (\E k \in n .. Len(written) : written[k] = x) =>
          \E k \in n .. Len(written') : written'[k] = x
  BY <1>2
<1>4. floor \in 1 .. Len(written) /\ last.floor \in 1 .. Len(written) /\ 1 \in 1 .. Len(written)
  BY <1>2 DEF IInv
<1>5. RevokedIsRefused'
  <2> SUFFICES ASSUME hups = 0, last.code = "OK"
               PROVE  \E n \in last.floor .. Len(written') :
                        /\ written'[n] # Malformed
                        /\ written'[n][last.req.system_id] = last.req.password
    BY Zenon, <1>1 DEF RevokedIsRefused
  <2>1. PICK n \in last.floor .. Len(written) :
          /\ written[n] # Malformed
          /\ written[n][last.req.system_id] = last.req.password
    BY DEF IInv, RevokedIsRefused
  <2>2. n \in last.floor .. Len(written') /\ written'[n] = written[n]
    BY <1>2, <1>4
  <2> QED BY <2>1, <2>2
<1>6. \A x : \A n \in 1 .. Len(written) :
        LoadedSince(n, x) => x \in Files /\ \E k \in n .. Len(written') : written'[k] = x
  BY Zenon, <1>3 DEF LoadedSince
<1> QED BY <1>1, <1>2, <1>4, <1>5, <1>6 DEF IInv, LoadedSince

\* The file on disk is what a load reads.
LEMMA DiskIsLoaded ==
  ASSUME IInv, OnDisk # Malformed
  PROVE  /\ LoadedSince(1, OnDisk) /\ LoadedSince(Len(written), OnDisk)
         /\ Len(written) \in DOMAIN written
<1>1. Len(written) \in DOMAIN written /\ OnDisk \in Files
  BY DEF IInv, OnDisk
<1> QED BY <1>1 DEF LoadedSince, OnDisk, IInv

\* An answer is made from credentials_, which is no older than the last reload.
LEMMA AnswerKeeps ==
  ASSUME IInv, Authenticate_returns
  PROVE  IInv'
<1>1. /\ last' = [req |-> req, code |-> authenticate(req), floor |-> floor] /\ pc' = "idle"
      /\ UNCHANGED <<written, credentials, tmp, sig, hup_tmp, floor, hups>>
  BY DEF Authenticate_returns
<1>2. RevokedIsRefused'
  <2> SUFFICES ASSUME hups = 0, authenticate(req) = "OK"
               PROVE  \E n \in floor .. Len(written) :
                        /\ written[n] # Malformed
                        /\ written[n][req.system_id] = req.password
    BY <1>1 DEF RevokedIsRefused
  <2>1. PICK n \in floor .. Len(written) : written[n] = credentials /\ credentials \in Files
    BY DEF IInv, LoadedSince
  <2>2. credentials # Malformed
    BY <2>1, AuthAssumption
  <2>3. credentials[req.system_id] = req.password
    BY DEF authenticate
  <2> QED BY <2>1, <2>2, <2>3
<1>3. last'.floor = floor
  BY <1>1
<1> QED BY <1>1, <1>2, <1>3 DEF IInv, LoadedSince

LEMMA Inductive ==
  ASSUME IInv, [Next]_vars
  PROVE  IInv'
<1>1. ASSUME NEW f \in Files \cup {Malformed}, edit_file(f) PROVE IInv'
  BY <1>1, EditKeeps
<1>2. ASSUME NEW r \in Requests, Authenticate(r) PROVE IInv'
  BY <1>2 DEF Authenticate, IInv, LoadedSince, RevokedIsRefused
<1>3. CASE ReloadCredentials
  <2>1. CASE OnDisk = Malformed
    BY <1>3, <2>1 DEF ReloadCredentials, IInv, LoadedSince, RevokedIsRefused
  <2>2. CASE OnDisk # Malformed
    <3>1. /\ pc' = "parsed" /\ tmp' = OnDisk /\ LoadedSince(1, OnDisk)
          /\ UNCHANGED <<written, credentials, sig, hup_tmp, last, floor, hups>>
      BY <1>3, <2>2, DiskIsLoaded DEF ReloadCredentials
    <3> QED BY <3>1 DEF IInv, LoadedSince, RevokedIsRefused
  <2> QED BY <2>1, <2>2
<1>4. CASE reload_lock
  BY <1>4 DEF reload_lock, IInv, LoadedSince, RevokedIsRefused
<1>5. CASE reload_swap
  <2>1. /\ credentials' = tmp /\ floor' = VersionOf(tmp) /\ pc' = "idle"
        /\ UNCHANGED <<written, tmp, sig, hup_tmp, last, hups>>
    BY <1>5 DEF reload_swap
  <2>2. VersionOf(tmp) \in DOMAIN written /\ written[VersionOf(tmp)] = tmp /\ tmp \in Files
    BY Newest DEF IInv, LoadedSince
  <2>3. VersionOf(tmp) \in VersionOf(tmp) .. Len(written)
    BY <2>2 DEF IInv
  <2> QED BY <2>1, <2>2, <2>3 DEF IInv, LoadedSince, RevokedIsRefused
<1>6. CASE sighup
  <2>1. CASE OnDisk = Malformed
    BY <1>6, <2>1 DEF sighup, IInv, LoadedSince, RevokedIsRefused
  <2>2. CASE OnDisk # Malformed
    <3>1. /\ hups' = hups + 1 /\ hup_tmp' = OnDisk /\ LoadedSince(1, OnDisk)
          /\ UNCHANGED <<written, credentials, tmp, last, floor>>
      BY <1>6, <2>2, DiskIsLoaded DEF sighup
    <3> QED BY <3>1 DEF IInv, LoadedSince, RevokedIsRefused
  <2> QED BY <2>1, <2>2
<1>7. CASE sighup_swap
  BY <1>7 DEF sighup_swap, IInv, LoadedSince, RevokedIsRefused
<1>8. CASE sighup_throws
  BY <1>8 DEF sighup_throws, IInv, LoadedSince, RevokedIsRefused
<1>9. CASE restart
  <2>1. /\ credentials' = OnDisk /\ floor' = Len(written) /\ pc = "down"
        /\ LoadedSince(1, OnDisk) /\ Len(written) \in DOMAIN written
        /\ UNCHANGED <<written, tmp, sig, hup_tmp, last, hups>>
    BY <1>9, DiskIsLoaded DEF restart
  <2> QED BY <2>1 DEF IInv, LoadedSince, RevokedIsRefused
<1>10. CASE UNCHANGED vars
  BY <1>10 DEF vars, IInv, LoadedSince, RevokedIsRefused
<1> QED BY <1>1, <1>2, <1>3, <1>4, <1>5, <1>6, <1>7, <1>8, <1>9, <1>10, AnswerKeeps
        DEF Next, LoopStep, SignalStep

LEMMA Always == Spec => []IInv
<1>1. Init => IInv
  <2> SUFFICES ASSUME Init PROVE IInv
    OBVIOUS
  <2>1. PICK f \in Files : written = <<f>>
    BY DEF Init
  <2>2. OnDisk = f /\ Len(written) = 1 /\ written[1] = f /\ DOMAIN written = 1 .. 1
    BY <2>1 DEF OnDisk
  <2>3. LoadedSince(1, f)
    BY <2>2 DEF LoadedSince
  <2>4. written \in Seq(Files \cup {Malformed})
    BY <2>1
  <2>5. RevokedIsRefused
    BY DEF Init, NoAnswer, RevokedIsRefused
  <2> QED BY <2>2, <2>3, <2>4, <2>5 DEF Init, IInv, NoAnswer
<1> QED BY <1>1, Inductive, PTL DEF Spec

\* credentials_ is at all times one version of the file as a whole, with reloads
\* by D-Bus and by SIGHUP interrupting each other anywhere.
THEOREM LoadedWhole == Spec => []LoadedIsAFile
<1>1. IInv => LoadedIsAFile
  BY DEF IInv, LoadedSince, LoadedIsAFile
<1> QED BY <1>1, Always, PTL

\* Without SIGHUP a password that was taken from the file is refused once a
\* ReloadCredentials that read the file without it has finished.
THEOREM RevocationHolds == Spec => []RevokedIsRefused
<1>1. IInv => RevokedIsRefused
  BY DEF IInv
<1> QED BY <1>1, Always, PTL
-----------------------------------------------------------------------------
(* The whitelist.                                                           *)

\* The mask of a prefix is its first bits, a prefix of 0 included.
LEMMA MaskBits ==
  ASSUME NEW p \in 0 .. W
  PROVE  mask(p) = 1 .. p
<1>1. W \in Nat /\ W > 1
  BY IpAssumption
<1>2. CASE p = 0
  BY <1>2 DEF mask
<1>3. CASE p # 0
  <2>1. W - p < W /\ W - p \in Nat
    BY <1>1, <1>3
  <2>2. mask(p) = {i \in 1 .. W : i + (W - p) \in 1 .. W}
    BY <1>3, <2>1 DEF mask, shl, Bits
  <2> QED BY <1>1, <2>2
<1> QED BY <1>2, <1>3

\* A line load_config makes a range of, and the range.
IsRange(l) == l.kind = "cidr" /\ l.prefix \in 0 .. W /\ l.network.notation = "v4"

Range4(l) == [network |-> l.network.word \cap mask(l.prefix), mask |-> mask(l.prefix)]

\* A range matches the words that agree with its network on the prefix.
LEMMA RangeMatches ==
  ASSUME NEW l, IsRange(l), NEW x
  PROVE  x \cap Range4(l).mask = Range4(l).network <=>
           \A i \in 1 .. l.prefix : i \in x <=> i \in l.network.word
<1>1. mask(l.prefix) = 1 .. l.prefix
  BY MaskBits DEF IsRange
<1>2. Range4(l).mask = 1 .. l.prefix /\ Range4(l).network = l.network.word \cap (1 .. l.prefix)
  BY <1>1 DEF Range4
<1> QED BY Zenon, <1>2

\* The lists hold what the lines read so far put there, and nothing else.
IpInv ==
  /\ file \in Seq(Lines) /\ pos \in 0 .. Len(file)
  /\ phase = "ready" => pos = Len(file)
  /\ \A a \in exact_set : \E i \in 1 .. pos : file[i].kind = "exact" /\ file[i].address = a
  /\ \A i \in 1 .. pos : file[i].kind = "exact" => file[i].address \in exact_set
  /\ \A c \in cidrs : \E i \in 1 .. pos : IsRange(file[i]) /\ Range4(file[i]) = c
  /\ \A i \in 1 .. pos : IsRange(file[i]) => Range4(file[i]) \in cidrs

LEMMA StepIp == IpInv /\ [IpNext]_ipVars => IpInv'
<1> SUFFICES ASSUME IpInv, [IpNext]_ipVars PROVE IpInv'
  OBVIOUS
\* A new file of which nothing is read yet.
<1>1. ASSUME file' \in Seq(Lines), exact_set' = {}, cidrs' = {}, pos' = 0,
             phase' # "ready" \/ Len(file') = 0
      PROVE  IpInv'
  BY <1>1 DEF IpInv
<1>2. CASE load_line
  <2>1. /\ file' = file /\ phase' = phase /\ pos' = pos + 1 /\ pos \in Nat /\ pos < Len(file)
        /\ phase = "loading" /\ file \in Seq(Lines)
    BY <1>2 DEF load_line, IpInv
  <2>2. pos' \in 0 .. Len(file') /\ phase' # "ready"
    BY <2>1
  <2>3. 1 .. pos' = 1 .. pos \cup {pos + 1}
    BY <2>1
  <2>4. file[pos + 1] = line
    BY DEF line
  <2>5. CASE Skipped /\ UNCHANGED <<exact_set, cidrs>>
    <3>1. line.kind # "exact" /\ ~IsRange(line) /\ exact_set' = exact_set /\ cidrs' = cidrs
      BY <2>5 DEF Skipped, IsRange
    <3> QED BY Zenon, <2>1, <2>2, <2>3, <2>4, <3>1 DEF IpInv
  <2>6. CASE line.kind = "exact" /\ exact_set' = exact_set \cup {line.address} /\ UNCHANGED cidrs
    <3>1. ~IsRange(line) /\ cidrs' = cidrs
      BY <2>6 DEF IsRange
    <3> QED BY Zenon, <2>1, <2>2, <2>3, <2>4, <2>6, <3>1 DEF IpInv
  <2>7. CASE IsRange(line) /\ add_cidr /\ UNCHANGED exact_set
    <3>1. line.kind # "exact" /\ cidrs' = cidrs \cup {Range4(line)} /\ exact_set' = exact_set
      BY <2>7 DEF IsRange, add_cidr, Range4
    <3> QED BY Zenon, <2>1, <2>2, <2>3, <2>4, <2>7, <3>1 DEF IpInv
  <2> QED BY Zenon, <1>2, <2>5, <2>6, <2>7 DEF load_line, IsRange
<1>3. CASE load_throws \/ load_ends
  BY <1>3 DEF load_throws, load_ends, IpInv
<1>4. ASSUME NEW f \in Configs, reload(f) PROVE IpInv'
  BY <1>1, <1>4, IpAssumption DEF reload
<1>5. CASE reload_unopened
  BY <1>1, <1>5 DEF reload_unopened
<1>6. CASE UNCHANGED ipVars
  BY <1>6 DEF ipVars, IpInv
<1> QED BY Zenon, <1>2, <1>3, <1>4, <1>5, <1>6 DEF IpNext

LEMMA AlwaysIp == IpSpec => []IpInv
<1>1. IpInit => IpInv
  BY IpAssumption DEF IpInit, IpInv
<1> QED BY <1>1, StepIp, PTL DEF IpSpec

\* An address is admitted if and only if one of the lines read so far covers it.
LEMMA LinesDecide ==
  ASSUME IpInv, NEW ip
  PROVE  is_allowed(ip) <=> \E i \in 1 .. pos : Covers(file[i], ip)
<1>1. ASSUME NEW i \in 1 .. pos, Covers(file[i], ip) PROVE is_allowed(ip)
  <2>1. CASE file[i].kind = "exact" /\ file[i].address = ip
    BY Zenon, <2>1 DEF IpInv, is_allowed
  <2>2. CASE IsRange(file[i]) /\ ip.notation = "v4"
             /\ \A k \in 1 .. file[i].prefix : k \in ip.word <=> k \in file[i].network.word
    <3>1. Range4(file[i]) \in cidrs
      BY Zenon, <2>2 DEF IpInv
    <3>2. ip.word \cap Range4(file[i]).mask = Range4(file[i]).network
      BY Zenon, <2>2, RangeMatches
    <3> QED BY Zenon, <2>2, <3>1, <3>2 DEF is_allowed, matches_cidr
  <2> QED BY Zenon, <1>1, <2>1, <2>2 DEF Covers, IsRange
<1>2. ASSUME is_allowed(ip) PROVE \E i \in 1 .. pos : Covers(file[i], ip)
  <2>1. CASE ip \in exact_set
    BY Zenon, <2>1 DEF IpInv, Covers
  <2>2. CASE ip.notation = "v4" /\ matches_cidr(ip.word)
    <3>1. PICK c \in cidrs : ip.word \cap c.mask = c.network
      BY Zenon, <2>2 DEF matches_cidr
    <3>2. PICK i \in 1 .. pos : IsRange(file[i]) /\ Range4(file[i]) = c
      BY Zenon DEF IpInv
    <3>3. \A k \in 1 .. file[i].prefix : k \in ip.word <=> k \in file[i].network.word
      BY Zenon, <3>1, <3>2, RangeMatches
    <3> QED BY Zenon, <2>2, <3>2, <3>3 DEF Covers, IsRange
  <2> QED BY Zenon, <1>2, <2>1, <2>2 DEF is_allowed
<1> QED BY Zenon, <1>1, <1>2

\* Whatever files are loaded one after the other, is_allowed admits exactly the
\* addresses some line of the last one covers, for every width of an address and every
\* prefix length.
THEOREM WhitelistRight == IpSpec => []FileDecides
<1>1. IpInv => FileDecides
  BY Zenon, LinesDecide DEF FileDecides, IpInv
<1> QED BY <1>1, AlwaysIp, PTL

\* A load that is under way or that failed admits at most what the lines it has read
\* cover.
THEOREM FailedLoadClosed == IpSpec => []FailsClosed
<1>1. IpInv => FailsClosed
  BY Zenon, LinesDecide DEF FailsClosed
<1> QED BY <1>1, AlwaysIp, PTL
=============================================================================
