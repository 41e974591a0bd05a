----------------------------- MODULE IpValidator -----------------------------
(***************************************************************************)
(* The whitelist of SMPPServer/src/ip_validator.cpp: load_config line by     *)
(* line, from the constructor and from reload, and is_allowed.               *)
(*                                                                          *)
(* An IPv4 address is a word of W bits (32 in the code), the set of its bits *)
(* that are 1, counted from the most significant.  An address string is a    *)
(* record of its notation and the word it stands for: "v4" is dotted         *)
(* decimal, the only notation inet_pton(AF_INET) takes, "v6" is colon-hex,   *)
(* "mapped" is ::ffff: and a dotted IPv4 address, "none" is anything else.   *)
(***************************************************************************)
EXTENDS Integers, Sequences

CONSTANTS
  W,        \* bits of an IPv4 address
  Configs   \* contents of the file, sequences of Lines

Bits == 1 .. W

Addresses == [notation : {"v4", "v6", "mapped", "none"}, word : SUBSET Bits]

\* stoi("/x") throws.
NotANumber == 2 * W

\* A line after trim.
Lines ==
  [kind : {"comment"}]
    \cup [kind : {"exact"}, address : Addresses]
    \cup [kind : {"cidr"}, network : Addresses, prefix : -1 .. W + 1 \cup {NotANumber}]

ASSUME IpAssumption == W \in Nat \ {0, 1} /\ Configs \subseteq Seq(Lines)

VARIABLES
  file,       \* the file the last load_config opened
  exact_set,  \* exact_set_
  cidrs,      \* cidrs_
  pos,        \* lines read
  phase       \* "loading", "ready" or "failed"

ipVars == <<file, exact_set, cidrs, pos, phase>>

\* The constructor opens the file.
IpInit ==
  /\ file \in Configs
  /\ exact_set = {} /\ cidrs = {} /\ pos = 0 /\ phase = "loading"

\* x << k.  C++ leaves a shift by all W bits undefined; it is the shift by k
\* modulo W that the processor makes.
shl(x, k) == {i \in Bits : i + (IF k < W THEN k ELSE k - W) \in x}

mask(prefix) == IF prefix = 0 THEN {} ELSE shl(Bits, W - prefix)

line == file[pos + 1]

\* Mutant: the network is kept as it is written.
add_cidr_unmasked ==
  cidrs' = cidrs \cup {[network |-> line.network.word, mask |-> mask(line.prefix)]}

add_cidr ==
  cidrs' = cidrs \cup {[network |-> line.network.word \cap mask(line.prefix),
                        mask |-> mask(line.prefix)]}

\* A comment, a blank line, or a range that is skipped with a warning.
Skipped ==
  \/ line.kind = "comment"
  \/ /\ line.kind = "cidr" /\ line.prefix # NotANumber
     /\ line.prefix \notin 0 .. W \/ line.network.notation # "v4"

\* One turn of the loop of load_config.
load_line ==
  /\ phase = "loading" /\ pos < Len(file)
  /\ \/ Skipped /\ UNCHANGED <<exact_set, cidrs>>
     \/ /\ line.kind = "exact"
        /\ exact_set' = exact_set \cup {line.address} /\ UNCHANGED cidrs
     \/ /\ line.kind = "cidr" /\ line.prefix \in 0 .. W
        /\ line.network.notation = "v4"
        /\ add_cidr /\ UNCHANGED exact_set
  /\ pos' = pos + 1
  /\ UNCHANGED <<file, phase>>

\* stoi throws out of load_config, which leaves the lists half filled.
load_throws ==
  /\ phase = "loading" /\ pos < Len(file)
  /\ line.kind = "cidr" /\ line.prefix = NotANumber
  /\ phase' = "failed"
  /\ UNCHANGED <<file, exact_set, cidrs, pos>>

load_ends ==
  /\ phase = "loading" /\ pos = Len(file)
  /\ phase' = "ready"
  /\ UNCHANGED <<file, exact_set, cidrs, pos>>

\* Mutant: the ranges of the old file are kept.
reload_adds(f) ==
  /\ phase # "loading"
  /\ file' = f /\ exact_set' = {} /\ pos' = 0 /\ phase' = "loading"
  /\ UNCHANGED cidrs

\* reload clears the lists before it opens the file.
reload(f) ==
  /\ phase # "loading"
  /\ file' = f /\ exact_set' = {} /\ cidrs' = {} /\ pos' = 0 /\ phase' = "loading"

\* reload when the file cannot be opened: the lists are cleared and it throws.
reload_unopened ==
  /\ phase # "loading"
  /\ file' = <<>> /\ exact_set' = {} /\ cidrs' = {} /\ pos' = 0 /\ phase' = "failed"

matches_cidr(x) == \E c \in cidrs : x \cap c.mask = c.network

is_allowed(ip) ==
  ip \in exact_set \/ (ip.notation = "v4" /\ matches_cidr(ip.word))

\* The address handle_connection passes to is_allowed: the acceptor's socket is
\* IPv6 with IPV6_V6ONLY off, on which an IPv4 client has a mapped address.
client_ip(c) == IF c.notation = "v4" THEN [c EXCEPT !.notation = "mapped"] ELSE c

IpNext ==
  \/ load_line
  \/ load_throws
  \/ load_ends
  \/ \E f \in Configs : reload(f)
  \/ reload_unopened

IpSpec == IpInit /\ [][IpNext]_ipVars

-----------------------------------------------------------------------------

\* What a line of the file means: an address as it is written, or the IPv4
\* addresses that agree with the network on the first prefix bits.
Covers(l, ip) ==
  \/ l.kind = "exact" /\ l.address = ip
  \/ /\ l.kind = "cidr" /\ l.prefix \in 0 .. W
     /\ l.network.notation = "v4" /\ ip.notation = "v4"
     /\ \A i \in 1 .. l.prefix : i \in ip.word <=> i \in l.network.word

(* Once load_config has returned, is_allowed admits exactly the addresses    *)
(* some line of the file covers, for every prefix length, networks with host *)
(* bits set, lines that are skipped and any number of reloads before.        *)
FileDecides ==
  phase = "ready" =>
    \A ip \in Addresses :
      is_allowed(ip) <=> \E i \in 1 .. Len(file) : Covers(file[i], ip)

(* While load_config runs, and after it threw, is_allowed admits at most     *)
(* what the lines read so far cover: a reload that fails shuts addresses     *)
(* out, and keeps none that an older file let in.                            *)
FailsClosed ==
  \A ip \in Addresses :
    is_allowed(ip) => \E i \in 1 .. pos : Covers(file[i], ip)

(* The acceptor admits an IPv4 client if and only if the file covers its       *)
(* address, as the format in ip_validator.hpp ("127.0.0.1", "192.168.1.0/24")   *)
(* and allowed_ips.conf promise.  This does not hold: is_allowed is given the   *)
(* client's mapped address, which no dotted line and no range covers.           *)
Ipv4ClientsByFile ==
  phase = "ready" =>
    \A c \in Addresses : c.notation = "v4" =>
      (is_allowed(client_ip(c)) <=> \E i \in 1 .. Len(file) : Covers(file[i], c))
=============================================================================
