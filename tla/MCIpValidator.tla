---------------------------- MODULE MCIpValidator ----------------------------
(* IpValidator with addresses of three bits: every network with every prefix  *)
(* length in one-line files, and files that mix kinds, skip and throw.        *)
EXTENDS IpValidator

Cidr(n, x, p) == [kind |-> "cidr", network |-> [notation |-> n, word |-> x], prefix |-> p]
Exact(n, x) == [kind |-> "exact", address |-> [notation |-> n, word |-> x]]

MCConfigs ==
  {<<Cidr("v4", x, p)>> : x \in SUBSET Bits, p \in -1 .. W + 1}
    \cup {<<Cidr("v4", x, p), [kind |-> "comment"], Cidr("v4", y, p + 1)>> :
            x \in {{3}, {1, 2}}, y \in {{2, 3}, {1}}, p \in 1 .. W - 1}
    \cup {<<Exact("v4", x), Exact("v6", x), Cidr(n, {1}, 2), Cidr("v4", {2}, q), Exact("mapped", {1, 3})>> :
            x \in {{}, Bits}, n \in {"v6", "mapped", "none"}, q \in {3, NotANumber}}
=============================================================================
