------------------------------- MODULE SmppPdu -------------------------------
(***************************************************************************)
(* The PDU codec of SmppClientHandler/include/smpp_pdu.hpp on the path of a  *)
(* message: the submit_sm body an ESME sends, parse_submit_sm, the string    *)
(* arguments of RouteMessage and DeliverSm on D-Bus, make_deliver_sm, and    *)
(* the receiving ESME, which reads the body back.                            *)
(*                                                                          *)
(* Bytes are 0 .. ByteMod - 1 (256 in the code); a C-octet string is read up *)
(* to MaxCstr characters (65 in the code).  The header and the flag octets   *)
(* of the body, which nothing looks at, keep their place but not their       *)
(* values.                                                                   *)
(***************************************************************************)
EXTENDS Integers, Sequences, FiniteSetsExt

CONSTANTS
  ByteMod,    \* number of values of a byte
  MaxCstr,    \* max_len of read_cstr
  NotUtf8,    \* bytes that make a string invalid UTF-8
  Strings,    \* addresses an ESME may send
  Times,      \* delivery times an ESME may send
  Texts       \* short messages

Bytes == 0 .. ByteMod - 1

ASSUME PduAssumption ==
  /\ ByteMod \in Nat \ {0} /\ MaxCstr \in Nat \ {0} /\ NotUtf8 \subseteq Bytes
  /\ Strings \subseteq Seq(Bytes \ {0}) /\ Texts \subseteq Seq(Bytes)
  /\ Times \subseteq Seq(Bytes \ {0}) /\ \A t \in Times : Len(t) < MaxCstr

VARIABLES
  stage,  \* where the message is
  sent,   \* history: what the ESME or the D-Bus caller meant to send
  cut,    \* history: the submit_sm body ends too early
  body,   \* the PDU body on the wire
  fields, \* SubmitSm, then the arguments of RouteMessage and DeliverSm
  got     \* what the receiving ESME reads

vars == <<stage, sent, cut, body, fields, got>>

Fields == [src_addr : Seq(Bytes), dst_addr : Seq(Bytes), short_message : Seq(Bytes)]

NoFields == [src_addr |-> <<>>, dst_addr |-> <<>>, short_message |-> <<>>]

Zeros(n) == [i \in 1 .. n |-> 0]

\* A submit_sm body as SMPP 3.4 lays it out, with a schedule_delivery_time.
submit_sm(f, time) ==
  <<0, 1, 1>> \o f.src_addr \o <<0, 1, 1>> \o f.dst_addr \o <<0, 1, 1, 1>>
    \o time \o <<0, 0, 1, 1, 1, 1>> \o <<Len(f.short_message)>> \o f.short_message

\* What is left of s, wherever it ends.
Prefixes(s) == {SubSeq(s, 1, n) : n \in 0 .. Len(s)}

\* The ESME's PDU may end anywhere: command_length need not fit the fields.
Init ==
  /\ sent \in [src_addr : Strings, dst_addr : Strings, short_message : Texts]
  /\ \/ /\ stage = "submit" /\ Len(sent.short_message) < ByteMod
        /\ \E time \in Times :
             /\ body \in Prefixes(submit_sm(sent, time))
             /\ cut = (body # submit_sm(sent, time))
     \/ stage = "caller" /\ body = <<>> /\ cut = FALSE
  /\ fields = NoFields /\ got = NoFields

-----------------------------------------------------------------------------
(* Reading a body.                                                           *)

\* Where read_cstr stops if it meets no NUL, and the NULs it may meet.
last(buf, off, max_len) == IF Len(buf) - off < max_len THEN Len(buf) ELSE off + max_len

nuls(buf, off, max_len) == {i \in off + 1 .. last(buf, off, max_len) : buf[i] = 0}

\* What read_cstr returns from offset off and the offset it leaves: past the
\* terminator, unless max_len characters come before it.
read_cstr(buf, off, max_len) ==
  IF nuls(buf, off, max_len) = {}
  THEN [s |-> SubSeq(buf, off + 1, last(buf, off, max_len)), off |-> last(buf, off, max_len)]
  ELSE [s |-> SubSeq(buf, off + 1, Min(nuls(buf, off, max_len)) - 1),
        off |-> Min(nuls(buf, off, max_len))]

\* n times "if (off < body.size()) x = body[off++]".
skip(buf, off, n) == IF off + n <= Len(buf) THEN off + n ELSE Len(buf)

\* Mutant: the text is made sm_len long although the body ends before.
read_text_padded(buf, off) ==
  IF off >= Len(buf) THEN <<>>
  ELSE [i \in 1 .. buf[off + 1] |->
          IF off + 1 + i <= Len(buf) THEN buf[off + 1 + i] ELSE 0]

\* sm_length and as much of short_message as the body holds.
read_text(buf, off) ==
  IF off >= Len(buf) THEN <<>>
  ELSE LET avail == IF buf[off + 1] <= Len(buf) - off - 1
                    THEN buf[off + 1] ELSE Len(buf) - off - 1
       IN  SubSeq(buf, off + 2, off + 1 + avail)

parse(buf, max_len) ==
  LET service  == read_cstr(buf, 0, max_len)
      src      == read_cstr(buf, skip(buf, service.off, 2), max_len)
      dst      == read_cstr(buf, skip(buf, src.off, 2), max_len)
      schedule == read_cstr(buf, skip(buf, dst.off, 3), max_len)
      validity == read_cstr(buf, schedule.off, max_len)
  IN  [src_addr |-> src.s, dst_addr |-> dst.s,
       short_message |-> read_text(buf, skip(buf, validity.off, 4))]

parse_submit_sm(buf) == parse(buf, MaxCstr)

-----------------------------------------------------------------------------
(* The way of the message.                                                   *)

handle_submit_sm ==
  /\ stage = "submit"
  /\ stage' = "parsed" /\ fields' = parse_submit_sm(body)
  /\ UNCHANGED <<sent, cut, body, got>>

\* A string argument goes into the D-Bus message as c_str(), up to its first
\* NUL, and must be UTF-8.
append_string(s) ==
  LET nul == {i \in 1 .. Len(s) : s[i] = 0}
  IN  IF nul = {} THEN s ELSE SubSeq(s, 1, Min(nul) - 1)

Marshalled(f) ==
  [src_addr |-> append_string(f.src_addr), dst_addr |-> append_string(f.dst_addr),
   short_message |-> append_string(f.short_message)]

IsUtf8(f) == \A x \in DOMAIN f : Range(append_string(f[x])) \cap NotUtf8 = {}

\* Mutant: DeliverSm is called with the addresses swapped.
RouteMessage_swapped ==
  /\ stage = "parsed" /\ IsUtf8(fields)
  /\ stage' = "deliver"
  /\ fields' = Marshalled([fields EXCEPT !.src_addr = fields.dst_addr,
                                         !.dst_addr = fields.src_addr])
  /\ UNCHANGED <<sent, cut, body, got>>

\* RouteMessage passes the fields on to DeliverSm.
RouteMessage ==
  /\ stage = "parsed" /\ IsUtf8(fields)
  /\ stage' = "deliver" /\ fields' = Marshalled(fields)
  /\ UNCHANGED <<sent, cut, body, got>>

\* The arguments cannot be marshalled: "RouteMessage failed", after the
\* submit_sm was answered with ESME_ROK.
RouteMessage_failed ==
  /\ stage = "parsed" /\ ~IsUtf8(fields)
  /\ stage' = "lost"
  /\ UNCHANGED <<sent, cut, body, fields, got>>

\* DeliverSm called by some other D-Bus client, with any strings.
CallDeliverSm ==
  /\ stage = "caller" /\ IsUtf8(sent) /\ Marshalled(sent) = sent
  /\ stage' = "deliver" /\ fields' = sent
  /\ UNCHANGED <<sent, cut, body, got>>

\* Mutant: the length is cast to a signed byte.
make_deliver_sm_signed(f) ==
  Zeros(3) \o f.src_addr \o Zeros(3) \o f.dst_addr \o Zeros(10)
    \o <<Len(f.short_message) % (ByteMod \div 2)>> \o f.short_message

\* The body of a deliver_sm; the length of the text is cast to a byte.
make_deliver_sm(f) ==
  Zeros(3) \o f.src_addr \o Zeros(3) \o f.dst_addr \o Zeros(10)
    \o <<Len(f.short_message) % ByteMod>> \o f.short_message

DeliverSm ==
  /\ stage = "deliver"
  /\ stage' = "wire" /\ body' = make_deliver_sm(fields)
  /\ UNCHANGED <<sent, cut, fields, got>>

\* The ESME reads the deliver_sm, whose strings it need not limit.
receive ==
  /\ stage = "wire"
  /\ stage' = "received" /\ got' = parse(body, Len(body))
  /\ UNCHANGED <<sent, cut, body, fields>>

Next ==
  \/ handle_submit_sm
  \/ RouteMessage
  \/ RouteMessage_failed
  \/ CallDeliverSm
  \/ DeliverSm
  \/ receive

Spec == Init /\ [][Next]_vars

-----------------------------------------------------------------------------

\* Both addresses end before read_cstr stops by itself.
Short(f) == Len(f.src_addr) < MaxCstr /\ Len(f.dst_addr) < MaxCstr

(* A body that ends too early costs the end of the message, and a string that *)
(* read_cstr does not read to its end costs the fields after it, and nothing   *)
(* before: every field parse_submit_sm returns begins as the one the ESME      *)
(* sent, and takes no bytes of another, if the strings before it end in time.  *)
TruncationIsPrefix ==
  stage = "parsed" =>
    /\ fields.src_addr \in Prefixes(sent.src_addr)
    /\ Len(sent.src_addr) < MaxCstr => fields.dst_addr \in Prefixes(sent.dst_addr)
    /\ Short(sent) => fields.short_message \in Prefixes(sent.short_message)

(* Whatever parse_submit_sm made of a body, however malformed, the PDU that  *)
(* make_deliver_sm builds from it reads back as exactly those fields: no      *)
(* address runs into the next field and no length wraps.  A D-Bus caller of  *)
(* DeliverSm gets the same if its text is shorter than ByteMod.              *)
DeliversWhatItWasGiven ==
  stage = "received" /\ Len(fields.short_message) < ByteMod => got = fields

\* Text alone: no NUL and nothing that is not UTF-8 in any field.
IsText(f) == \A x \in DOMAIN f : Range(f[x]) \cap (NotUtf8 \cup {0}) = {}

\* A submit_sm that is all there, with addresses that read_cstr reads to their
\* end and a text that its length byte can count.
WellFormed == ~cut /\ Short(sent) /\ Len(sent.short_message) < ByteMod

(* A complete submit_sm whose strings are text is never given up after it was *)
(* answered with ESME_ROK, and arrives exactly as it was sent: parsing,       *)
(* RouteMessage, DeliverSm and make_deliver_sm keep every field in its place.  *)
TextArrivesAsSent ==
  WellFormed /\ IsText(sent) =>
    stage # "lost" /\ (stage = "received" => got = sent)

(* The same for any short_message, which smpp_pdu.hpp calls "raw bytes as      *)
(* string (may be binary)" in a submit_sm and "raw bytes" in a deliver_sm.      *)
(* This does not hold: RouteMessage and DeliverSm carry it as a D-Bus string,   *)
(* which ends at a NUL, and is refused if it is not UTF-8.                       *)
BinaryArrivesAsSent ==
  WellFormed =>
    stage # "lost" /\ (stage = "received" => got.short_message = sent.short_message)
=============================================================================
