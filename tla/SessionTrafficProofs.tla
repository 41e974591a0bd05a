------------------------ MODULE SessionTrafficProofs ------------------------
(***************************************************************************)
(* The token bucket of throttle_check is exact, for every rate, every      *)
(* resolution of the clock and any number of requests: it admits no more    *)
(* than RateBound allows, and refuses nothing that RateBound would allow.   *)
(* And whatever either thread gives to send_pdu is written in full, piece by *)
(* piece and begun in its turn, for every size of a PDU and of the send      *)
(* buffer; a PDU that is alone is not mixed up with another.                 *)
(***************************************************************************)
EXTENDS SessionTraffic, FiniteSetTheorems, TLAPS

Kinds == {"accepted", "throttled", "deliver_sm"}

BucketType ==
  /\ clock \in Nat /\ refilled \in Nat /\ refilled <= clock
  /\ tokens \in Nat /\ tokens <= Rate * Second
  /\ admitted \in Seq(Nat) /\ sent \in Seq(Kinds)

\* What the bucket would hold at time t, had it been full when the i-th of the
\* requests admitted at the times adm came and never been cut off at its size since.
Level(adm, t, i) == Rate * Second + Rate * (t - adm[i]) - (Len(adm) - i + 1) * Second

\* The bucket never holds more than the requests since any of those admitted
\* have left over.
AtMostLevel == \A i \in DOMAIN admitted : tokens <= Level(admitted, refilled, i)

\* It holds exactly that for one of them, unless it is full.
IsALevel ==
  tokens = Rate * Second \/ \E i \in DOMAIN admitted : tokens = Level(admitted, refilled, i)

BucketInv == BucketType /\ (Rate # 0 => AtMostLevel /\ IsALevel /\ RateBound)

\* The steps that do not look at the bucket.
Others ==
  \/ DeliverSm \/ do_disconnect \/ Writable \/ PeerReads \/ ReadArrives
  \/ ended_submit_sm \/ route_returns \/ write_continues

\* They leave it alone, and throttle nobody.
LEMMA OthersKeep ==
  ASSUME BucketType, Others
  PROVE  /\ UNCHANGED bucketVars /\ sent' \in Seq(Kinds)
         /\ sent' = sent \/ sent' = Append(sent, "deliver_sm")
<1>1. CASE DeliverSm
  <2>1. sent' = Append(sent, "deliver_sm") /\ UNCHANGED bucketVars
    BY <1>1 DEF DeliverSm, send_pdu, bucketVars
  <2> QED BY <2>1 DEF BucketType, Kinds
<1>2. CASE ~DeliverSm
  <2>1. UNCHANGED <<bucketVars, sent>>
    BY <1>2 DEF Others, do_disconnect, Writable, PeerReads, ReadArrives, ended_submit_sm,
                route_returns, write_continues, bucketVars
  <2> QED BY <2>1 DEF BucketType, bucketVars
<1> QED BY <1>1, <1>2

\* The bucket after a refill is full, or holds what time has added.
LEMMA RefillType ==
  ASSUME BucketType
  PROVE  /\ Refill \in Nat /\ Refill <= Rate * Second
         /\ \/ Refill = Rate * Second /\ Refill <= tokens + (clock - refilled) * Rate
            \/ Refill = tokens + (clock - refilled) * Rate
<1> USE TrafficAssumption DEF BucketType
<1>1. (clock - refilled) * Rate \in Nat
  <2>1. clock - refilled \in Nat
    OBVIOUS
  <2> QED BY <2>1
<1>2. Rate * Second \in Nat
  OBVIOUS
<1> QED BY <1>1, <1>2 DEF Refill, Smaller

LEMMA Products ==
  ASSUME NEW r \in Int, NEW s \in Int, NEW t \in Int, NEW u \in Int, NEW a \in Int, NEW m \in Int
  PROVE  /\ r * (u - a) = r * (t - a) + (u - t) * r
         /\ (m + 1) * s = m * s + s
         /\ r * s \in Int /\ r * (t - a) \in Int /\ (u - t) * r \in Int /\ m * s \in Int
OBVIOUS

\* A level rises with time as the bucket does.
LEMMA LevelRises ==
  ASSUME BucketType, NEW i \in DOMAIN admitted
  PROVE  /\ Level(admitted, refilled, i) \in Int
         /\ Level(admitted, clock, i) = Level(admitted, refilled, i) + (clock - refilled) * Rate
<1>1. /\ admitted[i] \in Int /\ Len(admitted) - i + 1 \in Int
      /\ Rate \in Int /\ Second \in Int /\ clock \in Int /\ refilled \in Int
  BY TrafficAssumption DEF BucketType
<1>2. /\ Rate * (clock - admitted[i]) = Rate * (refilled - admitted[i]) + (clock - refilled) * Rate
      /\ Rate * Second \in Int /\ Rate * (refilled - admitted[i]) \in Int
      /\ (clock - refilled) * Rate \in Int /\ (Len(admitted) - i + 1) * Second \in Int
  BY <1>1, Products
<1> QED BY <1>2 DEF Level

\* It falls by a token with a request that is admitted, whose own level is that
\* of a full bucket less a token.
LEMMA LevelFalls ==
  ASSUME BucketType, NEW adm, adm = Append(admitted, clock)
  PROVE  /\ adm \in Seq(Nat) /\ DOMAIN adm = 1 .. Len(admitted) + 1
         /\ Level(adm, clock, Len(admitted) + 1) = Rate * Second - Second
         /\ \A i \in DOMAIN admitted :
              /\ i \in DOMAIN adm
              /\ Level(adm, clock, i) = Level(admitted, clock, i) - Second
<1>1. /\ adm \in Seq(Nat) /\ Len(adm) = Len(admitted) + 1 /\ DOMAIN adm = 1 .. Len(admitted) + 1
      /\ adm[Len(admitted) + 1] = clock
      /\ \A i \in DOMAIN admitted : adm[i] = admitted[i] /\ i \in DOMAIN adm
  BY DEF BucketType
<1>2. /\ Len(admitted) \in Int /\ Rate \in Int /\ Second \in Int /\ clock \in Int
      /\ Rate * Second \in Int
  BY TrafficAssumption DEF BucketType
<1>3. Level(adm, clock, Len(admitted) + 1) = Rate * Second - Second
  <2>1. /\ Rate * (clock - adm[Len(admitted) + 1]) = 0
        /\ (Len(adm) - (Len(admitted) + 1) + 1) * Second = Second
    BY <1>1, <1>2
  <2> QED BY <2>1, <1>2 DEF Level
<1>4. ASSUME NEW i \in DOMAIN admitted
      PROVE  Level(adm, clock, i) = Level(admitted, clock, i) - Second
  <2> DEFINE m == Len(admitted) - i + 1
             r == Rate * (clock - admitted[i])
  <2>1. /\ m \in Int /\ admitted[i] \in Int /\ adm[i] = admitted[i]
        /\ Len(adm) - i + 1 = m + 1
    BY <1>1, <1>2 DEF BucketType
  <2>2. (m + 1) * Second = m * Second + Second /\ m * Second \in Int /\ r \in Int
    <3>1. (m + 1) * Second = m * Second + Second /\ m * Second \in Int
      BY <1>2, <2>1
    <3>2. r \in Int
      BY <1>2, <2>1
    <3> QED BY <3>1, <3>2
  <2>3. /\ Level(adm, clock, i) = Rate * Second + r - (m + 1) * Second
        /\ Level(admitted, clock, i) = Rate * Second + r - m * Second
    BY <2>1 DEF Level
  <2> HIDE DEF m, r
  <2> QED BY <1>2, <2>2, <2>3
<1> QED BY <1>1, <1>3, <1>4

\* The steps of the specification, by what they do to the bucket.
LEMMA StepKinds ==
  ASSUME [Next]_vars
  PROVE  Others \/ Tick \/ handle_submit_sm \/ refuse_submit_sm \/ UNCHANGED vars
BY DEF Next, AsioStep, Others

\* The invariant speaks of the bucket and of the type of sent only.
LEMMA KeepInv ==
  ASSUME BucketInv, UNCHANGED bucketVars, sent' \in Seq(Kinds)
  PROVE  BucketInv'
BY DEF BucketInv, BucketType, AtMostLevel, IsALevel, Level, RateBound, bucketVars

LEMMA TickInv ==
  ASSUME BucketInv, Tick
  PROVE  BucketInv'
<1>1. /\ clock' = clock + 1
      /\ UNCHANGED <<tokens, refilled, admitted, sent>>
  BY DEF Tick
<1>2. BucketType'
  BY <1>1 DEF BucketInv, BucketType
<1>3. AtMostLevel' <=> AtMostLevel
  BY <1>1 DEF AtMostLevel, Level
<1>4. IsALevel' <=> IsALevel
  BY <1>1 DEF IsALevel, Level
<1>5. RateBound' <=> RateBound
  BY <1>1 DEF RateBound
<1> QED BY <1>2, <1>3, <1>4, <1>5 DEF BucketInv

\* A refused request leaves the bucket refilled.
LEMMA RefuseInv ==
  ASSUME BucketInv, refuse_submit_sm
  PROVE  BucketInv'
<1> USE TrafficAssumption
<1>1. /\ Rate # 0 /\ Refill < Second /\ tokens' = Refill
      /\ clock' = clock /\ refilled' = clock
      /\ admitted' = admitted /\ sent' = Append(sent, "throttled")
  BY DEF refuse_submit_sm, throttle_check_refuses, send_pdu
<1>2. BucketType /\ AtMostLevel /\ IsALevel /\ RateBound
  BY <1>1 DEF BucketInv
<1>3. sent' \in Seq(Kinds)
  BY <1>1, <1>2 DEF BucketType, Kinds
<1>4. BucketType'
  BY <1>1, <1>2, <1>3, RefillType DEF BucketType
<1>5. \A i \in DOMAIN admitted :
        /\ Level(admitted, refilled, i) \in Int
        /\ Level(admitted', refilled', i) = Level(admitted, refilled, i) + (clock - refilled) * Rate
  BY <1>1, <1>2, LevelRises
<1>6. (clock - refilled) * Rate \in Nat /\ tokens \in Nat /\ Rate * Second \in Nat
  BY <1>2 DEF BucketType
<1>7. AtMostLevel'
  BY <1>1, <1>2, <1>5, <1>6, RefillType DEF AtMostLevel
<1>8. IsALevel'
  BY <1>1, <1>2, <1>5, <1>6, RefillType DEF IsALevel
<1>9. RateBound'
  BY <1>1, <1>2 DEF RateBound
<1> QED BY <1>1, <1>4, <1>7, <1>8, <1>9 DEF BucketInv

\* An admitted request takes a token, and becomes the last of those the levels
\* count from.
LEMMA AdmitInv ==
  ASSUME BucketInv, handle_submit_sm
  PROVE  BucketInv'
<1> USE TrafficAssumption
<1> DEFINE n == Len(admitted)
           d == (clock - refilled) * Rate
<1>1. /\ clock' = clock /\ admitted' = Append(admitted, clock)
      /\ sent' = Append(sent, "accepted")
      /\ \/ Rate = 0 /\ UNCHANGED <<tokens, refilled>>
         \/ Rate # 0 /\ Refill >= Second /\ tokens' = Refill - Second /\ refilled' = clock
  BY DEF handle_submit_sm, throttle_check, send_pdu
<1>2. BucketType
  BY DEF BucketInv
<1>3. sent' \in Seq(Kinds)
  BY <1>1, <1>2 DEF BucketType, Kinds
<1>4. /\ admitted' \in Seq(Nat) /\ Len(admitted') = n + 1 /\ n \in Nat
      /\ DOMAIN admitted' = 1 .. n + 1 /\ DOMAIN admitted = 1 .. n
      /\ admitted'[n + 1] = clock
      /\ \A i \in 1 .. n : admitted'[i] = admitted[i]
  BY <1>1, <1>2 DEF BucketType
<1>5. BucketType'
  <2>1. CASE Rate = 0 /\ UNCHANGED <<tokens, refilled>>
    BY <1>1, <1>2, <1>3, <1>4, <2>1 DEF BucketType
  <2>2. CASE Refill >= Second /\ tokens' = Refill - Second /\ refilled' = clock
    <3>1. Refill \in Nat /\ Refill <= Rate * Second /\ Rate * Second \in Nat /\ Second \in Nat
      BY <1>2, RefillType
    <3>2. tokens' \in Nat /\ tokens' <= Rate * Second
      BY <2>2, <3>1
    <3> QED BY <1>1, <1>2, <1>3, <1>4, <2>2, <3>2 DEF BucketType
  <2> QED BY Zenon, <1>1, <2>1, <2>2
<1>6. CASE Rate = 0
  BY <1>5, <1>6 DEF BucketInv
<1>7. CASE Rate # 0
  <2>1. AtMostLevel /\ IsALevel /\ RateBound
    BY <1>7 DEF BucketInv
  <2>2. Refill >= Second /\ tokens' = Refill - Second /\ refilled' = clock
    BY <1>1, <1>7
  <2>3. Second \in Nat /\ tokens \in Nat /\ Rate * Second \in Nat /\ d \in Nat
    BY <1>2 DEF BucketType
  <2>4. Level(admitted', refilled', n + 1) = Rate * Second - Second
    BY Zenon, <1>1, <1>2, <2>2, LevelFalls
  <2>5. \A i \in 1 .. n :
          /\ Level(admitted, refilled, i) \in Int
          /\ Level(admitted', refilled', i) = Level(admitted, refilled, i) + d - Second
    <3> SUFFICES ASSUME NEW i \in DOMAIN admitted
                 PROVE  /\ Level(admitted, refilled, i) \in Int
                        /\ Level(admitted', refilled', i) = Level(admitted, refilled, i) + d - Second
      BY Zenon, <1>4
    <3>1. /\ Level(admitted, refilled, i) \in Int
          /\ Level(admitted, clock, i) = Level(admitted, refilled, i) + d
      BY <1>2, LevelRises
    <3>2. Level(admitted', clock, i) = Level(admitted, clock, i) - Second
      BY Zenon, <1>1, <1>2, LevelFalls
    <3> HIDE DEF d
    <3> QED BY <3>1, <3>2, <2>2, <2>3
  <2>6. /\ Refill \in Nat /\ Refill <= Rate * Second /\ Refill <= tokens + d
        /\ Refill = Rate * Second \/ Refill = tokens + d
    BY <1>2, <2>3, RefillType
  <2> HIDE DEF n, d
  <2>7. AtMostLevel'
    <3> SUFFICES ASSUME NEW i \in 1 .. n + 1
                 PROVE  tokens' <= Level(admitted', refilled', i)
      BY <1>4 DEF AtMostLevel
    <3>1. CASE i = n + 1
      BY <3>1, <2>2, <2>3, <2>4, <2>6
    <3>2. CASE i # n + 1
      <4>1. i \in 1 .. n /\ tokens <= Level(admitted, refilled, i)
        BY <3>2, <1>4, <2>1 DEF AtMostLevel
      <4> QED BY <4>1, <2>2, <2>3, <2>5, <2>6
    <3> QED BY <3>1, <3>2
  <2>8. IsALevel'
    <3>1. CASE Refill = Rate * Second
      BY <3>1, <1>4, <2>2, <2>4 DEF IsALevel
    <3>2. CASE Refill # Rate * Second
      <4>1. PICK i \in 1 .. n : tokens = Level(admitted, refilled, i)
        BY <3>2, <1>4, <2>1, <2>3, <2>6 DEF IsALevel
      <4>2. tokens' = Level(admitted', refilled', i)
        BY <3>2, <4>1, <2>2, <2>3, <2>5, <2>6
      <4>3. i \in DOMAIN admitted'
        BY <1>4
      <4> QED BY <4>2, <4>3 DEF IsALevel
    <3> QED BY <3>1, <3>2
  <2>9. RateBound'
    <3> SUFFICES ASSUME NEW i \in 1 .. n + 1, NEW j \in 1 .. n + 1, i <= j
                 PROVE  (j - i + 1) * Second <= Rate * Second + Rate * (admitted'[j] - admitted'[i])
      BY <1>4 DEF RateBound
    <3>1. CASE j # n + 1
      <4>1. i \in 1 .. n /\ j \in 1 .. n
        BY <3>1, <1>4
      <4> QED BY Zenon, <4>1, <1>4, <1>7, <2>1 DEF RateBound
    <3>2. CASE j = n + 1
      <4> DEFINE m == (j - i + 1) * Second
                 r == Rate * (admitted'[j] - admitted'[i])
      <4>1. tokens' \in Nat /\ tokens' <= Level(admitted', refilled', i)
        BY <1>4, <1>5, <2>7 DEF AtMostLevel, BucketType
      <4>2. Level(admitted', refilled', i) = Rate * Second + r - m
        BY <3>2, <1>4, <2>2 DEF Level
      <4>3. m \in Int /\ r \in Int
        <5>1. j - i + 1 \in Int /\ admitted'[j] \in Int /\ admitted'[i] \in Int
          BY <1>4
        <5> QED BY <5>1
      <4> HIDE DEF m, r
      <4>4. m <= Rate * Second + r
        BY <4>1, <4>2, <4>3, <2>3
      <4> QED BY <4>4 DEF m, r
    <3> QED BY <3>1, <3>2
  <2> QED BY <1>5, <2>7, <2>8, <2>9 DEF BucketInv
<1> QED BY <1>6, <1>7

LEMMA BucketStep ==
  ASSUME BucketInv, [Next]_vars
  PROVE  BucketInv'
<1>0. BucketType
  BY DEF BucketInv
<1>1. CASE Others
  BY <1>0, <1>1, OthersKeep, KeepInv
<1>2. CASE UNCHANGED vars
  <2>1. UNCHANGED bucketVars /\ sent' \in Seq(Kinds)
    BY <1>0, <1>2 DEF vars, BucketType
  <2> QED BY <2>1, KeepInv
<1> QED BY <1>1, <1>2, StepKinds, TickInv, AdmitInv, RefuseInv

LEMMA BucketAlways == Spec => []BucketInv
<1>1. Init => BucketInv
  <2>1. Rate * Second \in Nat
    BY TrafficAssumption
  <2> QED BY <2>1 DEF Init, BucketInv, BucketType, AtMostLevel, IsALevel, RateBound
<1> QED BY <1>1, BucketStep, PTL DEF Spec

\* throttle_check never admits more in any stretch of time than a full bucket and
\* what the time refills, whatever the rate, the clock's resolution and the load.
THEOREM RateKept == Spec => []RateBound
<1>1. BucketInv => RateBound
  BY DEF BucketInv, RateBound
<1> QED BY <1>1, BucketAlways, PTL

\* It refuses a request only if admitting it would break that bound: the bucket
\* holds exactly what the bound leaves over.
THEOREM RefusesExactly == Spec => RefusesOnlyOverRate
<1>1. ASSUME BucketInv, [Next]_vars, Len(sent') > Len(sent), sent'[Len(sent')] = "throttled"
      PROVE  OverRateNow
  <2>1. BucketType /\ Len(sent) \in Nat
    BY <1>1 DEF BucketInv, BucketType
  <2>2. ~ Others
    BY <1>1, <2>1, OthersKeep DEF BucketType, Kinds
  <2>3. ~ handle_submit_sm
    <3>1. handle_submit_sm => sent' = Append(sent, "accepted")
      BY DEF handle_submit_sm, send_pdu
    <3> QED BY <3>1, <1>1, <2>1 DEF BucketType, Kinds
  <2>4. ~ Tick /\ ~ UNCHANGED vars
    BY <1>1, <2>1 DEF Tick, vars
  <2>5. Rate # 0 /\ Refill < Second
    BY Zenon, <1>1, <2>2, <2>3, <2>4, StepKinds DEF refuse_submit_sm, throttle_check_refuses
  <2> DEFINE d == (clock - refilled) * Rate
  <2>6. /\ Second \in Nat /\ tokens \in Nat /\ d \in Nat
        /\ Rate * Second \in Nat /\ Second <= Rate * Second
    BY <2>1, <2>5, TrafficAssumption DEF BucketType
  <2>7. Refill = tokens + d /\ tokens # Rate * Second
    BY <2>1, <2>5, <2>6, RefillType
  <2>8. PICK i \in DOMAIN admitted : tokens = Level(admitted, refilled, i)
    BY <1>1, <2>5, <2>7 DEF BucketInv, IsALevel
  <2>9. Level(admitted, clock, i) < Second
    BY <2>1, <2>5, <2>6, <2>7, <2>8, LevelRises
  <2> HIDE DEF d
  <2> DEFINE m == Len(admitted) - i + 1
             r == Rate * (clock - admitted[i])
  <2>10. m \in Int /\ r \in Int /\ m * Second \in Int /\ (m + 1) * Second = m * Second + Second
    <3>1. m \in Int /\ admitted[i] \in Int /\ clock \in Int /\ Rate \in Int
      BY <2>1, TrafficAssumption DEF BucketType
    <3>2. r \in Int
      BY <3>1
    <3> QED BY <3>1, <3>2, <2>6
  <2>11. Level(admitted, clock, i) = Rate * Second + r - m * Second
    BY DEF Level
  <2>12. Len(admitted) - i + 2 = m + 1
    BY <2>1 DEF BucketType
  <2>13. (m + 1) * Second > Rate * Second + r
    <3> HIDE DEF m, r
    <3> QED BY <2>6, <2>9, <2>10, <2>11
  <2> QED BY <2>12, <2>13 DEF OverRateNow
<1>2. BucketInv /\ [Next]_vars =>
        [(Len(sent') > Len(sent) /\ sent'[Len(sent')] = "throttled") => OverRateNow]_vars
  BY <1>1
<1> QED BY <1>2, BucketAlways, PTL DEF Spec, RefusesOnlyOverRate

-----------------------------------------------------------------------------
(* What is written.                                                         *)

WriteType == [pdu : Nat, done : Nat]

PieceType == [pdu : Nat, n : Nat]

\* The pieces of PDU k among those of wr.
PiecesOf(wr, k) == {i \in DOMAIN wr : wr[i].pdu = k}

Count(wr, k) == Cardinality(PiecesOf(wr, k))

\* The pieces of each PDU are numbered from 1, and follow in their order.
Numbered(wr) ==
  \A i \in DOMAIN wr : wr[i].n = Cardinality({j \in PiecesOf(wr, wr[i].pdu) : j <= i})

\* PDUs start in their order, and none of those that have is after k.
Before(wr, k) == \A i \in DOMAIN wr : wr[i].n = 1 => wr[i].pdu < k

InOrder(wr) ==
  \A i, j \in DOMAIN wr : i < j /\ wr[i].n = 1 /\ wr[j].n = 1 => wr[i].pdu < wr[j].pdu

WireOk(s, wr) ==
  /\ wr \in Seq(PieceType) /\ \A i \in DOMAIN wr : wr[i].pdu \in 1 .. s
  /\ Numbered(wr) /\ InOrder(wr)

\* w is what is left to do for its PDU.
Left(s, wr, w) == w.pdu \in 1 .. s /\ w.done < PduLen /\ w.done = Count(wr, w.pdu)

\* The writes that wait: those that have not begun are in the order of their PDUs.
WaitingOk(s, wr, wt) ==
  /\ wt \in Seq(WriteType) /\ \A i \in DOMAIN wt : Left(s, wr, wt[i])
  /\ \A i, j \in DOMAIN wt : wt[i].pdu = wt[j].pdu => i = j
  /\ \A i \in DOMAIN wt : wt[i].done = 0 => Before(wr, wt[i].pdu)
  /\ \A i, j \in DOMAIN wt : i < j /\ wt[i].done = 0 /\ wt[j].done = 0 => wt[i].pdu < wt[j].pdu

\* The writes that were cut short have begun.
ReadyOk(s, wr, rd) ==
  /\ rd \in Seq(WriteType)
  /\ \A i \in DOMAIN rd : rd[i] = Request \/ (Left(s, wr, rd[i]) /\ rd[i].done > 0)
  /\ \A i, j \in DOMAIN rd : rd[i].pdu = rd[j].pdu => i = j \/ rd[i] = Request

\* No PDU is written twice at the same time.
Apart(wt, rd) == \A i \in DOMAIN wt, j \in DOMAIN rd : wt[i].pdu # rd[j].pdu

PoolOk(s, wr, wt, rd) ==
  WireOk(s, wr) /\ WaitingOk(s, wr, wt) /\ ReadyOk(s, wr, rd) /\ Apart(wt, rd)

\* The PDUs that are being written.
Pdus(t) == {t[i].pdu : i \in DOMAIN t}

Busy(wt, rd) == Pdus(wt) \cup (Pdus(rd) \ {0})

\* None is forgotten.
NoneLost(s, wr, B) == \A k \in 1 .. s : Count(wr, k) = PduLen \/ k \in B

WriteInv ==
  /\ room \in Nat
  /\ PoolOk(Len(sent), wire, waiting, ready)
  /\ open => NoneLost(Len(sent), wire, Busy(waiting, ready))

\* u is wr and the next m pieces of w.
JoinedTo(wr, w, m, u) ==
  /\ u \in Seq(PieceType) /\ Len(u) = Len(wr) + m
  /\ \A i \in DOMAIN wr : i \in DOMAIN u /\ u[i] = wr[i]
  /\ \A i \in 1 .. m : /\ Len(wr) + i \in DOMAIN u
                       /\ u[Len(wr) + i].pdu = w.pdu /\ u[Len(wr) + i].n = w.done + i

LEMMA Joined ==
  ASSUME NEW wr \in Seq(PieceType), NEW w \in WriteType, NEW m \in Nat
  PROVE  JoinedTo(wr, w, m, wr \o Pieces(w, m))
<1> DEFINE p == Pieces(w, m)
<1>1. w.pdu \in Nat /\ w.done \in Nat
  BY DEF WriteType
<1>2. p \in Seq(PieceType) /\ Len(p) = m /\ \A i \in 1 .. m : p[i] = [pdu |-> w.pdu, n |-> w.done + i]
  <2>1. p = [i \in 1 .. m |-> [pdu |-> w.pdu, n |-> w.done + i]]
    BY DEF Pieces
  <2>2. \A i \in 1 .. m : [pdu |-> w.pdu, n |-> w.done + i] \in PieceType
    BY <1>1 DEF PieceType
  <2> HIDE DEF p
  <2> QED BY <2>1, <2>2
<1> HIDE DEF p
<1>3. /\ wr \o p \in Seq(PieceType) /\ Len(wr \o p) = Len(wr) + m
      /\ \A i \in DOMAIN wr : i \in DOMAIN (wr \o p) /\ (wr \o p)[i] = wr[i]
      /\ \A i \in 1 .. m : Len(wr) + i \in DOMAIN (wr \o p) /\ (wr \o p)[Len(wr) + i] = p[i]
  <2>1. DOMAIN p = 1 .. m
    BY <1>2
  <2>2. /\ wr \o p \in Seq(PieceType) /\ Len(wr \o p) = Len(wr) + Len(p)
        /\ \A i \in DOMAIN wr : i \in DOMAIN (wr \o p) /\ (wr \o p)[i] = wr[i]
        /\ \A i \in DOMAIN p : Len(wr) + i \in DOMAIN (wr \o p) /\ (wr \o p)[Len(wr) + i] = p[i]
    <3>1. p \in Seq(PieceType)
      BY <1>2
    <3> QED BY <3>1
  <2> QED BY Zenon, <1>2, <2>1, <2>2
<1>4. \A i \in 1 .. m : (wr \o p)[Len(wr) + i].pdu = w.pdu /\ (wr \o p)[Len(wr) + i].n = w.done + i
  <2> SUFFICES ASSUME NEW i \in 1 .. m
               PROVE  (wr \o p)[Len(wr) + i].pdu = w.pdu /\ (wr \o p)[Len(wr) + i].n = w.done + i
    BY Zenon
  <2> DEFINE x == (wr \o p)[Len(wr) + i]
  <2>1. x = [pdu |-> w.pdu, n |-> w.done + i]
    BY Zenon, <1>2, <1>3
  <2> HIDE DEF x
  <2>2. x.pdu = w.pdu /\ x.n = w.done + i
    BY <2>1
  <2> QED BY Zenon, <2>2 DEF x
<1>5. JoinedTo(wr, w, m, wr \o p)
  BY Zenon, <1>3, <1>4 DEF JoinedTo
<1> QED BY Zenon, <1>5 DEF p

\* How many of n pieces belong to a PDU.
LEMMA CountType ==
  ASSUME NEW wr \in Seq(PieceType), NEW k
  PROVE  /\ IsFiniteSet(PiecesOf(wr, k)) /\ Count(wr, k) \in Nat
         /\ PiecesOf(wr, k) \subseteq 1 .. Len(wr)
         /\ Count(wr, k) = 0 <=> PiecesOf(wr, k) = {}
<1>1. DOMAIN wr = 1 .. Len(wr) /\ Len(wr) \in Nat
  OBVIOUS
<1>2. PiecesOf(wr, k) \in SUBSET (1 .. Len(wr))
  BY Zenon, <1>1 DEF PiecesOf
<1>3. IsFiniteSet(1 .. Len(wr))
  BY <1>1, FS_Interval
<1>4. IsFiniteSet(PiecesOf(wr, k))
  BY Zenon, <1>2, <1>3, FS_Subset
<1> HIDE DEF PiecesOf
<1> QED BY <1>2, <1>4, FS_CardinalityType, FS_EmptySet DEF Count

\* A set of positions up to l, with those of the next m.
LEMMA WithNext ==
  ASSUME NEW S, IsFiniteSet(S), NEW l \in Nat, NEW m \in Nat, S \subseteq 1 .. l
  PROVE  /\ Cardinality(S \cup (l + 1 .. l + m)) = Cardinality(S) + m
<1> DEFINE T == l + 1 .. l + m
<1>1. IsFiniteSet(T) /\ Cardinality(T) = m
  BY FS_Interval
<1>2. S \cap T = {}
  OBVIOUS
<1>3. Cardinality(S \cap T) = 0
  BY <1>2, FS_EmptySet
<1> HIDE DEF T
<1>4. Cardinality(S \cup T) = Cardinality(S) + Cardinality(T) - Cardinality(S \cap T)
  BY <1>1, FS_Union
<1>5. Cardinality(S) \in Nat
  BY FS_CardinalityType
<1>6. Cardinality(S \cup T) = Cardinality(S) + m
  BY <1>1, <1>3, <1>4, <1>5
<1> QED BY <1>6 DEF T

LEMMA JoinedPieces ==
  ASSUME NEW wr \in Seq(PieceType), NEW w \in WriteType, NEW m \in Nat
  PROVE  /\ PiecesOf(wr \o Pieces(w, m), w.pdu) =
              PiecesOf(wr, w.pdu) \cup (Len(wr) + 1 .. Len(wr) + m)
         /\ \A k : k # w.pdu => PiecesOf(wr \o Pieces(w, m), k) = PiecesOf(wr, k)
<1> DEFINE u == wr \o Pieces(w, m)
           l == Len(wr)
<1>1. /\ u \in Seq(PieceType) /\ Len(u) = l + m /\ l \in Nat /\ DOMAIN wr = 1 .. l
      /\ \A i \in DOMAIN wr : i \in DOMAIN u /\ u[i] = wr[i]
      /\ \A i \in 1 .. m : l + i \in DOMAIN u /\ u[l + i].pdu = w.pdu
  <2>1. JoinedTo(wr, w, m, u) /\ l \in Nat /\ DOMAIN wr = 1 .. l
    BY Joined
  <2> HIDE DEF u
  <2> QED BY Zenon, <2>1 DEF JoinedTo
<1> HIDE DEF u, l
<1>2. \A i \in DOMAIN u : i \in DOMAIN wr \/ (i \in l + 1 .. l + m /\ u[i].pdu = w.pdu)
  <2> SUFFICES ASSUME NEW i \in DOMAIN u, i \notin DOMAIN wr
               PROVE  i \in l + 1 .. l + m /\ u[i].pdu = w.pdu
    OBVIOUS
  <2>1. i - l \in 1 .. m /\ l + (i - l) = i /\ i \in l + 1 .. l + m
    BY <1>1
  <2> QED BY Zenon, <1>1, <2>1
<1>3. \A i \in l + 1 .. l + m : i \in DOMAIN u /\ u[i].pdu = w.pdu
  <2> SUFFICES ASSUME NEW i \in l + 1 .. l + m PROVE i \in DOMAIN u /\ u[i].pdu = w.pdu
    OBVIOUS
  <2>1. i - l \in 1 .. m /\ l + (i - l) = i
    BY <1>1
  <2> QED BY Zenon, <1>1, <2>1
<1>4. PiecesOf(u, w.pdu) = PiecesOf(wr, w.pdu) \cup (l + 1 .. l + m)
  BY Zenon, <1>1, <1>2, <1>3 DEF PiecesOf
<1>5. ASSUME NEW k, k # w.pdu PROVE PiecesOf(u, k) = PiecesOf(wr, k)
  BY Zenon, <1>1, <1>2, <1>5 DEF PiecesOf
<1> QED BY Zenon, <1>4, <1>5 DEF u, l

\* The pieces that join the wire are numbered on, and begin a PDU only if nothing of
\* it was there.
WroteOn(s, wr, w, m, u) ==
  /\ WireOk(s, u) /\ Count(u, w.pdu) = w.done + m
  /\ \A k \in Nat : k # w.pdu => Count(u, k) = Count(wr, k)
  /\ \A k \in Nat : Before(wr, k) /\ (w.done = 0 => w.pdu < k) => Before(u, k)

LEMMA JoinedWire ==
  ASSUME NEW s \in Nat, NEW wr, WireOk(s, wr), NEW w \in WriteType, NEW m \in Nat,
         w.pdu \in 1 .. s, w.done = Count(wr, w.pdu), w.done = 0 => Before(wr, w.pdu)
  PROVE  WroteOn(s, wr, w, m, wr \o Pieces(w, m))
<1> DEFINE u == wr \o Pieces(w, m)
           l == Len(wr)
           S == PiecesOf(wr, w.pdu)
<1>1. wr \in Seq(PieceType) /\ l \in Nat /\ DOMAIN wr = 1 .. l
  BY DEF WireOk
<1>2. /\ u \in Seq(PieceType) /\ Len(u) = l + m
      /\ \A i \in DOMAIN wr : i \in DOMAIN u /\ u[i] = wr[i]
      /\ \A i \in 1 .. m : l + i \in DOMAIN u /\ u[l + i].pdu = w.pdu /\ u[l + i].n = w.done + i
  <2>1. JoinedTo(wr, w, m, u)
    BY Zenon, <1>1, Joined
  <2> HIDE DEF u
  <2> QED BY Zenon, <2>1 DEF JoinedTo
<1>3. /\ PiecesOf(u, w.pdu) = S \cup (l + 1 .. l + m)
      /\ \A k : k # w.pdu => PiecesOf(u, k) = PiecesOf(wr, k)
  BY Zenon, <1>1, JoinedPieces
<1>4. IsFiniteSet(S) /\ S \subseteq 1 .. l /\ Cardinality(S) = w.done /\ w.done \in Nat /\ w.pdu \in Nat
  <2>1. w.done \in Nat /\ w.pdu \in Nat
    BY DEF WriteType
  <2> QED BY Zenon, <1>1, <2>1, CountType DEF Count
<1> HIDE DEF u, l, S
<1>5. \A i \in DOMAIN u : \/ i \in DOMAIN wr /\ u[i] = wr[i]
                          \/ i - l \in 1 .. m /\ u[i].pdu = w.pdu /\ u[i].n = w.done + (i - l)
  <2> SUFFICES ASSUME NEW i \in DOMAIN u, i \notin DOMAIN wr
               PROVE  i - l \in 1 .. m /\ u[i].pdu = w.pdu /\ u[i].n = w.done + (i - l)
    BY Zenon, <1>2
  <2>1. i - l \in 1 .. m /\ l + (i - l) = i
    BY <1>1, <1>2
  <2> QED BY Zenon, <1>2, <2>1
<1>6. \A i \in DOMAIN u : u[i].n = 1 => \/ i \in DOMAIN wr /\ u[i] = wr[i]
                                        \/ i = l + 1 /\ u[i].pdu = w.pdu /\ w.done = 0
  <2> SUFFICES ASSUME NEW i \in DOMAIN u, u[i].n = 1, ~(i \in DOMAIN wr /\ u[i] = wr[i])
               PROVE  i = l + 1 /\ u[i].pdu = w.pdu /\ w.done = 0
    BY Zenon
  <2>1. i - l \in 1 .. m /\ u[i].pdu = w.pdu /\ w.done + (i - l) = 1 /\ i \in Int
    <3>1. i \in Int
      BY <1>2
    <3> QED BY Zenon, <1>5, <3>1
  <2> QED BY <1>1, <1>4, <2>1
<1>7. Count(u, w.pdu) = w.done + m
  <2>1. Cardinality(S \cup (l + 1 .. l + m)) = Cardinality(S) + m
    BY Zenon, <1>1, <1>4, WithNext
  <2> QED BY Zenon, <1>3, <1>4, <2>1 DEF Count
<1>8. \A k \in Nat : k # w.pdu => Count(u, k) = Count(wr, k)
  BY Zenon, <1>3 DEF Count
<1>9. ASSUME NEW k \in Nat, Before(wr, k), w.done = 0 => w.pdu < k PROVE Before(u, k)
  <2> SUFFICES ASSUME NEW i \in DOMAIN u, u[i].n = 1 PROVE u[i].pdu < k
    BY Zenon DEF Before
  <2>1. CASE i \in DOMAIN wr /\ u[i] = wr[i]
    BY Zenon, <1>9, <2>1 DEF Before
  <2>2. CASE u[i].pdu = w.pdu /\ w.done = 0
    BY Zenon, <1>9, <2>2
  <2> QED BY Zenon, <1>6, <2>1, <2>2
<1>10. InOrder(u)
  <2> SUFFICES ASSUME NEW i \in DOMAIN u, NEW j \in DOMAIN u, i < j, u[i].n = 1, u[j].n = 1
               PROVE  u[i].pdu < u[j].pdu
    BY Zenon DEF InOrder
  <2>1. CASE j \in DOMAIN wr /\ u[j] = wr[j]
    <3>1. i \in DOMAIN wr
      BY <1>1, <1>2, <2>1
    <3>2. u[i] = wr[i]
      BY Zenon, <1>2, <3>1
    <3> QED BY Zenon, <2>1, <3>1, <3>2 DEF WireOk, InOrder
  <2>2. CASE ~(j \in DOMAIN wr /\ u[j] = wr[j])
    <3>1. j = l + 1 /\ u[j].pdu = w.pdu /\ w.done = 0
      BY Zenon, <1>6, <2>2
    <3>2. i \in DOMAIN wr
      BY <1>1, <1>2, <3>1
    <3>3. u[i] = wr[i]
      BY Zenon, <1>2, <3>2
    <3> QED BY Zenon, <3>1, <3>2, <3>3 DEF Before
  <2> QED BY <2>1, <2>2
<1>11. \A i \in DOMAIN u : u[i].pdu \in 1 .. s
  BY Zenon, <1>5 DEF WireOk
<1>12. Numbered(u)
  <2> SUFFICES ASSUME NEW i \in DOMAIN u
               PROVE  u[i].n = Cardinality({j \in PiecesOf(u, u[i].pdu) : j <= i})
    BY Zenon DEF Numbered
  <2>1. CASE i \in DOMAIN wr
    <3>1. u[i] = wr[i] /\ i <= l /\ i \in Nat
      BY <1>1, <1>2, <2>1
    <3>2. {j \in PiecesOf(u, wr[i].pdu) : j <= i} = {j \in PiecesOf(wr, wr[i].pdu) : j <= i}
      <4>1. CASE wr[i].pdu = w.pdu
        <5>1. \A j \in l + 1 .. l + m : ~(j <= i)
          BY <1>1, <3>1
        <5> QED BY Zenon, <1>3, <4>1, <5>1 DEF S
      <4>2. CASE wr[i].pdu # w.pdu
        BY Zenon, <1>3, <4>2
      <4> QED BY Zenon, <4>1, <4>2
    <3> QED BY Zenon, <2>1, <3>1, <3>2 DEF WireOk, Numbered
  <2>2. CASE i \notin DOMAIN wr
    <3>1. i - l \in 1 .. m /\ u[i].pdu = w.pdu /\ u[i].n = w.done + (i - l) /\ i \in Int
      <4>1. i \in Int
        BY <1>2
      <4> QED BY Zenon, <1>5, <2>2, <4>1
    <3>2. {j \in S \cup (l + 1 .. l + m) : j <= i} = S \cup (l + 1 .. l + (i - l))
      <4>1. \A j \in S : j <= i
        BY <1>1, <1>4, <3>1
      <4>2. \A j \in Int : j \in l + 1 .. l + (i - l) <=> j \in l + 1 .. l + m /\ j <= i
        BY <1>1, <3>1
      <4>3. \A j : j \in l + 1 .. l + m \/ j \in l + 1 .. l + (i - l) => j \in Int
        BY <1>1, <3>1
      <4> QED BY Zenon, <4>1, <4>2, <4>3
    <3>3. Cardinality(S \cup (l + 1 .. l + (i - l))) = Cardinality(S) + (i - l)
      <4>1. i - l \in Nat
        BY <3>1
      <4> QED BY Zenon, <1>1, <1>4, <4>1, WithNext
    <3> QED BY Zenon, <1>3, <1>4, <3>1, <3>2, <3>3
  <2> QED BY <2>1, <2>2
<1>13. WireOk(s, u)
  BY Zenon, <1>2, <1>10, <1>11, <1>12 DEF WireOk
<1>14. WroteOn(s, wr, w, m, u)
  BY Zenon, <1>7, <1>8, <1>9, <1>13 DEF WroteOn
<1> QED BY Zenon, <1>14 DEF u

-----------------------------------------------------------------------------
(* The writes in progress.                                                  *)

\* w can be taken up: nobody else is at its PDU.
Free(s, wr, wt, rd, w) ==
  /\ w \in WriteType /\ Left(s, wr, w) /\ w.pdu \notin Busy(wt, rd)
  /\ w.done = 0 => Before(wr, w.pdu)

\* If it has not begun, its turn is before those that wait, or after them.
First(wt, w) == w.done = 0 => \A i \in DOMAIN wt : wt[i].done = 0 => w.pdu < wt[i].pdu
Last(wt, w)  == w.done = 0 => \A i \in DOMAIN wt : wt[i].done = 0 => wt[i].pdu < w.pdu

Appended(s, e, t) ==
  /\ t \in Seq(WriteType) /\ Len(s) + 1 \in DOMAIN t /\ t[Len(s) + 1] = e
  /\ \A i \in DOMAIN s : i \in DOMAIN t /\ t[i] = s[i] /\ i < Len(s) + 1
  /\ \A i \in DOMAIN t : i \in DOMAIN s \/ i = Len(s) + 1

LEMMA AppendFacts ==
  ASSUME NEW s \in Seq(WriteType), NEW e \in WriteType
  PROVE  Appended(s, e, Append(s, e))
BY DEF Appended

\* t is s without its head h.
Shifted(s, h, t) ==
  /\ t \in Seq(WriteType) /\ 1 \in DOMAIN s /\ s[1] = h
  /\ \A i \in DOMAIN t : i + 1 \in DOMAIN s /\ t[i] = s[i + 1] /\ 1 < i + 1
  /\ \A i \in DOMAIN s : i = 1 \/ (i - 1 \in DOMAIN t /\ t[i - 1] = s[i])
  /\ \A i, j \in DOMAIN t : (i < j => i + 1 < j + 1) /\ (i + 1 = j + 1 => i = j)

LEMMA TailFacts ==
  ASSUME NEW s \in Seq(WriteType), s # <<>>
  PROVE  Shifted(s, Head(s), Tail(s))
<1> DEFINE t == Tail(s)
<1>1. t \in Seq(WriteType) /\ Len(t) = Len(s) - 1 /\ Len(s) \in Nat \ {0} /\ Head(s) = s[1]
  OBVIOUS
<1>2. \A i \in 1 .. Len(t) : t[i] = s[i + 1]
  OBVIOUS
<1>3. DOMAIN s = 1 .. Len(s) /\ DOMAIN t = 1 .. Len(t)
  BY <1>1
<1> HIDE DEF t
<1>4. \A i \in DOMAIN s : i = 1 \/ (i - 1 \in DOMAIN t /\ t[i - 1] = s[i])
  <2> SUFFICES ASSUME NEW i \in DOMAIN s, i # 1 PROVE i - 1 \in DOMAIN t /\ t[i - 1] = s[i]
    BY Zenon
  <2>1. i - 1 \in 1 .. Len(t) /\ (i - 1) + 1 = i
    BY <1>1, <1>3
  <2>2. t[i - 1] = s[(i - 1) + 1]
    BY Zenon, <1>2, <2>1
  <2> QED BY Zenon, <1>3, <2>1, <2>2
<1>5. \A i \in DOMAIN t : i + 1 \in DOMAIN s /\ t[i] = s[i + 1] /\ 1 < i + 1
  BY <1>1, <1>2, <1>3
<1>6. \A i, j \in DOMAIN t : (i < j => i + 1 < j + 1) /\ (i + 1 = j + 1 => i = j)
  BY <1>1, <1>3
<1>7. 1 \in DOMAIN s
  BY <1>1, <1>3
<1>8. Shifted(s, Head(s), t)
  BY Zenon, <1>1, <1>4, <1>5, <1>6, <1>7 DEF Shifted
<1> QED BY Zenon, <1>8 DEF t

LEMMA BusyFacts ==
  ASSUME NEW wt, NEW rd, NEW k
  PROVE  k \in Busy(wt, rd) <=> \/ \E i \in DOMAIN wt : wt[i].pdu = k
                                \/ k # 0 /\ \E i \in DOMAIN rd : rd[i].pdu = k
BY Zenon DEF Busy, Pdus

LEMMA BusyAppend ==
  ASSUME NEW s \in Seq(WriteType), NEW e \in WriteType, NEW o
  PROVE  /\ Busy(Append(s, e), o) = Busy(s, o) \cup {e.pdu}
         /\ Busy(o, Append(s, e)) = Busy(o, s) \cup ({e.pdu} \ {0})
<1> DEFINE t == Append(s, e)
<1>1. Appended(s, e, t)
  BY Zenon, AppendFacts
<1> HIDE DEF t
<1>2. Pdus(t) = Pdus(s) \cup {e.pdu}
  BY Zenon, <1>1 DEF Appended, Pdus
<1> QED BY Zenon, <1>2 DEF Busy, t

LEMMA BusyTail ==
  ASSUME NEW s \in Seq(WriteType), s # <<>>, NEW o
  PROVE  /\ Busy(s, o) = Busy(Tail(s), o) \cup {Head(s).pdu}
         /\ Busy(o, s) = Busy(o, Tail(s)) \cup ({Head(s).pdu} \ {0})
<1> DEFINE t == Tail(s)
           h == Head(s)
<1>1. Shifted(s, h, t)
  BY Zenon, TailFacts
<1> HIDE DEF t, h
<1>2. Pdus(s) = Pdus(t) \cup {h.pdu}
  <2>1. \A i \in DOMAIN s : s[i].pdu = h.pdu \/ \E j \in DOMAIN t : s[i].pdu = t[j].pdu
    BY Zenon, <1>1 DEF Shifted
  <2>2. \A j \in DOMAIN t : \E i \in DOMAIN s : t[j].pdu = s[i].pdu
    BY Zenon, <1>1 DEF Shifted
  <2>3. \E i \in DOMAIN s : h.pdu = s[i].pdu
    BY Zenon, <1>1 DEF Shifted
  <2>4. \A r, k : k \in Pdus(r) <=> \E i \in DOMAIN r : k = r[i].pdu
    BY Zenon DEF Pdus
  <2>5. Pdus(s) \subseteq Pdus(t) \cup {h.pdu}
    BY <2>1, <2>4
  <2>6. Pdus(t) \subseteq Pdus(s)
    BY <2>2, <2>4
  <2>7. h.pdu \in Pdus(s)
    BY Zenon, <2>3, <2>4
  <2> QED BY Zenon, <2>5, <2>6, <2>7
<1> QED BY Zenon, <1>2 DEF Busy, t, h

\* Some more of w is written: the writes of the other PDUs are as they were.
LEMMA PutPieces ==
  ASSUME NEW s \in Nat, NEW wr, NEW wt, NEW rd, PoolOk(s, wr, wt, rd),
         NEW w, Free(s, wr, wt, rd, w), First(wt, w), NEW m \in Nat
  PROVE  /\ PoolOk(s, wr \o Pieces(w, m), wt, rd)
         /\ Count(wr \o Pieces(w, m), w.pdu) = w.done + m
<1> DEFINE u == wr \o Pieces(w, m)
<1>1. /\ w \in WriteType /\ w.pdu \in 1 .. s /\ w.pdu \in Nat /\ w.done = Count(wr, w.pdu)
      /\ w.done = 0 => Before(wr, w.pdu)
  BY Zenon DEF Free, Left, WriteType
<1>2. /\ WireOk(s, u) /\ Count(u, w.pdu) = w.done + m
      /\ \A k \in Nat : k # w.pdu => Count(u, k) = Count(wr, k)
      /\ \A k \in Nat : Before(wr, k) /\ (w.done = 0 => w.pdu < k) => Before(u, k)
  <2>1. WireOk(s, wr)
    BY Zenon DEF PoolOk
  <2>2. WroteOn(s, wr, w, m, u)
    BY Zenon, <1>1, <2>1, JoinedWire
  <2> HIDE DEF u
  <2> QED BY Zenon, <2>2 DEF WroteOn
<1> HIDE DEF u
<1>3. ASSUME NEW v, Left(s, wr, v), v.pdu # w.pdu PROVE Left(s, u, v)
  <2>1. v.pdu \in Nat
    BY <1>3 DEF Left
  <2> QED BY Zenon, <1>2, <1>3, <2>1 DEF Left
<1>4. /\ \A i \in DOMAIN wt : wt[i].pdu # w.pdu
      /\ \A i \in DOMAIN rd : rd[i] = Request \/ rd[i].pdu # w.pdu
  <2>1. w.pdu # 0
    BY <1>1
  <2> QED BY Zenon, <2>1, BusyFacts DEF Free
<1>5. WaitingOk(s, u, wt)
  <2>1. WaitingOk(s, wr, wt)
    BY Zenon DEF PoolOk
  <2>2. ASSUME NEW i \in DOMAIN wt, wt[i].done = 0 PROVE Before(u, wt[i].pdu)
    <3>1. wt[i] \in WriteType
      BY <2>1 DEF WaitingOk
    <3>2. wt[i].pdu \in Nat
      BY <3>1 DEF WriteType
    <3>3. Before(wr, wt[i].pdu)
      BY Zenon, <2>1, <2>2 DEF WaitingOk
    <3> QED BY Zenon, <1>2, <2>2, <3>2, <3>3 DEF First
  <2>3. \A i \in DOMAIN wt : Left(s, u, wt[i])
    BY Zenon, <1>3, <1>4, <2>1 DEF WaitingOk
  <2> QED BY Zenon, <2>1, <2>2, <2>3 DEF WaitingOk
<1>6. ReadyOk(s, u, rd)
  <2>1. ReadyOk(s, wr, rd)
    BY Zenon DEF PoolOk
  <2> QED BY Zenon, <1>3, <1>4, <2>1 DEF ReadyOk
<1> QED BY Zenon, <1>2, <1>5, <1>6 DEF PoolOk, u

\* The rest of a write that was cut short joins the queue.
LEMMA PutReady ==
  ASSUME NEW s \in Nat, NEW wr, NEW wt, NEW rd, PoolOk(s, wr, wt, rd),
         NEW w \in WriteType, Left(s, wr, w), w.done > 0, w.pdu \notin Busy(wt, rd)
  PROVE  PoolOk(s, wr, wt, Append(rd, w))
<1> DEFINE t == Append(rd, w)
<1>1. rd \in Seq(WriteType) /\ ReadyOk(s, wr, rd) /\ Apart(wt, rd)
  BY Zenon DEF PoolOk, ReadyOk
<1>2. Appended(rd, w, t)
  BY Zenon, <1>1, AppendFacts
<1> HIDE DEF t
<1>3. /\ \A i \in DOMAIN wt : wt[i].pdu # w.pdu
      /\ \A i \in DOMAIN rd : rd[i].pdu # w.pdu
  <2>1. w.pdu # 0
    BY DEF Left
  <2> QED BY Zenon, <2>1, BusyFacts
<1>4. ReadyOk(s, wr, t)
  <2>1. \A i \in DOMAIN t : t[i] = Request \/ (Left(s, wr, t[i]) /\ t[i].done > 0)
    BY Zenon, <1>1, <1>2 DEF Appended, ReadyOk
  <2>2. ASSUME NEW i \in DOMAIN t, NEW j \in DOMAIN t, t[i].pdu = t[j].pdu
        PROVE  i = j \/ t[i] = Request
    <3>1. CASE i \in DOMAIN rd /\ j \in DOMAIN rd
      BY Zenon, <1>1, <1>2, <2>2, <3>1 DEF Appended, ReadyOk
    <3>2. CASE i \notin DOMAIN rd
      BY Zenon, <1>2, <1>3, <2>2, <3>2 DEF Appended
    <3>3. CASE j \notin DOMAIN rd
      BY Zenon, <1>2, <1>3, <2>2, <3>3 DEF Appended
    <3> QED BY Zenon, <3>1, <3>2, <3>3
  <2> QED BY Zenon, <1>2, <2>1, <2>2 DEF ReadyOk, Appended
<1>5. Apart(wt, t)
  BY Zenon, <1>1, <1>2, <1>3 DEF Appended, Apart
<1> QED BY Zenon, <1>4, <1>5 DEF PoolOk, t

\* The writes that wait and the queue, which have to do with the PDUs of B.
PoolIs(s, wr, wt, rd, B) == PoolOk(s, wr, wt, rd) /\ Busy(wt, rd) = B

\* A request joins the queue.
LEMMA PutRequest ==
  ASSUME NEW s \in Nat, NEW wr, NEW wt, NEW rd, PoolOk(s, wr, wt, rd)
  PROVE  PoolIs(s, wr, wt, Append(rd, Request), Busy(wt, rd))
<1> DEFINE t == Append(rd, Request)
<1>1. rd \in Seq(WriteType) /\ ReadyOk(s, wr, rd) /\ Apart(wt, rd) /\ WaitingOk(s, wr, wt)
  BY Zenon DEF PoolOk, ReadyOk
<1>2. Request \in WriteType /\ Request.pdu = 0
  BY DEF Request, WriteType
<1>3. Appended(rd, Request, t)
  BY Zenon, <1>1, <1>2, AppendFacts
<1>4. Busy(wt, t) = Busy(wt, rd)
  <2>1. Busy(wt, t) = Busy(wt, rd) \cup ({Request.pdu} \ {0})
    BY Zenon, <1>1, <1>2, BusyAppend
  <2> QED BY Zenon, <1>2, <2>1
<1> HIDE DEF t
<1>5. ReadyOk(s, wr, t)
  <2>1. \A i \in DOMAIN t : t[i] = Request \/ (Left(s, wr, t[i]) /\ t[i].done > 0)
    BY Zenon, <1>1, <1>3 DEF Appended, ReadyOk
  <2>2. ASSUME NEW i \in DOMAIN t, NEW j \in DOMAIN t, t[i].pdu = t[j].pdu, t[i] # Request
        PROVE  i = j
    <3>1. i \in DOMAIN rd /\ t[i] = rd[i] /\ Left(s, wr, t[i])
      BY Zenon, <1>3, <2>1, <2>2 DEF Appended
    <3>2. t[i].pdu # 0
      BY <3>1 DEF Left
    <3>3. j \in DOMAIN rd /\ t[j] = rd[j]
      BY Zenon, <1>2, <1>3, <2>2, <3>2 DEF Appended
    <3> QED BY Zenon, <1>1, <2>2, <3>1, <3>3 DEF ReadyOk
  <2> QED BY Zenon, <1>3, <2>1, <2>2 DEF ReadyOk, Appended
<1>6. Apart(wt, t)
  <2>1. \A i \in DOMAIN wt : wt[i].pdu # 0
    BY <1>1 DEF WaitingOk, Left
  <2> QED BY Zenon, <1>1, <1>2, <1>3, <2>1 DEF Appended, Apart
<1>7. PoolIs(s, wr, wt, t, Busy(wt, rd))
  BY Zenon, <1>4, <1>5, <1>6 DEF PoolIs, PoolOk
<1> QED BY Zenon, <1>7 DEF t

\* A write joins those that wait.
LEMMA PutWaiting ==
  ASSUME NEW s \in Nat, NEW wr, NEW wt, NEW rd, PoolOk(s, wr, wt, rd),
         NEW w, Free(s, wr, wt, rd, w), Last(wt, w)
  PROVE  PoolOk(s, wr, Append(wt, w), rd)
<1> DEFINE t == Append(wt, w)
           l == Len(wt) + 1
<1>1. wt \in Seq(WriteType) /\ WaitingOk(s, wr, wt) /\ Apart(wt, rd) /\ w \in WriteType
  BY Zenon DEF PoolOk, WaitingOk, Free
<1>2. Appended(wt, w, t)
  BY Zenon, <1>1, AppendFacts
<1> HIDE DEF t
<1>3. /\ t \in Seq(WriteType) /\ l \in DOMAIN t /\ t[l] = w
      /\ \A i \in DOMAIN wt : i \in DOMAIN t /\ t[i] = wt[i] /\ i < l
      /\ \A i \in DOMAIN t : i \in DOMAIN wt \/ i = l
  BY Zenon, <1>2 DEF Appended
<1>4. /\ \A i \in DOMAIN wt : wt[i].pdu # w.pdu
      /\ \A i \in DOMAIN rd : rd[i].pdu # w.pdu
  <2>1. w.pdu # 0
    BY DEF Free, Left
  <2> QED BY Zenon, <2>1, BusyFacts DEF Free
<1>5. WaitingOk(s, wr, t)
  <2>1. \A i \in DOMAIN t : Left(s, wr, t[i]) /\ (t[i].done = 0 => Before(wr, t[i].pdu))
    BY Zenon, <1>1, <1>3 DEF WaitingOk, Free
  <2>2. ASSUME NEW i \in DOMAIN t, NEW j \in DOMAIN t, t[i].pdu = t[j].pdu PROVE i = j
    <3>1. CASE i \in DOMAIN wt /\ j \in DOMAIN wt
      BY Zenon, <1>1, <1>3, <2>2, <3>1 DEF WaitingOk
    <3>2. CASE i \notin DOMAIN wt \/ j \notin DOMAIN wt
      BY Zenon, <1>3, <1>4, <2>2, <3>2
    <3> QED BY Zenon, <3>1, <3>2
  <2>3. ASSUME NEW i \in DOMAIN t, NEW j \in DOMAIN t, i < j, t[i].done = 0, t[j].done = 0
        PROVE  t[i].pdu < t[j].pdu
    <3>1. i \in DOMAIN wt
      <4>1. \A k \in DOMAIN t : k <= l /\ k \in Int /\ l \in Int
        BY <1>1, <1>3 DEF l
      <4>2. i # l
        BY <2>3, <4>1
      <4> QED BY Zenon, <1>3, <4>2
    <3>2. CASE j \in DOMAIN wt
      BY Zenon, <1>1, <1>3, <2>3, <3>1, <3>2 DEF WaitingOk
    <3>3. CASE j \notin DOMAIN wt
      BY Zenon, <1>3, <2>3, <3>1, <3>3 DEF Last
    <3> QED BY Zenon, <3>2, <3>3
  <2> QED BY Zenon, <1>3, <2>1, <2>2, <2>3 DEF WaitingOk
<1>6. Apart(t, rd)
  BY Zenon, <1>1, <1>3, <1>4 DEF Apart
<1> QED BY Zenon, <1>5, <1>6 DEF PoolOk, t

\* w was taken up next to wt and rd, B being the PDUs written before.
Taken(s, wr, wt, rd, w, B) ==
  PoolOk(s, wr, wt, rd) /\ Free(s, wr, wt, rd, w) /\ B = Busy(wt, rd) \cup {w.pdu}

\* What is at the head of the queue is a request, or a write that can be taken up.
LEMMA TakeReady ==
  ASSUME NEW s \in Nat, NEW wr, NEW wt, NEW rd, PoolOk(s, wr, wt, rd), rd # <<>>
  PROVE  /\ PoolOk(s, wr, wt, Tail(rd))
         /\ Head(rd) = Request => PoolIs(s, wr, wt, Tail(rd), Busy(wt, rd))
         /\ Head(rd) # Request =>
              Taken(s, wr, wt, Tail(rd), Head(rd), Busy(wt, rd)) /\ Head(rd).done > 0
<1> DEFINE t == Tail(rd)
           h == Head(rd)
<1>1. rd \in Seq(WriteType) /\ ReadyOk(s, wr, rd) /\ Apart(wt, rd)
  BY Zenon DEF PoolOk, ReadyOk
<1>2. Shifted(rd, h, t)
  BY Zenon, <1>1, TailFacts
<1>3. Busy(wt, rd) = Busy(wt, t) \cup ({h.pdu} \ {0})
  BY Zenon, <1>1, BusyTail
<1> HIDE DEF t, h
<1>4. ReadyOk(s, wr, t)
  <2>1. ASSUME NEW i \in DOMAIN t PROVE t[i] = Request \/ (Left(s, wr, t[i]) /\ t[i].done > 0)
    <3>1. i + 1 \in DOMAIN rd /\ t[i] = rd[i + 1]
      BY Zenon, <1>2 DEF Shifted
    <3> QED BY Zenon, <1>1, <3>1 DEF ReadyOk
  <2>2. ASSUME NEW i \in DOMAIN t, NEW j \in DOMAIN t, t[i].pdu = t[j].pdu
        PROVE  i = j \/ t[i] = Request
    <3>1. i + 1 \in DOMAIN rd /\ j + 1 \in DOMAIN rd /\ t[i] = rd[i + 1] /\ t[j] = rd[j + 1]
      BY Zenon, <1>2 DEF Shifted
    <3>2. i + 1 = j + 1 \/ t[i] = Request
      BY Zenon, <1>1, <2>2, <3>1 DEF ReadyOk
    <3> QED BY Zenon, <1>2, <3>2 DEF Shifted
  <2>3. t \in Seq(WriteType)
    BY Zenon, <1>2 DEF Shifted
  <2> QED BY Zenon, <2>1, <2>2, <2>3 DEF ReadyOk
<1>5. Apart(wt, t)
  <2> SUFFICES ASSUME NEW i \in DOMAIN wt, NEW j \in DOMAIN t PROVE wt[i].pdu # t[j].pdu
    BY Zenon DEF Apart
  <2>1. j + 1 \in DOMAIN rd /\ t[j] = rd[j + 1]
    BY Zenon, <1>2 DEF Shifted
  <2> QED BY Zenon, <1>1, <2>1 DEF Apart
<1>6. PoolOk(s, wr, wt, t)
  BY Zenon, <1>4, <1>5 DEF PoolOk
<1>7. ASSUME h = Request PROVE PoolIs(s, wr, wt, t, Busy(wt, rd))
  <2>1. h.pdu = 0
    BY <1>7 DEF Request
  <2> QED BY Zenon, <1>3, <1>6, <2>1 DEF PoolIs
<1>8. ASSUME h # Request
      PROVE  Taken(s, wr, wt, t, h, Busy(wt, rd)) /\ h.done > 0
  <2>1. 1 \in DOMAIN rd /\ rd[1] = h
    BY Zenon, <1>2 DEF Shifted
  <2>2. Left(s, wr, h) /\ h.done > 0
    BY Zenon, <1>1, <1>8, <2>1 DEF ReadyOk
  <2>3. h.pdu # 0 /\ h.done # 0
    <3>1. h.pdu \in 1 .. s
      BY Zenon, <2>2 DEF Left
    <3> QED BY <2>2, <3>1
  <2>4. h \in WriteType
    BY <1>1, <2>1
  <2>5. \A i \in DOMAIN wt : wt[i].pdu # h.pdu
    BY Zenon, <1>1, <2>1 DEF Apart
  <2>6. \A i \in DOMAIN t : t[i].pdu # h.pdu
    <3> SUFFICES ASSUME NEW i \in DOMAIN t, t[i].pdu = h.pdu PROVE FALSE
      BY Zenon
    <3>1. i + 1 \in DOMAIN rd /\ t[i] = rd[i + 1] /\ 1 < i + 1
      BY Zenon, <1>2 DEF Shifted
    <3>2. 1 = i + 1
      BY Zenon, <1>1, <1>8, <2>1, <3>1 DEF ReadyOk
    <3> QED BY <3>1, <3>2
  <2>7. h.pdu \notin Busy(wt, t)
    BY Zenon, <2>5, <2>6 DEF Busy, Pdus
  <2>8. Busy(wt, rd) = Busy(wt, t) \cup {h.pdu}
    BY Zenon, <1>3, <2>3
  <2>9. Free(s, wr, wt, t, h)
    BY Zenon, <2>2, <2>3, <2>4, <2>7 DEF Free
  <2> QED BY Zenon, <1>6, <2>2, <2>8, <2>9 DEF Taken
<1> QED BY Zenon, <1>6, <1>7, <1>8 DEF t, h

\* The first of those that wait can be taken up.
LEMMA TakeWaiting ==
  ASSUME NEW s \in Nat, NEW wr, NEW wt, NEW rd, PoolOk(s, wr, wt, rd), wt # <<>>
  PROVE  Taken(s, wr, Tail(wt), rd, Head(wt), Busy(wt, rd)) /\ First(Tail(wt), Head(wt))
<1> DEFINE t == Tail(wt)
           h == Head(wt)
<1>1. wt \in Seq(WriteType) /\ WaitingOk(s, wr, wt) /\ Apart(wt, rd)
  BY Zenon DEF PoolOk, WaitingOk
<1>2. Shifted(wt, h, t)
  BY Zenon, <1>1, TailFacts
<1>3. Busy(wt, rd) = Busy(t, rd) \cup {h.pdu}
  BY Zenon, <1>1, BusyTail
<1> HIDE DEF t, h
<1>4. \A i \in DOMAIN t : i + 1 \in DOMAIN wt /\ t[i] = wt[i + 1] /\ 1 < i + 1
  BY Zenon, <1>2 DEF Shifted
<1>5. WaitingOk(s, wr, t)
  <2>1. ASSUME NEW i \in DOMAIN t PROVE Left(s, wr, t[i]) /\ (t[i].done = 0 => Before(wr, t[i].pdu))
    BY Zenon, <1>1, <1>4 DEF WaitingOk
  <2>2. ASSUME NEW i \in DOMAIN t, NEW j \in DOMAIN t, t[i].pdu = t[j].pdu PROVE i = j
    <3>1. i + 1 \in DOMAIN wt /\ j + 1 \in DOMAIN wt /\ wt[i + 1].pdu = wt[j + 1].pdu
      BY Zenon, <1>4, <2>2
    <3>2. i + 1 = j + 1
      BY Zenon, <1>1, <3>1 DEF WaitingOk
    <3> QED BY Zenon, <1>2, <3>2 DEF Shifted
  <2>3. ASSUME NEW i \in DOMAIN t, NEW j \in DOMAIN t, i < j, t[i].done = 0, t[j].done = 0
        PROVE  t[i].pdu < t[j].pdu
    <3>1. i + 1 < j + 1
      BY Zenon, <1>2, <2>3 DEF Shifted
    <3>2. i + 1 \in DOMAIN wt /\ j + 1 \in DOMAIN wt /\ t[i] = wt[i + 1] /\ t[j] = wt[j + 1]
      BY Zenon, <1>4
    <3>3. wt[i + 1].pdu < wt[j + 1].pdu
      BY Zenon, <1>1, <2>3, <3>1, <3>2 DEF WaitingOk
    <3> QED BY Zenon, <3>2, <3>3
  <2>4. t \in Seq(WriteType)
    BY Zenon, <1>2 DEF Shifted
  <2> QED BY Zenon, <2>1, <2>2, <2>3, <2>4 DEF WaitingOk
<1>6. Apart(t, rd)
  <2> SUFFICES ASSUME NEW i \in DOMAIN t, NEW j \in DOMAIN rd PROVE t[i].pdu # rd[j].pdu
    BY Zenon DEF Apart
  <2>1. i + 1 \in DOMAIN wt /\ t[i] = wt[i + 1]
    BY Zenon, <1>4
  <2> QED BY Zenon, <1>1, <2>1 DEF Apart
<1>7. 1 \in DOMAIN wt /\ wt[1] = h
  BY Zenon, <1>2 DEF Shifted
<1>8. First(t, h)
  <2> SUFFICES ASSUME h.done = 0, NEW i \in DOMAIN t, t[i].done = 0 PROVE h.pdu < t[i].pdu
    BY Zenon DEF First
  <2>1. i + 1 \in DOMAIN wt /\ t[i] = wt[i + 1] /\ 1 < i + 1
    BY Zenon, <1>4
  <2>2. wt[1].pdu < wt[i + 1].pdu
    BY Zenon, <1>1, <1>7, <2>1 DEF WaitingOk
  <2> QED BY Zenon, <1>7, <2>1, <2>2
<1>9. Free(s, wr, t, rd, h)
  <2>1. h \in WriteType
    BY <1>1, <1>7
  <2>2. Left(s, wr, h) /\ (h.done = 0 => Before(wr, h.pdu))
    BY Zenon, <1>1, <1>7 DEF WaitingOk
  <2>3. \A i \in DOMAIN rd : rd[i].pdu # h.pdu
    BY Zenon, <1>1, <1>7 DEF Apart
  <2>4. \A i \in DOMAIN t : t[i].pdu # h.pdu
    <3> SUFFICES ASSUME NEW i \in DOMAIN t, t[i].pdu = h.pdu PROVE FALSE
      BY Zenon
    <3>1. i + 1 \in DOMAIN wt /\ wt[i + 1].pdu = wt[1].pdu
      BY Zenon, <1>4, <1>7
    <3>2. 1 = i + 1
      BY Zenon, <1>1, <1>7, <3>1 DEF WaitingOk
    <3>3. 1 < i + 1
      BY Zenon, <1>4
    <3> QED BY <3>2, <3>3
  <2>5. h.pdu \notin Busy(t, rd)
    BY Zenon, <2>3, <2>4 DEF Busy, Pdus
  <2> QED BY Zenon, <2>1, <2>2, <2>5 DEF Free
<1>10. PoolOk(s, wr, t, rd)
  BY Zenon, <1>5, <1>6 DEF PoolOk
<1>11. Taken(s, wr, t, rd, h, Busy(wt, rd))
  BY Zenon, <1>3, <1>9, <1>10 DEF Taken
<1> QED BY Zenon, <1>8, <1>11 DEF t, h

\* A new PDU comes after all the others.
LEMMA NewSend ==
  ASSUME NEW s \in Nat, NEW wr, NEW wt, NEW rd, PoolOk(s, wr, wt, rd)
  PROVE  /\ PoolOk(s + 1, wr, wt, rd)
         /\ Free(s + 1, wr, wt, rd, Write(s + 1, 0)) /\ Last(wt, Write(s + 1, 0))
         /\ PiecesOf(wr, s + 1) = {}
<1> DEFINE w == Write(s + 1, 0)
<1>1. w \in WriteType /\ w.pdu = s + 1 /\ w.done = 0
  BY DEF Write, WriteType
<1>2. \A k \in 1 .. s : k \in 1 .. s + 1 /\ k < s + 1 /\ k # s + 1
  OBVIOUS
<1> HIDE DEF w
<1>3. WireOk(s, wr) /\ WaitingOk(s, wr, wt) /\ ReadyOk(s, wr, rd)
  BY Zenon DEF PoolOk
<1>4. PiecesOf(wr, s + 1) = {} /\ Before(wr, s + 1)
  <2>1. \A i \in DOMAIN wr : wr[i].pdu \in 1 .. s
    BY Zenon, <1>3 DEF WireOk
  <2> QED BY Zenon, <1>2, <2>1 DEF PiecesOf, Before
<1>5. WireOk(s + 1, wr)
  BY Zenon, <1>2, <1>3 DEF WireOk
<1>6. \A v : Left(s, wr, v) => Left(s + 1, wr, v) /\ v.pdu < s + 1 /\ v.pdu # s + 1
  BY Zenon, <1>2 DEF Left
<1>7. WaitingOk(s + 1, wr, wt)
  <2>1. \A i \in DOMAIN wt : Left(s + 1, wr, wt[i])
    BY Zenon, <1>3, <1>6 DEF WaitingOk
  <2> QED BY Zenon, <1>3, <2>1 DEF WaitingOk
<1>8. ReadyOk(s + 1, wr, rd)
  <2>1. \A i \in DOMAIN rd : rd[i] = Request \/ (Left(s + 1, wr, rd[i]) /\ rd[i].done > 0)
    BY Zenon, <1>3, <1>6 DEF ReadyOk
  <2> QED BY Zenon, <1>3, <2>1 DEF ReadyOk
<1>9. Last(wt, w)
  BY Zenon, <1>1, <1>3, <1>6 DEF Last, WaitingOk
<1>10. w.pdu \notin Busy(wt, rd)
  <2>1. \A i \in DOMAIN wt : wt[i].pdu # s + 1
    BY Zenon, <1>3, <1>6 DEF WaitingOk
  <2>2. Request.pdu = 0 /\ s + 1 # 0
    BY DEF Request
  <2>3. \A i \in DOMAIN rd : rd[i].pdu # s + 1
    BY Zenon, <1>3, <1>6, <2>2 DEF ReadyOk
  <2> QED BY Zenon, <1>1, <2>1, <2>3 DEF Busy, Pdus
<1>11. Left(s + 1, wr, w)
  <2>1. Count(wr, s + 1) = 0
    BY Zenon, <1>4, FS_EmptySet DEF Count
  <2>2. s + 1 \in 1 .. s + 1 /\ 0 < PduLen
    BY TrafficAssumption
  <2> QED BY Zenon, <1>1, <2>1, <2>2 DEF Left
<1>12. PoolOk(s + 1, wr, wt, rd)
  BY Zenon, <1>5, <1>7, <1>8 DEF PoolOk
<1>13. Free(s + 1, wr, wt, rd, w)
  BY Zenon, <1>1, <1>4, <1>10, <1>11 DEF Free
<1> QED BY Zenon, <1>4, <1>9, <1>12, <1>13 DEF w

-----------------------------------------------------------------------------
(* The steps of a write.                                                    *)

\* w, which was taken up next to wt and q, has gone on.
Advanced(s, wt, q, w) ==
  /\ room' \in Nat /\ PoolOk(s, wire', waiting', ready')
  /\ wire' = wire \/ \E m \in Nat : wire' = wire \o Pieces(w, m)
  /\ Busy(wt, q) \subseteq Busy(waiting', ready')
  /\ Busy(waiting', ready') \subseteq Busy(wt, q) \cup {w.pdu}
  /\ open => w.pdu \in Busy(waiting', ready') \/ Count(wire', w.pdu) = PduLen

LEMMA SomeStep ==
  ASSUME NEW s \in Nat, NEW wt, NEW q, NEW w, PoolOk(s, wire, wt, q), Free(s, wire, wt, q, w),
         First(wt, w), room \in Nat, room > 0, write_some(w, q), waiting' = wt
  PROVE  Advanced(s, wt, q, w)
<1> DEFINE m == Smaller(room, PduLen - w.done)
           v == Write(w.pdu, w.done + m)
<1>1. /\ w \in WriteType /\ w.pdu \in Nat /\ w.pdu \in 1 .. s /\ w.pdu # 0
      /\ w.done \in Nat /\ w.done < PduLen /\ PduLen \in Nat
  <2>1. w \in WriteType /\ w.pdu \in 1 .. s /\ w.done < PduLen
    BY Zenon DEF Free, Left
  <2> QED BY <2>1, TrafficAssumption DEF WriteType
<1>2. m \in Nat /\ m > 0 /\ room - m \in Nat /\ w.done + m \in Nat /\ w.done + m > 0 /\ w.done + m <= PduLen
  BY <1>1 DEF Smaller
<1>3. /\ wire' = wire \o Pieces(w, m) /\ room' = room - m
      /\ ready' = IF w.done + m = PduLen THEN q ELSE Append(q, v)
  BY Zenon DEF write_some
<1>4. v \in WriteType /\ v.pdu = w.pdu /\ v.done = w.done + m
  BY <1>1, <1>2 DEF Write, WriteType
<1> HIDE DEF m, v
<1>5. PoolOk(s, wire', wt, q) /\ Count(wire', w.pdu) = w.done + m
  <2>1. PoolOk(s, wire \o Pieces(w, m), wt, q)
    BY Zenon, <1>2, PutPieces
  <2>2. Count(wire \o Pieces(w, m), w.pdu) = w.done + m
    BY <1>2, PutPieces
  <2> QED BY Zenon, <1>3, <2>1, <2>2
<1>6. w.pdu \notin Busy(wt, q)
  BY Zenon DEF Free
<1>7. CASE w.done + m = PduLen
  <2>1. ready' = q
    BY Zenon, <1>3, <1>7
  <2> QED BY Zenon, <1>2, <1>3, <1>5, <1>7, <2>1 DEF Advanced
<1>8. CASE w.done + m # PduLen
  <2>1. ready' = Append(q, v)
    BY Zenon, <1>3, <1>8
  <2>2. Left(s, wire', v)
    <3>1. w.done + m < PduLen
      BY <1>1, <1>2, <1>8
    <3> QED BY Zenon, <1>1, <1>4, <1>5, <3>1 DEF Left
  <2>3. PoolOk(s, wire', wt, ready')
    BY Zenon, <1>2, <1>4, <1>5, <1>6, <2>1, <2>2, PutReady
  <2>4. Busy(wt, ready') = Busy(wt, q) \cup {w.pdu}
    <3>1. q \in Seq(WriteType)
      BY Zenon DEF PoolOk, ReadyOk
    <3>2. Busy(wt, ready') = Busy(wt, q) \cup ({v.pdu} \ {0})
      BY Zenon, <1>4, <2>1, <3>1, BusyAppend
    <3> QED BY Zenon, <1>1, <1>4, <3>2
  <2> QED BY Zenon, <1>2, <1>3, <2>3, <2>4 DEF Advanced
<1> QED BY Zenon, <1>7, <1>8

LEMMA StartStep ==
  ASSUME NEW s \in Nat, NEW q, NEW w, PoolOk(s, wire, waiting, q), Free(s, wire, waiting, q, w),
         Last(waiting, w), room \in Nat, start_write(w, q)
  PROVE  Advanced(s, waiting, q, w)
<1>1. CASE ~open /\ ready' = q /\ UNCHANGED <<waiting, room, wire>>
  <2>1. waiting' = waiting /\ room' = room /\ wire' = wire /\ ready' = q
    BY <1>1
  <2> QED BY Zenon, <1>1, <2>1 DEF Advanced
<1>2. CASE open /\ waiting = <<>> /\ room > 0 /\ write_some(w, q) /\ UNCHANGED waiting
  <2>1. DOMAIN waiting = {} /\ waiting' = waiting
    BY <1>2
  <2>2. First(waiting, w)
    BY Zenon, <2>1 DEF First
  <2> QED BY Zenon, <1>2, <2>1, <2>2, SomeStep
<1>3. CASE open /\ waiting' = Append(waiting, w) /\ ready' = q /\ UNCHANGED <<room, wire>>
  <2>1. room' = room /\ wire' = wire
    BY <1>3
  <2>2. PoolOk(s, wire, waiting', q)
    BY Zenon, <1>3, PutWaiting
  <2>3. waiting \in Seq(WriteType) /\ w \in WriteType
    BY Zenon DEF PoolOk, WaitingOk, Free
  <2>4. Busy(waiting', q) = Busy(waiting, q) \cup {w.pdu}
    BY Zenon, <1>3, <2>3, BusyAppend
  <2> QED BY Zenon, <1>3, <2>1, <2>2, <2>4 DEF Advanced
<1> QED BY Zenon, <1>1, <1>2, <1>3 DEF start_write

\* What a write that has gone on leaves behind, B being the PDUs written before.
LEMMA AfterWrite ==
  ASSUME NEW s \in Nat, NEW wt, NEW q, NEW w \in WriteType, NEW B,
         PoolOk(s, wire, wt, q), B = Busy(wt, q) \cup {w.pdu},
         open => NoneLost(s, wire, B), Advanced(s, wt, q, w),
         open' = open, Len(sent') = s
  PROVE  WriteInv'
<1> DEFINE C == Busy(waiting', ready')
<1>1. /\ room' \in Nat /\ PoolOk(s, wire', waiting', ready')
      /\ wire' = wire \/ \E m \in Nat : wire' = wire \o Pieces(w, m)
      /\ Busy(wt, q) \subseteq C /\ C \subseteq B
      /\ open => w.pdu \in C \/ Count(wire', w.pdu) = PduLen
  BY Zenon DEF Advanced
<1> HIDE DEF C
<1>2. wire \in Seq(PieceType)
  BY Zenon DEF PoolOk, WireOk
<1>3. \A k : k # w.pdu => Count(wire', k) = Count(wire, k)
  <2>1. ASSUME NEW m \in Nat
        PROVE  \A k : k # w.pdu => PiecesOf(wire \o Pieces(w, m), k) = PiecesOf(wire, k)
    BY <1>2, JoinedPieces
  <2> QED BY Zenon, <1>1, <2>1 DEF Count
<1>4. ASSUME open PROVE NoneLost(s, wire', C)
  <2> SUFFICES ASSUME NEW k \in 1 .. s PROVE Count(wire', k) = PduLen \/ k \in C
    BY Zenon DEF NoneLost
  <2>1. Count(wire, k) = PduLen \/ k \in B
    BY Zenon, <1>4 DEF NoneLost
  <2>2. CASE k = w.pdu
    BY Zenon, <1>1, <1>4, <2>2
  <2>3. CASE k # w.pdu
    BY Zenon, <1>1, <1>3, <2>1, <2>3
  <2> QED BY Zenon, <2>2, <2>3
<1> QED BY Zenon, <1>1, <1>4 DEF WriteInv, C

\* A write that was in progress goes on.
LEMMA WriteGoesOn ==
  ASSUME sent \in Seq(Kinds), WriteInv, write_continues \/ Writable
  PROVE  WriteInv'
<1> DEFINE s == Len(sent)
<1>1. /\ s \in Nat /\ room \in Nat /\ PoolOk(s, wire, waiting, ready)
      /\ open => NoneLost(s, wire, Busy(waiting, ready))
  <2>1. s \in Nat
    OBVIOUS
  <2> QED BY Zenon, <2>1 DEF WriteInv
<1>2. open' = open /\ Len(sent') = s
  BY DEF write_continues, Writable
<1> HIDE DEF s
<1>3. CASE write_continues
  <2> DEFINE w == Head(ready)
             q == Tail(ready)
  <2>1. ready # <<>> /\ w # Request /\ start_write(w, q)
    BY Zenon, <1>3 DEF write_continues
  <2>2. Taken(s, wire, waiting, q, w, Busy(waiting, ready)) /\ w.done > 0
    BY Zenon, <1>1, <2>1, TakeReady
  <2> HIDE DEF w, q
  <2>3. /\ PoolOk(s, wire, waiting, q) /\ Free(s, wire, waiting, q, w) /\ w.done > 0
        /\ Busy(waiting, ready) = Busy(waiting, q) \cup {w.pdu}
    BY Zenon, <2>2 DEF Taken
  <2>4. Last(waiting, w) /\ w \in WriteType
    <3>1. w.done # 0
      BY <2>3
    <3> QED BY Zenon, <2>3, <3>1 DEF Last, Free
  <2>5. Advanced(s, waiting, q, w)
    BY Zenon, <1>1, <2>1, <2>3, <2>4, StartStep
  <2> QED BY Zenon, <1>1, <1>2, <2>3, <2>4, <2>5, AfterWrite
<1>4. CASE Writable
  <2> DEFINE w == Head(waiting)
             t == Tail(waiting)
  <2>1. waiting # <<>> /\ room > 0 /\ write_some(w, ready) /\ waiting' = t
    BY Zenon, <1>4 DEF Writable
  <2>2. Taken(s, wire, t, ready, w, Busy(waiting, ready)) /\ First(t, w)
    BY Zenon, <1>1, <2>1, TakeWaiting
  <2> HIDE DEF w, t
  <2>3. /\ PoolOk(s, wire, t, ready) /\ Free(s, wire, t, ready, w)
        /\ Busy(waiting, ready) = Busy(t, ready) \cup {w.pdu}
    BY Zenon, <2>2 DEF Taken
  <2>4. w \in WriteType
    BY Zenon, <2>3 DEF Free
  <2>5. Advanced(s, t, ready, w)
    BY Zenon, <1>1, <2>1, <2>2, <2>3, SomeStep
  <2> QED BY Zenon, <1>1, <1>2, <2>3, <2>4, <2>5, AfterWrite
<1> QED BY Zenon, <1>3, <1>4

\* The PDUs of the writes in progress.
LEMMA InProgressBusy ==
  ASSUME NEW s \in Nat, PoolOk(s, wire, waiting, ready)
  PROVE  /\ {w.pdu : w \in InProgress} = Busy(waiting, ready)
         /\ \A w \in InProgress : w \in WriteType /\ Left(s, wire, w)
<1>1. WaitingOk(s, wire, waiting) /\ ReadyOk(s, wire, ready)
  BY Zenon DEF PoolOk
<1>2. /\ \A w \in InProgress :
           \/ \E i \in DOMAIN waiting : w = waiting[i]
           \/ w # Request /\ \E i \in DOMAIN ready : w = ready[i]
      /\ \A i \in DOMAIN waiting : waiting[i] \in InProgress
      /\ \A i \in DOMAIN ready : ready[i] # Request => ready[i] \in InProgress
  BY Zenon DEF InProgress
<1>3. ASSUME NEW w \in InProgress PROVE w \in WriteType /\ Left(s, wire, w)
  <2>1. CASE \E i \in DOMAIN waiting : w = waiting[i]
    BY <1>1, <2>1 DEF WaitingOk
  <2>2. CASE w # Request /\ \E i \in DOMAIN ready : w = ready[i]
    BY <1>1, <2>2 DEF ReadyOk
  <2> QED BY Zenon, <1>2, <2>1, <2>2
<1>4. ASSUME NEW w \in InProgress PROVE w.pdu \in Busy(waiting, ready)
  <2>1. w.pdu # 0
    BY <1>3 DEF Left
  <2>2. CASE \E i \in DOMAIN waiting : w = waiting[i]
    BY Zenon, <2>2 DEF Busy, Pdus
  <2>3. CASE \E i \in DOMAIN ready : w = ready[i]
    BY Zenon, <2>1, <2>3 DEF Busy, Pdus
  <2> QED BY Zenon, <1>2, <2>2, <2>3
<1>5. ASSUME NEW k \in Busy(waiting, ready) PROVE \E w \in InProgress : k = w.pdu
  <2>1. CASE \E i \in DOMAIN waiting : waiting[i].pdu = k
    <3>1. PICK i \in DOMAIN waiting : waiting[i].pdu = k
      BY Zenon, <2>1
    <3>2. waiting[i] \in InProgress
      BY Zenon, <1>2
    <3> QED BY Zenon, <3>1, <3>2
  <2>2. CASE k # 0 /\ \E i \in DOMAIN ready : ready[i].pdu = k
    <3>1. Request.pdu = 0
      BY DEF Request
    <3>2. PICK i \in DOMAIN ready : ready[i].pdu = k
      BY Zenon, <2>2
    <3>3. ready[i] \in InProgress
      BY Zenon, <1>2, <2>2, <3>1, <3>2
    <3> QED BY Zenon, <3>2, <3>3
  <2> QED BY Zenon, <2>1, <2>2 DEF Busy, Pdus
<1> HIDE DEF InProgress, Busy
<1> QED BY Zenon, <1>3, <1>4, <1>5

\* send_pdu from either thread.
LEMMA SendWrites ==
  ASSUME sent \in Seq(Kinds), WriteInv, NEW kind, NEW q, send_pdu(kind, q),
         PoolIs(Len(sent), wire, waiting, q, Busy(waiting, ready)), open' = open
  PROVE  WriteInv'
<1> DEFINE s == Len(sent)
           w == Write(s + 1, 0)
           A == Busy(waiting, ready)
           B == A \cup {s + 1}
<1>1. s \in Nat /\ s + 1 \in Nat /\ Len(sent') = s + 1 /\ start_write(w, q) /\ w.pdu = s + 1
  BY DEF send_pdu, Write
<1>2. /\ room \in Nat /\ PoolOk(s, wire, waiting, ready)
      /\ open => NoneLost(s, wire, A)
  BY Zenon DEF WriteInv
<1>4. PoolOk(s, wire, waiting, q) /\ Busy(waiting, q) = A
  BY Zenon DEF PoolIs
<1>5. /\ PoolOk(s + 1, wire, waiting, q) /\ Free(s + 1, wire, waiting, q, w) /\ Last(waiting, w)
      /\ PiecesOf(wire, s + 1) = {}
  BY Zenon, <1>1, <1>4, NewSend
<1> HIDE DEF s, w, A
<1>6. w \in WriteType
  BY Zenon, <1>5 DEF Free
<1>7. ASSUME open PROVE NoneLost(s + 1, wire, B)
  <2>1. \A k \in 1 .. s + 1 : k \in 1 .. s \/ k = s + 1
    BY <1>1
  <2> QED BY Zenon, <1>2, <1>7, <2>1 DEF NoneLost
<1>9. Advanced(s + 1, waiting, q, w)
  BY Zenon, <1>1, <1>2, <1>5, StartStep
<1>10. B = Busy(waiting, q) \cup {w.pdu}
  BY Zenon, <1>1, <1>4
<1> HIDE DEF B
<1> QED BY Zenon, <1>1, <1>5, <1>6, <1>7, <1>9, <1>10, AfterWrite

LEMMA WriteStep ==
  ASSUME sent \in Seq(Kinds), WriteInv, [Next]_vars
  PROVE  WriteInv'
<1> DEFINE s == Len(sent)
<1>1. /\ s \in Nat /\ room \in Nat /\ PoolOk(s, wire, waiting, ready)
      /\ open => NoneLost(s, wire, Busy(waiting, ready))
  <2>1. s \in Nat
    OBVIOUS
  <2> QED BY Zenon, <2>1 DEF WriteInv
<1>2. ASSUME room' \in Nat, UNCHANGED <<waiting, wire, sent>>,
             PoolIs(s, wire, waiting, ready', Busy(waiting, ready)), open' = open
      PROVE  WriteInv'
  <2>1. waiting' = waiting /\ wire' = wire /\ sent' = sent
    BY <1>2
  <2> QED BY Zenon, <1>1, <1>2, <2>1 DEF WriteInv, PoolIs
<1>3. ASSUME Turn PROVE PoolIs(s, wire, waiting, Tail(ready), Busy(waiting, ready))
  BY Zenon, <1>1, <1>3, TakeReady DEF Turn
<1>4. CASE handle_submit_sm
  <2>1. Turn /\ send_pdu("accepted", Tail(ready)) /\ open' = open
    BY <1>4 DEF handle_submit_sm
  <2> QED BY Zenon, <1>3, <2>1, SendWrites
<1>5. CASE refuse_submit_sm
  <2>1. Turn /\ send_pdu("throttled", Tail(ready)) /\ open' = open
    BY <1>5 DEF refuse_submit_sm
  <2> QED BY Zenon, <1>3, <2>1, SendWrites
<1>6. CASE DeliverSm
  <2>1. send_pdu("deliver_sm", ready) /\ open' = open
    BY <1>6 DEF DeliverSm
  <2>2. PoolIs(s, wire, waiting, ready, Busy(waiting, ready))
    BY Zenon, <1>1 DEF PoolIs
  <2> QED BY Zenon, <2>1, <2>2, SendWrites
<1>7. CASE ended_submit_sm
  <2>1. Turn /\ ready' = Tail(ready) /\ room' = room /\ open' = open
    BY <1>7 DEF ended_submit_sm
  <2>2. UNCHANGED <<waiting, wire, sent>>
    BY <1>7 DEF ended_submit_sm
  <2> QED BY Zenon, <1>1, <1>2, <1>3, <2>1, <2>2
<1>8. CASE ReadArrives
  <2>1. ready' = Append(ready, Request) /\ room' = room /\ open' = open
    BY <1>8 DEF ReadArrives
  <2>2. UNCHANGED <<waiting, wire, sent>>
    BY <1>8 DEF ReadArrives
  <2>3. PoolIs(s, wire, waiting, ready', Busy(waiting, ready))
    BY Zenon, <1>1, <2>1, PutRequest
  <2> QED BY Zenon, <1>1, <1>2, <2>1, <2>2, <2>3
<1>9. CASE route_returns \/ Tick \/ PeerReads \/ UNCHANGED vars
  <2>1. room' \in Nat /\ ready' = ready /\ open' = open
    BY <1>1, <1>9 DEF route_returns, Tick, PeerReads, vars, writeVars
  <2>2. UNCHANGED <<waiting, wire, sent>>
    BY <1>9 DEF route_returns, Tick, PeerReads, vars, writeVars
  <2>3. PoolIs(s, wire, waiting, ready', Busy(waiting, ready))
    BY Zenon, <1>1, <2>1 DEF PoolIs
  <2> QED BY Zenon, <1>2, <2>1, <2>2, <2>3
<1>10. CASE do_disconnect
  <2>1. /\ ~open' /\ waiting' = <<>> /\ ready' = ready /\ room' = room
        /\ wire' = wire /\ sent' = sent
    BY <1>10 DEF do_disconnect
  <2>2. <<>> \in Seq(WriteType) /\ DOMAIN <<>> = {}
    OBVIOUS
  <2>3. PoolOk(s, wire, waiting', ready')
    <3>1. WaitingOk(s, wire, waiting')
      BY Zenon, <2>1, <2>2 DEF WaitingOk
    <3>2. Apart(waiting', ready)
      BY Zenon, <2>1, <2>2 DEF Apart
    <3> QED BY Zenon, <1>1, <2>1, <3>1, <3>2 DEF PoolOk
  <2> QED BY Zenon, <1>1, <2>1, <2>3 DEF WriteInv
<1>11. CASE write_continues \/ Writable
  BY Zenon, <1>11, WriteGoesOn
<1> QED BY Zenon, <1>4, <1>5, <1>6, <1>7, <1>8, <1>9, <1>10, <1>11 DEF Next, AsioStep

LEMMA WriteAlways == Spec => []WriteInv
<1>1. Init => WriteInv
  <2> SUFFICES ASSUME Init PROVE WriteInv
    OBVIOUS
  <2>1. /\ room \in Nat /\ waiting = <<>> /\ ready = <<>> /\ wire = <<>> /\ Len(sent) = 0
        /\ <<>> \in Seq(WriteType) /\ <<>> \in Seq(PieceType) /\ DOMAIN <<>> = {} /\ 1 .. 0 = {}
    BY TrafficAssumption DEF Init
  <2>2. PoolOk(0, <<>>, <<>>, <<>>)
    BY Zenon, <2>1 DEF PoolOk, WireOk, Numbered, InOrder, WaitingOk, ReadyOk, Apart
  <2>3. Busy(<<>>, <<>>) = {} /\ \A k : PiecesOf(<<>>, k) = {}
    BY Zenon, <2>1 DEF Busy, Pdus, PiecesOf
  <2>4. NoneLost(0, <<>>, {})
    BY Zenon, <2>1 DEF NoneLost
  <2> QED BY Zenon, <2>1, <2>2, <2>3, <2>4 DEF WriteInv
<1>2. BucketInv /\ WriteInv /\ [Next]_vars => WriteInv'
  BY Zenon, WriteStep DEF BucketInv, BucketType
<1> QED BY <1>1, <1>2, BucketAlways, PTL DEF Spec

\* What either thread gives to send_pdu is written from the first to the last piece,
\* whatever the size of a PDU and of the send buffer and however often a write is cut
\* short or has to wait: nothing is written twice, nothing is left out or forgotten,
\* and PDUs start in the order in which they were sent.
THEOREM WrittenInOrder == Spec => []SentInOrder
<1>1. ASSUME BucketInv, WriteInv PROVE SentInOrder
  <2> DEFINE s == Len(sent)
  <2>1. s \in Nat /\ DOMAIN sent = 1 .. s
    BY <1>1 DEF BucketInv, BucketType
  <2>2. PoolOk(s, wire, waiting, ready) /\ (open => NoneLost(s, wire, Busy(waiting, ready)))
    BY Zenon, <1>1 DEF WriteInv
  <2> HIDE DEF s
  <2>3. \A k : Written(k) = PiecesOf(wire, k) /\ Cardinality(Written(k)) = Count(wire, k)
    BY Zenon DEF Written, PiecesOf, Count
  <2>4. \A i \in DOMAIN wire : wire[i].n = Cardinality({j \in Written(wire[i].pdu) : j <= i})
    BY Zenon, <2>2, <2>3 DEF PoolOk, WireOk, Numbered
  <2>5. \A i, j \in DOMAIN wire :
          i < j /\ wire[i].n = 1 /\ wire[j].n = 1 => wire[i].pdu < wire[j].pdu
    BY Zenon, <2>2 DEF PoolOk, WireOk, InOrder
  <2>6. /\ {w.pdu : w \in InProgress} = Busy(waiting, ready)
        /\ \A w \in InProgress : w \in WriteType /\ Left(s, wire, w)
    BY Zenon, <2>1, <2>2, InProgressBusy
  <2>7. ASSUME open, NEW k \in DOMAIN sent
        PROVE  {w \in InProgress : w.pdu = k} =
                 IF Count(wire, k) = PduLen THEN {} ELSE {Write(k, Count(wire, k))}
    <3>1. ASSUME NEW w \in InProgress, w.pdu = k
          PROVE  w = Write(k, Count(wire, k)) /\ Count(wire, k) # PduLen
      <4>1. w \in WriteType /\ Left(s, wire, w)
        BY Zenon, <2>6
      <4>2. w.done = Count(wire, k) /\ w.done < PduLen
        BY Zenon, <3>1, <4>1 DEF Left
      <4>3. w.done # PduLen
        BY <4>1, <4>2, TrafficAssumption DEF WriteType
      <4>4. w = [pdu |-> w.pdu, done |-> w.done]
        BY <4>1 DEF WriteType
      <4> QED BY Zenon, <3>1, <4>2, <4>3, <4>4 DEF Write
    <3>2. ASSUME Count(wire, k) # PduLen PROVE \E w \in InProgress : w.pdu = k
      <4>1. k \in Busy(waiting, ready)
        BY Zenon, <2>1, <2>2, <2>7, <3>2 DEF NoneLost
      <4> QED BY Zenon, <2>6, <4>1
    <3> QED BY Zenon, <3>1, <3>2
  <2> QED BY Zenon, <2>3, <2>4, <2>5, <2>7 DEF SentInOrder
<1> QED BY <1>1, BucketAlways, WriteAlways, PTL
=============================================================================
