---------------------------- MODULE ResponseProofs ----------------------------
(***************************************************************************)
(* Theorem on the responses of SmppSession, for every set of PDUs and any  *)
(* number of requests in the socket: each request has its one response,    *)
(* and in its turn.                                                        *)
(*                                                                         *)
(* owed is the queue of the requests of the peer that have no response     *)
(* yet.  The argument is that the request a handler is at, if it has not   *)
(* been answered, and the requests that are still in the socket, in the    *)
(* order they will be read, are that queue.                                *)
(***************************************************************************)
EXTENDS SmppSessionProofs, FiniteSetTheorems

USE ConstantsAssumption DEF BindCommands, RequestCommands, Commands, PduType,
    NoPdu, BoundStates, SessionStates, Closing

\* The places of the requests in s.
AskedIn(s) == {i \in DOMAIN s : IsRequest(s[i])}

UpTo(S, i) == {j \in S : j <= i}

\* After u others, the requests of s are what o has, in their order.
InLine(o, u, s) ==
  /\ Len(o) = u + Cardinality(AskedIn(s))
  /\ \A i \in AskedIn(s) : o[u + Cardinality(UpTo(AskedIn(s), i))] = s[i]

LEMMA AskedType ==
  ASSUME NEW s \in Seq(Pdus)
  PROVE  /\ IsFiniteSet(AskedIn(s)) /\ Cardinality(AskedIn(s)) \in Nat
         /\ AskedIn(s) \subseteq DOMAIN s /\ AskedIn(s) \subseteq Nat \ {0} /\ AskedIn(s) \subseteq Nat
<1>1. IsFiniteSet(DOMAIN s) /\ DOMAIN s \subseteq Nat \ {0}
  <2>1. DOMAIN s = 1 .. Len(s) /\ Len(s) \in Nat /\ 1 .. Len(s) \subseteq Nat \ {0}
    OBVIOUS
  <2>2. IsFiniteSet(1 .. Len(s))
    BY <2>1, FS_Interval
  <2> QED BY Zenon, <2>1, <2>2
<1>2. AskedIn(s) \subseteq DOMAIN s
  BY Zenon DEF AskedIn
<1>3. IsFiniteSet(AskedIn(s))
  BY Zenon, <1>1, <1>2, FS_Subset
<1> QED BY Zenon, <1>1, <1>2, <1>3, FS_CardinalityType

LEMMA UpToType ==
  ASSUME NEW S, IsFiniteSet(S), S \subseteq Nat, NEW i
  PROVE  /\ IsFiniteSet(UpTo(S, i)) /\ Cardinality(UpTo(S, i)) \in Nat
         /\ Cardinality(UpTo(S, i)) <= Cardinality(S)
         /\ i \in S => Cardinality(UpTo(S, i)) # 0
<1>1. UpTo(S, i) \in SUBSET S
  BY Zenon DEF UpTo
<1>2. /\ IsFiniteSet(UpTo(S, i)) /\ Cardinality(UpTo(S, i)) <= Cardinality(S)
      /\ Cardinality(UpTo(S, i)) \in Nat
  <2>1. IsFiniteSet(UpTo(S, i))
    BY Zenon, <1>1, FS_Subset
  <2>2. Cardinality(UpTo(S, i)) <= Cardinality(S)
    BY Zenon, <1>1, FS_Subset
  <2> QED BY Zenon, <2>1, <2>2, FS_CardinalityType
<1>3. i \in S => i \in UpTo(S, i)
  BY DEF UpTo
<1> QED BY <1>2, <1>3, FS_EmptySet

\* A set of places, and the same set without its head, moved up.
LEMMA ShiftCount ==
  ASSUME NEW S, IsFiniteSet(S), S \subseteq Nat \ {0},
         NEW T, \A i : i \in T <=> i \in Nat \ {0} /\ i + 1 \in S
  PROVE  Cardinality(S) = (IF 1 \in S THEN 1 ELSE 0) + Cardinality(T)
<1> DEFINE R == S \ {1}
           f == [i \in R |-> i - 1]
<1>1. /\ IsFiniteSet(R) /\ Cardinality(S) \in Nat
      /\ Cardinality(R) = IF 1 \in S THEN Cardinality(S) - 1 ELSE Cardinality(S)
  BY FS_RemoveElement, FS_CardinalityType
<1>2. \A i \in R : i - 1 \in T
  BY DEF R
<1>3. \A i \in T : i + 1 \in R /\ (i + 1) - 1 = i
  BY DEF R
<1>4. \A i, j \in R : i - 1 = j - 1 => i = j
  BY DEF R
<1> HIDE DEF R
<1>5. f \in Bijection(R, T)
  <2>1. f \in [R -> T] /\ \A i \in R : f[i] = i - 1
    BY Zenon, <1>2
  <2> HIDE DEF f
  <2>2. \A i, j \in R : f[i] = f[j] => i = j
    BY Zenon, <1>4, <2>1
  <2>3. \A i \in T : \E j \in R : f[j] = i
    BY Zenon, <1>3, <2>1
  <2> QED BY Zenon, <2>1, <2>2, <2>3 DEF Bijection, Injection, Surjection, IsInjective
<1>6. Cardinality(T) = Cardinality(R)
  BY Zenon, <1>1, <1>5, FS_Bijection DEF ExistsBijection
<1> QED BY <1>1, <1>6

\* A PDU arrives.
LEMMA InLineAppend ==
  ASSUME NEW s \in Seq(Pdus), NEW p \in Pdus, NEW o \in Seq(Pdus \cup {NoPdu}), NEW u \in {0, 1},
         InLine(o, u, s)
  PROVE  InLine(IF IsRequest(p) THEN Append(o, p) ELSE o, u, Append(s, p))
<1> DEFINE t == Append(s, p)
           A == AskedIn(s)
           n == Len(s) + 1
<1>1. /\ DOMAIN t = DOMAIN s \cup {n} /\ t[n] = p /\ n \notin DOMAIN s /\ n \in Nat
      /\ \A i \in DOMAIN s : t[i] = s[i] /\ ~(n <= i) /\ i <= n
  OBVIOUS
<1>2. IsFiniteSet(A) /\ Cardinality(A) \in Nat /\ A \subseteq DOMAIN s /\ A \subseteq Nat
  BY Zenon, AskedType
<1> HIDE DEF t, n
<1>3. Len(o) = u + Cardinality(A) /\ \A i \in A : o[u + Cardinality(UpTo(A, i))] = s[i]
  BY Zenon DEF InLine
<1>4. CASE ~IsRequest(p)
  <2>1. AskedIn(t) = A
    BY Zenon, <1>1, <1>4 DEF AskedIn
  <2>2. \A i \in A : t[i] = s[i]
    BY Zenon, <1>1, <1>2
  <2> HIDE DEF A
  <2>3. InLine(o, u, t)
    BY Zenon, <1>3, <2>1, <2>2 DEF InLine
  <2> QED BY Zenon, <1>4, <2>3 DEF t
<1>5. CASE IsRequest(p)
  <2> DEFINE r == Append(o, p)
  <2>1. AskedIn(t) = A \cup {n}
    BY Zenon, <1>1, <1>5 DEF AskedIn
  <2> HIDE DEF A
  <2>2. Cardinality(A \cup {n}) = Cardinality(A) + 1
    BY Zenon, <1>1, <1>2, FS_AddElement
  <2>3. /\ Len(r) = Len(o) + 1 /\ r[Len(o) + 1] = p
        /\ \A i \in 1 .. Len(o) : r[i] = o[i]
    OBVIOUS
  <2> HIDE DEF r
  <2>4. \A i \in A : UpTo(A \cup {n}, i) = UpTo(A, i)
    <3> SUFFICES ASSUME NEW i \in A PROVE UpTo(A \cup {n}, i) = UpTo(A, i)
      BY Zenon
    <3>1. ~(n <= i)
      BY Zenon, <1>1, <1>2
    <3> QED BY Zenon, <3>1 DEF UpTo
  <2>5. UpTo(A \cup {n}, n) = A \cup {n}
    <3>1. n <= n
      BY <1>1
    <3> QED BY Zenon, <1>1, <1>2, <3>1 DEF UpTo
  <2>6. ASSUME NEW i \in A PROVE r[u + Cardinality(UpTo(A, i))] = t[i]
    <3> DEFINE c == Cardinality(UpTo(A, i))
    <3>1. c \in Nat /\ c <= Cardinality(A) /\ c # 0
      BY Zenon, <1>2, UpToType
    <3>2. o[u + c] = s[i]
      BY Zenon, <1>3
    <3> HIDE DEF c
    <3>3. u + c \in 1 .. Len(o)
      BY <1>2, <1>3, <3>1
    <3>4. r[u + c] = t[i]
      BY Zenon, <1>1, <1>2, <2>3, <3>2, <3>3
    <3> QED BY Zenon, <3>4 DEF c
  <2>7. r[u + Cardinality(A \cup {n})] = t[n]
    <3>1. u + Cardinality(A \cup {n}) = Len(o) + 1
      BY <1>2, <1>3, <2>2
    <3> QED BY Zenon, <1>1, <2>3, <3>1
  <2>8. Len(r) = u + Cardinality(A \cup {n})
    BY <1>2, <1>3, <2>2, <2>3
  <2>9. InLine(r, u, t)
    BY Zenon, <2>1, <2>4, <2>5, <2>6, <2>7, <2>8 DEF InLine
  <2> QED BY Zenon, <1>5, <2>9 DEF r, t
<1> QED BY Zenon, <1>4, <1>5

\* The header of a PDU is read.
LEMMA InLineTail ==
  ASSUME NEW s \in Seq(Pdus), s # <<>>, NEW o \in Seq(Pdus \cup {NoPdu}), InLine(o, 0, s)
  PROVE  /\ InLine(o, IF IsRequest(Head(s)) THEN 1 ELSE 0, Tail(s))
         /\ IsRequest(Head(s)) => Head(o) = Head(s)
<1> DEFINE t == Tail(s)
           A == AskedIn(s)
           B == AskedIn(t)
           u == IF 1 \in A THEN 1 ELSE 0
<1>1. /\ t \in Seq(Pdus) /\ Len(t) = Len(s) - 1 /\ Len(s) \in Nat \ {0} /\ Head(s) = s[1]
      /\ \A i \in 1 .. Len(t) : t[i] = s[i + 1]
  OBVIOUS
<1>2. DOMAIN s = 1 .. Len(s) /\ DOMAIN t = 1 .. Len(t)
  BY <1>1
<1>3. /\ IsFiniteSet(A) /\ A \subseteq Nat \ {0} /\ A \subseteq Nat
      /\ IsFiniteSet(B) /\ B \subseteq Nat /\ B \subseteq DOMAIN t /\ Cardinality(B) \in Nat
  BY Zenon, <1>1, AskedType
<1> HIDE DEF t
<1>4. 1 \in A <=> IsRequest(Head(s))
  <2>1. 1 \in DOMAIN s
    BY <1>1, <1>2
  <2> QED BY Zenon, <1>1, <2>1 DEF AskedIn
<1>5. \A i : i \in B <=> i \in Nat \ {0} /\ i + 1 \in A
  <2>1. ASSUME NEW i \in Nat \ {0} PROVE i \in DOMAIN t <=> i + 1 \in DOMAIN s
    BY <1>1, <1>2
  <2>2. \A i \in DOMAIN t : i \in Nat \ {0} /\ t[i] = s[i + 1]
    BY <1>1, <1>2
  <2>3. ASSUME NEW i \in B PROVE i \in Nat \ {0} /\ i + 1 \in A
    <3>1. i \in DOMAIN t /\ IsRequest(t[i])
      BY Zenon DEF AskedIn
    <3> QED BY Zenon, <2>1, <2>2, <3>1 DEF AskedIn
  <2>4. ASSUME NEW i \in Nat \ {0}, i + 1 \in A PROVE i \in B
    <3>1. i + 1 \in DOMAIN s /\ IsRequest(s[i + 1])
      BY Zenon, <2>4 DEF AskedIn
    <3> QED BY Zenon, <2>1, <2>2, <3>1 DEF AskedIn
  <2> QED BY Zenon, <2>3, <2>4
<1> HIDE DEF A, B, u
<1>6. Cardinality(A) = u + Cardinality(B)
  BY Zenon, <1>3, <1>5, ShiftCount DEF u
<1>7. ASSUME NEW i \in B PROVE Cardinality(UpTo(A, i + 1)) = u + Cardinality(UpTo(B, i))
  <2> DEFINE S == UpTo(A, i + 1)
             T == UpTo(B, i)
  <2>1. i \in Nat \ {0} /\ 1 <= i + 1
    BY <1>5
  <2>2. IsFiniteSet(S) /\ S \subseteq Nat \ {0}
    BY Zenon, <1>3, UpToType DEF UpTo
  <2>3. \A j : j \in T <=> j \in Nat \ {0} /\ j + 1 \in S
    <3>1. \A j \in Nat : j <= i <=> j + 1 <= i + 1
      BY <2>1
    <3> QED BY Zenon, <1>5, <3>1 DEF UpTo
  <2>4. 1 \in S <=> 1 \in A
    BY Zenon, <2>1 DEF UpTo
  <2> HIDE DEF S, T
  <2>5. Cardinality(S) = (IF 1 \in S THEN 1 ELSE 0) + Cardinality(T)
    BY Zenon, <2>2, <2>3, ShiftCount
  <2> QED BY Zenon, <2>4, <2>5 DEF S, T, u
<1>8. Len(o) = Cardinality(A) /\ \A i \in A : o[Cardinality(UpTo(A, i))] = s[i]
  <2>1. /\ Len(o) = 0 + Cardinality(A) /\ Cardinality(A) \in Nat
        /\ \A i \in A : o[0 + Cardinality(UpTo(A, i))] = s[i] /\ Cardinality(UpTo(A, i)) \in Nat
    BY Zenon, <1>3, UpToType, FS_CardinalityType DEF InLine, A
  <2> QED BY <2>1
<1>9. InLine(o, u, t)
  <2>1. \A i \in B : o[u + Cardinality(UpTo(B, i))] = t[i]
    <3> SUFFICES ASSUME NEW i \in B PROVE o[u + Cardinality(UpTo(B, i))] = t[i]
      BY Zenon
    <3>1. i + 1 \in A /\ t[i] = s[i + 1]
      BY Zenon, <1>1, <1>2, <1>3, <1>5
    <3> QED BY Zenon, <1>7, <1>8, <3>1
  <2> QED BY Zenon, <1>6, <1>8, <2>1 DEF InLine, B
<1>10. ASSUME 1 \in A PROVE Head(o) = Head(s)
  <2>1. UpTo(A, 1) = {1}
    <3>1. \A j \in A : j <= 1 <=> j = 1
      BY <1>3
    <3> QED BY Zenon, <1>10, <3>1 DEF UpTo
  <2>2. Cardinality({1}) = 1
    BY Zenon, FS_Singleton
  <2>3. o[1] = s[1]
    <3>1. o[Cardinality(UpTo(A, 1))] = s[1]
      BY Zenon, <1>8, <1>10
    <3> QED BY Zenon, <2>1, <2>2, <3>1
  <2> QED BY <1>1, <2>3
<1> QED BY Zenon, <1>4, <1>9, <1>10 DEF t, u

\* The first is answered.
LEMMA InLinePaid ==
  ASSUME NEW s \in Seq(Pdus), NEW o \in Seq(Pdus \cup {NoPdu}), InLine(o, 1, s)
  PROVE  o # <<>> /\ InLine(Tail(o), 0, s)
<1> DEFINE A == AskedIn(s)
           r == Tail(o)
<1>1. IsFiniteSet(A) /\ A \subseteq Nat /\ Cardinality(A) \in Nat
  BY Zenon, AskedType
<1>2. Len(o) = 1 + Cardinality(A) /\ \A i \in A : o[1 + Cardinality(UpTo(A, i))] = s[i]
  BY Zenon DEF InLine
<1> HIDE DEF A
<1>3. o # <<>> /\ Len(r) = Cardinality(A) /\ \A i \in 1 .. Cardinality(A) : r[i] = o[1 + i]
  BY <1>1, <1>2
<1> HIDE DEF r
<1>4. \A i \in A : r[0 + Cardinality(UpTo(A, i))] = s[i]
  <2> SUFFICES ASSUME NEW i \in A PROVE r[0 + Cardinality(UpTo(A, i))] = s[i]
    BY Zenon
  <2> DEFINE c == Cardinality(UpTo(A, i))
  <2>1. c \in Nat /\ c <= Cardinality(A) /\ c # 0
    BY Zenon, <1>1, UpToType
  <2>2. o[1 + c] = s[i]
    BY Zenon, <1>2
  <2> HIDE DEF c
  <2>3. c \in 1 .. Cardinality(A) /\ 0 + c = c
    BY <1>1, <2>1
  <2>4. r[0 + c] = s[i]
    BY Zenon, <1>3, <2>2, <2>3
  <2> QED BY Zenon, <2>4 DEF c
<1>5. Len(r) = 0 + Cardinality(A)
  BY <1>1, <1>3
<1> QED BY Zenon, <1>3, <1>4, <1>5 DEF InLine, A, r

Held == IF Unanswered THEN 1 ELSE 0

Line == InLine(owed, Held, inbox) /\ (Unanswered => Head(owed) = hdr)

\* ResponsesInOrder, and what there is in hand: nothing while a header is read, and the
\* bind request until it is answered.
AnswerInv ==
  /\ reading = "header" => hdr = NoPdu
  /\ pc \in {"auth", "bound"} => hdr.cmd \in BindCommands
  /\ state # "UNBOUND" => Line

LEMMA LineIsOrder == ResponsesInOrder <=> (state # "UNBOUND" => Line)
<1>1. Asked = AskedIn(inbox)
  BY Zenon DEF Asked, AskedIn
<1>2. \A i : {j \in Asked : j <= i} = UpTo(AskedIn(inbox), i)
  BY Zenon, <1>1 DEF UpTo
<1> QED BY Zenon, <1>1, <1>2 DEF ResponsesInOrder, Line, InLine, Held

\* The request in hand is answered, after which it is no longer in hand.
LEMMA AnswerPays ==
  ASSUME IInv, AnswerInv, state # "UNBOUND", Unanswered, send_pdu(hdr), inbox' = inbox, ~Unanswered'
  PROVE  Line'
<1>1. inbox \in Seq(Pdus) /\ owed \in Seq(Pdus \cup {NoPdu}) /\ socket = "open"
  BY DEF IInv, TypeOK, SessionInv, ClosedOnce
<1>2. InLine(owed, 1, inbox) /\ Head(owed) = hdr
  BY Zenon DEF AnswerInv, Line, Held
<1>3. owed # <<>> /\ InLine(Tail(owed), 0, inbox)
  BY Zenon, <1>1, <1>2, InLinePaid
<1>4. owed' = Tail(owed)
  <2>1. socket # "closed"
    BY <1>1
  <2> QED BY Zenon, <1>2, <1>3, <2>1 DEF send_pdu
<1> QED BY Zenon, <1>3, <1>4 DEF Line, Held

LEMMA StepAnswers == IInv /\ AnswerInv /\ [Next]_vars => AnswerInv'
<1> SUFFICES ASSUME IInv, AnswerInv, [Next]_vars PROVE AnswerInv'
  OBVIOUS
<1> USE DEF sessionVars, keepaliveVars, ioVars, threadVars, peerVars
<1>0. /\ TypeOK /\ ReadInv /\ ClosedOnce /\ inbox \in Seq(Pdus)
      /\ owed \in Seq(Pdus \cup {NoPdu}) /\ ~IsRequest(NoPdu)
  BY DEF IInv, SessionInv, TypeOK, IsRequest
\* A step that leaves the session ended.
<1>1. ASSUME state' = "UNBOUND", reading' = "header" => hdr' = NoPdu,
             pc' \in {"auth", "bound"} => hdr'.cmd \in BindCommands
      PROVE  AnswerInv'
  BY Zenon, <1>1 DEF AnswerInv
\* A step that has nothing to do with what is owed.
<1>2. ASSUME UNCHANGED <<hdr, owed, inbox>>, state = "UNBOUND" => state' = "UNBOUND",
             reading' = "header" => reading = "header",
             pc' \in {"auth", "bound"} => hdr.cmd \in BindCommands,
             pc' \in {"update", "route"} <=> pc \in {"update", "route"}
      PROVE  AnswerInv'
  <2>1. hdr' = hdr /\ owed' = owed /\ inbox' = inbox
    BY <1>2
  <2>2. Unanswered' <=> Unanswered
    BY Zenon, <1>2, <2>1 DEF Unanswered
  <2>3. Line => Line'
    BY Zenon, <2>1, <2>2 DEF Line, Held
  <2> QED BY Zenon, <1>2, <2>1, <2>3 DEF AnswerInv
\* do_disconnect.
<1>3. ASSUME NEW q, NEW ret \in Closing, do_disconnect(q, ret), reading' = reading,
             hdr' \in {hdr, NoPdu}
      PROVE  AnswerInv'
  <2>1. state' = "UNBOUND" /\ pc' \notin {"auth", "bound"}
    BY <1>3 DEF do_disconnect
  <2> QED BY Zenon, <1>1, <1>3, <2>1 DEF AnswerInv
\* dispatch is done with a PDU, and the next header is read.
<1>4. ASSUME NEW q, next_pdu(q), pc' = "idle", state' = state, inbox' = inbox,
             state # "UNBOUND" /\ Unanswered => send_pdu(hdr),
             state # "UNBOUND" /\ ~Unanswered => owed' = owed
      PROVE  AnswerInv'
  <2>1. hdr' = NoPdu /\ ~Unanswered'
    BY <1>0, <1>4 DEF next_pdu, Unanswered
  <2>2. ASSUME state # "UNBOUND" PROVE Line'
    <3>1. CASE Unanswered
      BY Zenon, <1>4, <2>1, <2>2, <3>1, AnswerPays
    <3>2. CASE ~Unanswered
      BY Zenon, <1>4, <2>1, <2>2, <3>2 DEF AnswerInv, Line, Held
    <3> QED BY <3>1, <3>2
  <2>3. pc' \notin {"auth", "bound"}
    BY <1>4
  <2> QED BY Zenon, <1>4, <2>1, <2>2, <2>3 DEF AnswerInv
<1>5. CASE read_failed \/ handle_unbind \/ auth_rejected
  BY Zenon, <1>3, <1>5 DEF read_failed, handle_unbind, auth_rejected, Closing
<1>6. CASE posted_disconnect
  BY Zenon, <1>3, <1>6 DEF posted_disconnect, Closing
<1>7. CASE on_enquire_link_timeout
  <2>1. UNCHANGED <<hdr, owed, inbox>> /\ reading' = reading /\ pc = "idle"
    BY <1>7 DEF on_enquire_link_timeout, Turn
  <2>2. CASE do_disconnect(Tail(ready), "close")
    BY <1>3, <2>1, <2>2
  <2>3. CASE UNCHANGED <<state, pc>>
    BY <1>2, <2>1, <2>3
  <2> QED BY <1>7, <2>2, <2>3 DEF on_enquire_link_timeout
<1>8. CASE read_body \/ on_enquire_link_timer
  <2>1. UNCHANGED <<hdr, owed, inbox, state, pc>> /\ pc = "idle"
    BY <1>8 DEF read_body, on_enquire_link_timer, Turn
  <2>2. reading' = "header" => reading = "header"
    BY <1>8 DEF read_body, on_enquire_link_timer, start_read
  <2> QED BY <1>2, <2>1, <2>2
<1>9. CASE close_socket
  BY <1>0, <1>1, <1>9 DEF close_socket, ClosedOnce
<1>10. CASE handle_bind
  <2>1. UNCHANGED <<hdr, owed, inbox, state, reading>> /\ hdr.cmd \in BindCommands
        /\ pc = "idle" /\ pc' = "auth"
    BY <1>10 DEF handle_bind, Received, Turn
  <2> QED BY <1>2, <2>1
<1>11. CASE auth_accepted
  <2>1. UNCHANGED <<hdr, owed, inbox, reading>> /\ pc = "auth" /\ pc' = "bound"
    BY <1>11 DEF auth_accepted
  <2>2. state # "UNBOUND" /\ hdr.cmd \in BindCommands
    BY <2>1 DEF IInv, SessionInv, AnswerInv
  <2> QED BY <1>2, <2>1, <2>2
<1>12. CASE send_bind_resp \/ handle_submit_sm
  <2>1. /\ UNCHANGED <<hdr, inbox, state, reading>> /\ pc' \in {"update", "route"}
        /\ pc \in {"idle", "bound"} /\ send_pdu(hdr)
    BY <1>12 DEF send_bind_resp, handle_submit_sm, Received, Turn
  <2>2. Unanswered /\ ~Unanswered'
    <3>1. IsRequest(hdr)
      BY <1>12 DEF send_bind_resp, handle_submit_sm, Received, AnswerInv, IsRequest
    <3> QED BY <2>1, <3>1 DEF Unanswered
  <2>3. state # "UNBOUND" => Line'
    BY <2>1, <2>2, AnswerPays
  <2> QED BY <2>1, <2>3 DEF AnswerInv
<1>13. CASE handle_bind_again \/ handle_simple_request \/ refuse_submit_sm
  <2>1. /\ next_pdu(Tail(ready)) /\ pc' = "idle" /\ state' = state /\ inbox' = inbox
        /\ send_pdu(hdr) /\ Unanswered
    BY <1>13 DEF handle_bind_again, handle_simple_request, refuse_submit_sm, Received, Turn,
         Unanswered, IsRequest
  <2> QED BY Zenon, <1>4, <2>1
<1>14. CASE handle_deliver_sm_resp \/ handle_enquire_link_resp \/ call_returns
  <2>1. /\ pc' = "idle" /\ state' = state /\ inbox' = inbox /\ owed' = owed /\ ~Unanswered
    BY <1>14 DEF handle_deliver_sm_resp, handle_enquire_link_resp, call_returns, Received, Turn,
         Unanswered, IsRequest
  <2>2. \E q : next_pdu(q)
    BY Zenon, <1>14 DEF handle_deliver_sm_resp, handle_enquire_link_resp, call_returns
  <2> QED BY Zenon, <1>4, <2>1, <2>2
<1>15. CASE DbusStep
  BY <1>2, <1>15 DEF DbusStep, Disconnect, DeliverSm, send_deliver_sm, AnswerInv
<1>16. CASE BodyArrives \/ IntervalExpires \/ TimeoutExpires \/ PeerClose \/ signal \/ UNCHANGED vars
  <2>1. UNCHANGED <<hdr, owed, inbox, state, pc>> /\ (reading' = "header" => reading = "header")
    <3>1. CASE BodyArrives
      BY <3>1 DEF BodyArrives
    <3>2. CASE IntervalExpires \/ TimeoutExpires
      BY <3>2 DEF IntervalExpires, TimeoutExpires
    <3>3. CASE PeerClose \/ signal
      BY <3>3 DEF PeerClose, signal
    <3>4. CASE UNCHANGED vars
      BY <3>4 DEF vars
    <3> QED BY Zenon, <1>16, <3>1, <3>2, <3>3, <3>4
  <2> QED BY <1>2, <2>1 DEF AnswerInv
<1>17. ASSUME NEW p \in Pdus, PeerSend(p) PROVE AnswerInv'
  <2>1. UNCHANGED <<hdr, state, pc, reading>> /\ inbox' = Append(inbox, p)
        /\ owed' = IF IsRequest(p) THEN Append(owed, p) ELSE owed
    BY <1>17 DEF PeerSend
  <2>2. hdr' = hdr /\ state' = state /\ pc' = pc /\ reading' = reading
    BY <2>1
  <2>3. Unanswered' <=> Unanswered
    BY Zenon, <2>2 DEF Unanswered
  <2>4. ASSUME state # "UNBOUND" PROVE Line'
    <3>1. InLine(owed, Held, inbox) /\ (Unanswered => Head(owed) = hdr)
      BY Zenon, <2>4 DEF AnswerInv, Line
    <3>2. Held \in {0, 1} /\ Held' = Held
      BY Zenon, <2>3 DEF Held
    <3>3. InLine(owed', Held, inbox')
      <4>0. inbox \in Seq(Pdus) /\ p \in Pdus /\ owed \in Seq(Pdus \cup {NoPdu})
            /\ Held \in {0, 1} /\ InLine(owed, Held, inbox)
        BY Zenon, <1>0, <1>17, <3>1, <3>2
      <4>1. InLine(IF IsRequest(p) THEN Append(owed, p) ELSE owed, Held, Append(inbox, p))
        BY ONLY Zenon, <4>0, InLineAppend
      <4>2. inbox' = Append(inbox, p)
        BY <2>1
      <4>3. owed' = IF IsRequest(p) THEN Append(owed, p) ELSE owed
        BY <2>1
      <4> QED BY Zenon, <4>1, <4>2, <4>3
    <3>4. ASSUME Unanswered PROVE Head(owed') = hdr
      <4>1. Len(owed) = 1 + Cardinality(AskedIn(inbox)) /\ Head(owed) = hdr
        BY Zenon, <3>1, <3>4 DEF InLine, Held
      <4>2. Cardinality(AskedIn(inbox)) \in Nat
        BY Zenon, <1>0, AskedType
      <4>3. owed # <<>>
        BY <4>1, <4>2
      <4>4. Head(Append(owed, p)) = Head(owed)
        BY <1>0, <4>3
      <4> QED BY Zenon, <2>1, <4>1, <4>4
    <3> QED BY Zenon, <2>2, <2>3, <3>2, <3>3, <3>4 DEF Line
  <2> QED BY Zenon, <2>2, <2>4 DEF AnswerInv
<1>18. CASE HeaderArrives
  <2>1. /\ UNCHANGED <<state, pc, owed>> /\ reading = "header" /\ reading' = "none"
        /\ \/ inbox # <<>> /\ hdr' = Head(inbox) /\ inbox' = Tail(inbox)
           \/ UNCHANGED <<hdr, inbox>>
    BY <1>18 DEF HeaderArrives
  <2>2. hdr = NoPdu /\ pc \notin {"auth", "bound", "update", "route"} /\ ~Unanswered
    <3>1. hdr = NoPdu /\ ~IsRequest(hdr)
      BY Zenon, <1>0, <2>1 DEF AnswerInv
    <3>2. pc \notin {"auth", "bound", "update", "route"}
      <4>1. /\ reading # "none"
            /\ pc # "idle" => socket = "open"
            /\ socket = "open" /\ pc \notin {"idle", "close"} => reading = "none"
        BY Zenon, <1>0, <2>1 DEF ReadInv
      <4> QED BY <4>1
    <3> QED BY Zenon, <3>1, <3>2 DEF Unanswered
  <2>3. CASE UNCHANGED <<hdr, inbox>>
    BY <1>2, <2>1, <2>2, <2>3
  <2>4. CASE inbox # <<>> /\ hdr' = Head(inbox) /\ inbox' = Tail(inbox)
    <3>1. state' = state /\ pc' = pc /\ owed' = owed
      BY <2>1
    <3>2. Unanswered' <=> IsRequest(Head(inbox))
      BY Zenon, <2>2, <2>4, <3>1 DEF Unanswered
    <3>3. ASSUME state # "UNBOUND" PROVE Line'
      <4>1. InLine(owed, 0, inbox)
        BY Zenon, <2>2, <3>3 DEF AnswerInv, Line, Held
      <4>2. /\ InLine(owed, IF IsRequest(Head(inbox)) THEN 1 ELSE 0, Tail(inbox))
            /\ IsRequest(Head(inbox)) => Head(owed) = Head(inbox)
        BY Zenon, <1>0, <2>4, <4>1, InLineTail
      <4> QED BY Zenon, <2>4, <3>1, <3>2, <4>2 DEF Line, Held
    <3>4. reading' # "header" /\ pc' \notin {"auth", "bound"}
      BY <2>1, <2>2, <3>1
    <3> QED BY Zenon, <3>1, <3>3, <3>4 DEF AnswerInv
  <2> QED BY <2>1, <2>3, <2>4
<1> QED
  BY Zenon, <1>5, <1>6, <1>7, <1>8, <1>9, <1>10, <1>11, <1>12, <1>13, <1>14, <1>15, <1>16, <1>17,
     <1>18 DEF Next, AsioStep, Environment, Reactor, Stopped

\* Every request is answered exactly once and in its turn, whichever handler answers
\* it, however many requests the peer sends ahead and whatever the asio thread is
\* blocked in meanwhile.
THEOREM AnswersInOrder == Spec => []ResponsesInOrder
<1>1. Init => AnswerInv
  <2> SUFFICES ASSUME Init PROVE AnswerInv
    OBVIOUS
  <2>1. hdr = NoPdu /\ pc = "idle" /\ DOMAIN inbox = {} /\ Len(owed) = 0 /\ ~Unanswered
    BY DEF Init, Unanswered, IsRequest
  <2>2. AskedIn(inbox) = {} /\ Cardinality({}) = 0 /\ 0 = 0 + 0
    BY <2>1, FS_EmptySet DEF AskedIn
  <2>3. InLine(owed, 0, inbox)
    BY Zenon, <2>1, <2>2 DEF InLine
  <2> QED BY <2>1, <2>3 DEF AnswerInv, Line, Held
<1>2. AnswerInv => ResponsesInOrder
  BY LineIsOrder DEF AnswerInv
<1> QED BY <1>1, <1>2, StepAnswers, Inductive, PTL DEF Spec
===============================================================================
