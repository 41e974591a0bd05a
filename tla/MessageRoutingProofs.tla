------------------------- MODULE MessageRoutingProofs -------------------------
(***************************************************************************)
(* Theorems on the path of a message, for any number of sessions, messages  *)
(* and restarts of the server.                                              *)
(*                                                                         *)
(* A message moves through the server's queue, the queue of a session's     *)
(* D-Bus thread, that thread, and onto the wire.  Seen from session t these  *)
(* are one pipeline: wire[t], dpc[t], deliverq[t], queue.                   *)
(***************************************************************************)
EXTENDS MessageRouting, TLAPS

CallType ==
  [method : {"UpdateSessionDetails", "RouteMessage"}, from : Sessions, arg : Msgs \cup States]

RouteType == [msg : Msgs, from : Sessions, to : Sessions]

TypeInv ==
  /\ state \in [Sessions -> States] /\ wire \in [Sessions -> Seq(Msgs \cup {"bind_resp"})]
  /\ deliverq \in [Sessions -> Seq(Msgs)] /\ dpc \in [Sessions -> Msgs \cup {NoMsg}]
  /\ submitted \in [Sessions -> Seq(Msgs)] /\ DOMAIN pc = Sessions /\ DOMAIN info = Sessions
  /\ queue \in Seq(CallType)
  /\ \A i \in DOMAIN queue : queue[i].method = "RouteMessage" => queue[i].arg \in Msgs
  /\ routing \in RouteType \cup {NoRoute}
  /\ result \in [Msgs -> Sessions \cup {Empty, Pending}]

\* a may be ahead of b in a pipeline, sub being what was submitted: they are
\* different messages, and those of one session in the order of submission.
Ahead(sub, a, b) ==
  a \in Msgs /\ b \in Msgs =>
    /\ a # b
    /\ \A s \in Sessions : \A k, l \in DOMAIN sub[s] :
         a = sub[s][k] /\ b = sub[s][l] => k < l

\* A pipeline is in order: w on the wire, d at the D-Bus thread, q waiting for
\* it, and the calls at the server.
InOrder(sub, w, d, q, calls) ==
  /\ \A i, j \in DOMAIN w : i < j => Ahead(sub, w[i], w[j])
  /\ \A i \in DOMAIN w : Ahead(sub, w[i], d)
  /\ \A i \in DOMAIN w, j \in DOMAIN q : Ahead(sub, w[i], q[j])
  /\ \A i \in DOMAIN w, j \in DOMAIN calls : Ahead(sub, w[i], calls[j].arg)
  /\ \A j \in DOMAIN q : Ahead(sub, d, q[j])
  /\ \A j \in DOMAIN calls : Ahead(sub, d, calls[j].arg)
  /\ \A i, j \in DOMAIN q : i < j => Ahead(sub, q[i], q[j])
  /\ \A i \in DOMAIN q, j \in DOMAIN calls : Ahead(sub, q[i], calls[j].arg)
  /\ \A i, j \in DOMAIN calls : i < j => Ahead(sub, calls[i].arg, calls[j].arg)

OrderInv ==
  \A t \in Sessions : InOrder(submitted, wire[t], dpc[t], deliverq[t], queue)

In(s, m) == \E i \in DOMAIN s : s[i] = m

\* Message m is, or was written, at a session.
At(w, d, q, m) == In(w, m) \/ d = m \/ In(q, m)

Called(calls, m) == \E i \in DOMAIN calls : calls[i].arg = m

Submitted(sub, m) == \E s \in Sessions : In(sub[s], m)

\* It is at one session only, and was submitted.
PlaceInv ==
  \A m \in Msgs :
    /\ Called(queue, m) => Submitted(submitted, m)
    /\ \A t \in Sessions : At(wire[t], dpc[t], deliverq[t], m) => Submitted(submitted, m)
    /\ \A t, u \in Sessions :
         At(wire[t], dpc[t], deliverq[t], m) /\ At(wire[u], dpc[u], deliverq[u], m) => t = u

\* Until its bind is answered nothing is on its way to a session: the server
\* does not list it, nor will it once it has served the calls it holds.
SilentInv ==
  \A s \in Sessions :
    /\ wire[s] # <<>> => wire[s][1] = "bind_resp"
    /\ pc[s] = Bound => state[s] # "UNBOUND"
    /\ wire[s] = <<>> /\ state[s] # "UNBOUND" =>
         /\ info[s] \notin RxStates /\ deliverq[s] = <<>> /\ dpc[s] = NoMsg
         /\ \A i \in DOMAIN queue :
              queue[i].from = s => queue[i].method # "UpdateSessionDetails"

LEMMA AcceptedIsSubmitted == \A m : m \in accepted <=> Submitted(submitted, m)
BY DEF accepted, Range, Submitted, In

-----------------------------------------------------------------------------
(* Types.                                                                   *)

LEMMA CallTypes ==
  ASSUME NEW s \in Sessions
  PROVE  /\ \A st \in States : UpdateCall(s, st) \in CallType
         /\ \A m \in Msgs : RouteCall(s, m) \in CallType
BY DEF UpdateCall, RouteCall, CallType

LEMMA HeadOfQueue ==
  ASSUME TypeInv, queue # <<>>
  PROVE  /\ Head(queue) = queue[1] /\ 1 \in DOMAIN queue /\ Head(queue) \in CallType
         /\ Head(queue).method = "RouteMessage" => Head(queue).arg \in Msgs
         /\ Tail(queue) \in Seq(CallType)
         /\ \A i \in DOMAIN Tail(queue) : i + 1 \in DOMAIN queue /\ Tail(queue)[i] = queue[i + 1]
         /\ \A i \in DOMAIN Tail(queue) : i \in Nat \ {0}
<1>1. queue \in Seq(CallType)
  BY DEF TypeInv
<1>2. Head(queue) = queue[1] /\ 1 \in DOMAIN queue /\ Head(queue) \in CallType
  BY <1>1
<1>3. Tail(queue) \in Seq(CallType)
  BY <1>1
<1>4. \A i \in DOMAIN Tail(queue) :
        /\ i + 1 \in DOMAIN queue /\ Tail(queue)[i] = queue[i + 1] /\ i \in Nat \ {0}
  BY <1>1
<1> QED BY <1>2, <1>3, <1>4 DEF TypeInv

LEMMA ReplyType ==
  ASSUME NEW c, DOMAIN pc = Sessions, reply(c)
  PROVE  DOMAIN pc' = Sessions
BY DEF reply

LEMMA AnsweredType ==
  ASSUME TypeInv, NEW t \in Sessions, NEW m \in Msgs, NEW r \in Sessions \cup {Empty},
         answered(t, m, r)
  PROVE  /\ result' \in [Msgs -> Sessions \cup {Empty, Pending}]
         /\ routing' \in RouteType \cup {NoRoute} /\ DOMAIN pc' = Sessions
<1>1. CASE routing.to = t /\ routing.msg = m
  <2>1. result' = [result EXCEPT ![m] = r] /\ routing' = NoRoute
    BY <1>1 DEF answered, route_returns
  <2>2. reply(RouteCall(routing.from, routing.msg)) /\ DOMAIN pc = Sessions
    BY <1>1 DEF answered, route_returns, TypeInv
  <2>3. DOMAIN pc' = Sessions
    BY <2>2, ReplyType
  <2> QED BY <2>1, <2>3 DEF TypeInv
<1>2. CASE ~(routing.to = t /\ routing.msg = m)
  BY <1>2 DEF answered, TypeInv
<1> QED BY <1>1, <1>2

LEMMA AsioTypes ==
  ASSUME TypeInv, NEW s \in Sessions, AsioStep(s)
  PROVE  TypeInv'
<1>1. CASE handle_bind(s)
  <2>1. PICK st \in RxStates \cup TxStates : state' = [state EXCEPT ![s] = st]
    BY Zenon, <1>1 DEF handle_bind
  <2> QED BY <1>1, <2>1 DEF handle_bind, TypeInv, serverVars, States
<1>2. CASE send_bind_resp(s)
  <2>1. state[s] \in States /\ UpdateCall(s, state[s]) \in CallType
    BY CallTypes DEF TypeInv
  <2>2. /\ queue' = Append(queue, UpdateCall(s, state[s])) /\ queue' \in Seq(CallType)
        /\ UpdateCall(s, state[s]).method = "UpdateSessionDetails"
    BY <1>2, <2>1 DEF send_bind_resp, UpdateCall, TypeInv
  <2>3. \A i \in DOMAIN queue' : queue'[i].method = "RouteMessage" => queue'[i].arg \in Msgs
    BY <2>2 DEF TypeInv
  <2>4. wire' \in [Sessions -> Seq(Msgs \cup {"bind_resp"})]
    BY <1>2 DEF send_bind_resp, send_pdu, TypeInv
  <2> QED BY Zenon, <1>2, <2>2, <2>3, <2>4 DEF send_bind_resp, TypeInv
<1>3. CASE call_times_out(s) \/ do_disconnect(s)
  BY Zenon, <1>3 DEF call_times_out, do_disconnect, TypeInv, serverVars, States
<1>4. ASSUME NEW m \in Msgs, handle_submit_sm(s, m) PROVE TypeInv'
  <2>1. RouteCall(s, m) \in CallType /\ RouteCall(s, m).arg = m
    BY CallTypes DEF RouteCall
  <2>2. queue' = Append(queue, RouteCall(s, m)) /\ queue' \in Seq(CallType)
    BY <1>4, <2>1 DEF handle_submit_sm, TypeInv
  <2>3. \A i \in DOMAIN queue' : queue'[i].method = "RouteMessage" => queue'[i].arg \in Msgs
    BY <2>1, <2>2 DEF TypeInv
  <2>4. submitted' \in [Sessions -> Seq(Msgs)]
    BY <1>4 DEF handle_submit_sm, TypeInv
  <2> QED BY <1>4, <2>2, <2>3, <2>4 DEF handle_submit_sm, TypeInv
<1> QED BY <1>1, <1>2, <1>3, <1>4 DEF AsioStep

LEMMA ServerTypes ==
  ASSUME TypeInv, ServerStep
  PROVE  TypeInv'
<1>1. CASE UpdateSessionDetails \/ RouteMessage_none
  <2>1. queue # <<>> /\ queue' = Tail(queue)
    BY <1>1 DEF UpdateSessionDetails, RouteMessage_none, Serves
  <2>2. queue' \in Seq(CallType)
        /\ \A i \in DOMAIN queue' : queue'[i].method = "RouteMessage" => queue'[i].arg \in Msgs
    BY <2>1, HeadOfQueue DEF TypeInv
  <2>3. DOMAIN pc' = Sessions /\ DOMAIN info' = Sessions
    BY <1>1, ReplyType DEF UpdateSessionDetails, RouteMessage_none, TypeInv
  <2>4. result' \in [Msgs -> Sessions \cup {Empty, Pending}]
    BY Zenon, <1>1 DEF UpdateSessionDetails, RouteMessage_none, TypeInv
  <2> QED BY <1>1, <2>2, <2>3, <2>4 DEF UpdateSessionDetails, RouteMessage_none, TypeInv
<1>2. CASE RouteMessage
  <2>1. queue # <<>> /\ queue' = Tail(queue) /\ Head(queue).method = "RouteMessage"
    BY <1>2 DEF RouteMessage, Serves
  <2>2. Head(queue).arg \in Msgs /\ Head(queue).from \in Sessions
    BY <2>1, HeadOfQueue DEF CallType
  <2>3. queue' \in Seq(CallType)
        /\ \A i \in DOMAIN queue' : queue'[i].method = "RouteMessage" => queue'[i].arg \in Msgs
    BY <2>1, HeadOfQueue DEF TypeInv
  <2>4. PICK t \in Sessions :
          /\ routing' = [msg |-> Head(queue).arg, from |-> Head(queue).from, to |-> t]
          /\ deliverq' = [deliverq EXCEPT ![t] = Append(@, Head(queue).arg)]
    BY Zenon, <1>2 DEF RouteMessage, Listed
  <2>5. routing' \in RouteType
    BY <2>2, <2>4 DEF RouteType
  <2>6. deliverq' \in [Sessions -> Seq(Msgs)]
    BY <2>2, <2>4 DEF TypeInv
  <2> QED BY <1>2, <2>3, <2>5, <2>6 DEF RouteMessage, TypeInv
<1>3. CASE deliver_times_out
  <2>1. routing \in RouteType
    BY <1>3 DEF deliver_times_out, TypeInv
  <2>2. result' \in [Msgs -> Sessions \cup {Empty, Pending}] /\ routing' = NoRoute
        /\ DOMAIN pc' = Sessions
    BY Zenon, <1>3, <2>1 DEF deliver_times_out, route_returns, reply, TypeInv
  <2> QED BY <1>3, <2>2 DEF deliver_times_out, TypeInv
<1>4. CASE server_restarts
  BY <1>4 DEF server_restarts, TypeInv
<1>5. ASSUME NEW s \in Sessions, register_session(s) PROVE TypeInv'
  BY <1>5 DEF register_session, TypeInv, States
<1> QED BY Zenon, <1>1, <1>2, <1>3, <1>4, <1>5 DEF ServerStep

LEMMA DbusTypes ==
  ASSUME TypeInv, NEW t \in Sessions, DbusStep(t)
  PROVE  TypeInv'
<1>1. CASE DeliverSm_refused(t)
  <2>1. deliverq[t] \in Seq(Msgs) /\ deliverq[t] # <<>> /\ deliverq' = [deliverq EXCEPT ![t] = Tail(@)]
    BY <1>1 DEF DeliverSm_refused, TypeInv
  <2>2. Head(deliverq[t]) \in Msgs /\ Tail(deliverq[t]) \in Seq(Msgs)
    BY <2>1
  <2>3. deliverq' \in [Sessions -> Seq(Msgs)]
    BY <2>1, <2>2 DEF TypeInv
  <2>4. answered(t, Head(deliverq[t]), Empty)
    BY <1>1 DEF DeliverSm_refused
  <2> QED BY <1>1, <2>2, <2>3, <2>4, AnsweredType DEF DeliverSm_refused, TypeInv
<1>2. CASE DeliverSm(t)
  <2>1. deliverq[t] \in Seq(Msgs) /\ deliverq[t] # <<>>
    BY <1>2 DEF DeliverSm, TypeInv
  <2>2. Head(deliverq[t]) \in Msgs /\ Tail(deliverq[t]) \in Seq(Msgs)
    BY <2>1
  <2> QED BY <1>2, <2>2 DEF DeliverSm, TypeInv, serverVars
<1>3. CASE send_deliver_sm(t)
  <2>1. dpc[t] \in Msgs /\ dpc' = [dpc EXCEPT ![t] = NoMsg] /\ answered(t, dpc[t], t)
    BY <1>3 DEF send_deliver_sm, TypeInv
  <2>2. wire' \in [Sessions -> Seq(Msgs \cup {"bind_resp"})]
    BY <1>3, <2>1 DEF send_deliver_sm, send_pdu, TypeInv
  <2>3. dpc' \in [Sessions -> Msgs \cup {NoMsg}]
    BY <2>1 DEF TypeInv
  <2> QED BY <1>3, <2>1, <2>2, <2>3, AnsweredType DEF send_deliver_sm, TypeInv
<1> QED BY <1>1, <1>2, <1>3 DEF DbusStep

LEMMA Types == TypeInv /\ [Next]_vars => TypeInv'
<1>1. TypeInv /\ UNCHANGED vars => TypeInv'
  BY DEF TypeInv, vars, sessionVars, serverVars
<1> QED BY <1>1, AsioTypes, ServerTypes, DbusTypes DEF Next

-----------------------------------------------------------------------------
(* The order of a pipeline.                                                 *)

WireType == Seq(Msgs \cup {"bind_resp"})

LEMMA AppendFacts ==
  ASSUME NEW S, NEW s \in Seq(S), NEW e \in S
  PROVE  /\ \A i \in DOMAIN Append(s, e) :
              \/ i \in DOMAIN s /\ Append(s, e)[i] = s[i]
              \/ i = Len(s) + 1 /\ Append(s, e)[i] = e
         /\ \A i \in DOMAIN s : i < Len(s) + 1 /\ ~(Len(s) + 1 < i)
         /\ ~(Len(s) + 1 < Len(s) + 1)
         /\ \A i \in DOMAIN s : i \in DOMAIN Append(s, e) /\ Append(s, e)[i] = s[i]
         /\ Len(s) + 1 \in DOMAIN Append(s, e) /\ Append(s, e)[Len(s) + 1] = e
OBVIOUS

LEMMA AppendCall ==
  ASSUME NEW q \in Seq(CallType), NEW c \in CallType
  PROVE  \A i \in DOMAIN Append(q, c) :
           (i \in DOMAIN q /\ Append(q, c)[i] = q[i]) \/ Append(q, c)[i] = c
BY AppendFacts

LEMMA InAppend ==
  ASSUME NEW w \in Seq(Msgs), NEW m \in Msgs
  PROVE  \A k : In(Append(w, m), k) <=> In(w, k) \/ k = m
BY AppendFacts DEF In

LEMMA InWire ==
  ASSUME NEW w \in WireType, NEW m \in Msgs
  PROVE  In(Append(w, m), m)
BY AppendFacts DEF In, WireType

LEMMA TailFacts ==
  ASSUME NEW S, NEW s \in Seq(S), s # <<>>
  PROVE  /\ 1 \in DOMAIN s /\ Head(s) = s[1]
         /\ \A i \in DOMAIN Tail(s) : i + 1 \in DOMAIN s /\ Tail(s)[i] = s[i + 1] /\ 1 < i + 1
         /\ \A i, j \in DOMAIN Tail(s) : i < j => i + 1 < j + 1
OBVIOUS

\* The server drops a call, or all of them.
LEMMA CallServed ==
  ASSUME NEW sub, NEW w, NEW d, NEW q, NEW calls \in Seq(CallType),
         InOrder(sub, w, d, q, calls)
  PROVE  /\ calls # <<>> => InOrder(sub, w, d, q, Tail(calls))
         /\ InOrder(sub, w, d, q, <<>>)
<1>1. ASSUME calls # <<>> PROVE InOrder(sub, w, d, q, Tail(calls))
  BY <1>1, TailFacts DEF InOrder
<1>2. InOrder(sub, w, d, q, <<>>)
  BY DEF InOrder
<1> QED BY <1>1, <1>2

\* It takes a call up and passes its message on.
LEMMA CallRouted ==
  ASSUME NEW sub, NEW w, NEW d, NEW q \in Seq(Msgs), NEW calls \in Seq(CallType), calls # <<>>,
         calls[1].arg \in Msgs, InOrder(sub, w, d, q, calls)
  PROVE  InOrder(sub, w, d, Append(q, Head(calls).arg), Tail(calls))
<1> DEFINE m == Head(calls).arg
           p == Append(q, m)
           rest == Tail(calls)
<1>1. /\ 1 \in DOMAIN calls /\ m = calls[1].arg /\ m \in Msgs
      /\ \A i \in DOMAIN rest : i + 1 \in DOMAIN calls /\ rest[i] = calls[i + 1] /\ 1 < i + 1
      /\ \A i, j \in DOMAIN rest : i < j => i + 1 < j + 1
  BY TailFacts
<1>2. /\ \A i \in DOMAIN p : \/ i \in DOMAIN q /\ p[i] = q[i]
                             \/ i = Len(q) + 1 /\ p[i] = m
      /\ \A i \in DOMAIN q : i < Len(q) + 1 /\ ~(Len(q) + 1 < i)
      /\ ~(Len(q) + 1 < Len(q) + 1)
  BY <1>1, AppendFacts
<1> HIDE DEF m, p, rest
<1>3. \A i \in DOMAIN w, j \in DOMAIN p : Ahead(sub, w[i], p[j])
  BY <1>1, <1>2 DEF InOrder
<1>4. \A i \in DOMAIN w, j \in DOMAIN rest : Ahead(sub, w[i], rest[j].arg)
  BY <1>1 DEF InOrder
<1>5. \A j \in DOMAIN p : Ahead(sub, d, p[j])
  BY <1>1, <1>2 DEF InOrder
<1>6. \A j \in DOMAIN rest : Ahead(sub, d, rest[j].arg)
  BY <1>1 DEF InOrder
<1>7. \A i, j \in DOMAIN p : i < j => Ahead(sub, p[i], p[j])
  BY <1>1, <1>2 DEF InOrder
<1>8. \A i \in DOMAIN p, j \in DOMAIN rest : Ahead(sub, p[i], rest[j].arg)
  BY <1>1, <1>2 DEF InOrder
<1>9. \A i, j \in DOMAIN rest : i < j => Ahead(sub, rest[i].arg, rest[j].arg)
  BY <1>1 DEF InOrder
<1>10. InOrder(sub, w, d, p, rest)
  BY <1>3, <1>4, <1>5, <1>6, <1>7, <1>8, <1>9 DEF InOrder
<1> QED BY <1>10 DEF m, p, rest

\* The D-Bus thread takes a message up, or refuses it.
LEMMA MessageTaken ==
  ASSUME NEW sub, NEW w, NEW q \in Seq(Msgs), q # <<>>, NEW calls, NEW d,
         InOrder(sub, w, d, q, calls)
  PROVE  /\ InOrder(sub, w, d, Tail(q), calls)
         /\ InOrder(sub, w, Head(q), Tail(q), calls)
BY TailFacts DEF InOrder

LEMMA NotAMessage ==
  ASSUME NEW sub, NEW a, NEW b, a \notin Msgs \/ b \notin Msgs
  PROVE  Ahead(sub, a, b)
BY DEF Ahead

\* It sends the message, or has no connection to send it on.
LEMMA MessageSent ==
  ASSUME NEW sub, NEW w \in WireType, NEW d \in Msgs, NEW q, NEW calls,
         InOrder(sub, w, d, q, calls)
  PROVE  /\ InOrder(sub, w, NoMsg, q, calls)
         /\ InOrder(sub, Append(w, d), NoMsg, q, calls)
<1> DEFINE v == Append(w, d)
<1>1. /\ \A i \in DOMAIN v : \/ i \in DOMAIN w /\ v[i] = w[i]
                             \/ i = Len(w) + 1 /\ v[i] = d
      /\ \A i \in DOMAIN w : i < Len(w) + 1 /\ ~(Len(w) + 1 < i)
      /\ ~(Len(w) + 1 < Len(w) + 1)
  BY AppendFacts DEF WireType
<1>2. \A a : Ahead(sub, a, NoMsg) /\ Ahead(sub, NoMsg, a)
  BY NotAMessage, RoutingAssumption
<1> HIDE DEF v
<1>3. InOrder(sub, w, NoMsg, q, calls)
  BY <1>2 DEF InOrder
<1>4. \A i, j \in DOMAIN v : i < j => Ahead(sub, v[i], v[j])
  BY <1>1 DEF InOrder
<1>5. \A i \in DOMAIN v, j \in DOMAIN q : Ahead(sub, v[i], q[j])
  BY <1>1 DEF InOrder
<1>6. \A i \in DOMAIN v, j \in DOMAIN calls : Ahead(sub, v[i], calls[j].arg)
  BY <1>1 DEF InOrder
<1>7. InOrder(sub, v, NoMsg, q, calls)
  BY <1>2, <1>3, <1>4, <1>5, <1>6 DEF InOrder
<1> QED BY <1>3, <1>7 DEF v

\* A bind_resp joins the wire, which is no message.
LEMMA BindSent ==
  ASSUME NEW sub, NEW w \in WireType, NEW d, NEW q, NEW calls,
         InOrder(sub, w, d, q, calls)
  PROVE  InOrder(sub, Append(w, "bind_resp"), d, q, calls)
<1> DEFINE v == Append(w, "bind_resp")
<1>1. \A i \in DOMAIN v : \/ i \in DOMAIN w /\ v[i] = w[i]
                          \/ i = Len(w) + 1 /\ v[i] = "bind_resp"
  BY AppendFacts DEF WireType
<1>2. \A a : Ahead(sub, a, "bind_resp") /\ Ahead(sub, "bind_resp", a)
  BY NotAMessage, RoutingAssumption
<1> HIDE DEF v
<1>3. InOrder(sub, v, d, q, calls)
  BY <1>1, <1>2 DEF InOrder
<1> QED BY <1>3 DEF v

\* A call joins the calls behind everything else.
LEMMA CallMade ==
  ASSUME NEW sub, NEW w, NEW d, NEW q, NEW calls \in Seq(CallType), NEW c \in CallType,
         InOrder(sub, w, d, q, calls),
         \A a : At(w, d, q, a) \/ Called(calls, a) => Ahead(sub, a, c.arg)
  PROVE  InOrder(sub, w, d, q, Append(calls, c))
<1> DEFINE more == Append(calls, c)
<1>1. /\ \A i \in DOMAIN more : \/ i \in DOMAIN calls /\ more[i] = calls[i]
                                \/ i = Len(calls) + 1 /\ more[i] = c
      /\ \A i \in DOMAIN calls : i < Len(calls) + 1 /\ ~(Len(calls) + 1 < i)
      /\ ~(Len(calls) + 1 < Len(calls) + 1)
  BY AppendFacts
<1> HIDE DEF more
<1>2. \A i \in DOMAIN w, j \in DOMAIN more : Ahead(sub, w[i], more[j].arg)
  BY <1>1 DEF InOrder, At, In
<1>3. \A j \in DOMAIN more : Ahead(sub, d, more[j].arg)
  BY <1>1 DEF InOrder, At
<1>4. \A i \in DOMAIN q, j \in DOMAIN more : Ahead(sub, q[i], more[j].arg)
  BY <1>1 DEF InOrder, At, In
<1>5. \A i, j \in DOMAIN more : i < j => Ahead(sub, more[i].arg, more[j].arg)
  BY <1>1 DEF InOrder, Called
<1>6. InOrder(sub, w, d, q, more)
  BY <1>2, <1>3, <1>4, <1>5 DEF InOrder
<1> QED BY <1>6 DEF more

\* A new message is submitted.
LEMMA NewMessage ==
  ASSUME NEW sub \in [Sessions -> Seq(Msgs)], NEW s \in Sessions, NEW m \in Msgs,
         ~Submitted(sub, m), NEW new, new[s] = Append(sub[s], m),
         \A r \in Sessions : r # s => new[r] = sub[r]
  PROVE  /\ \A a, b : Ahead(sub, a, b) /\ a # m /\ b # m => Ahead(new, a, b)
         /\ \A a : a # m => Ahead(new, a, m)
         /\ \A a : Submitted(new, a) <=> Submitted(sub, a) \/ a = m
<1>1. /\ \A r \in Sessions : r # s => new[r] = sub[r]
      /\ new[s] = Append(sub[s], m)
  OBVIOUS
<1>2. /\ \A i \in DOMAIN new[s] : \/ i \in DOMAIN sub[s] /\ new[s][i] = sub[s][i]
                                  \/ i = Len(sub[s]) + 1 /\ new[s][i] = m
      /\ \A i \in DOMAIN sub[s] : i < Len(sub[s]) + 1 /\ ~(Len(sub[s]) + 1 < i)
      /\ \A i \in DOMAIN sub[s] : i \in DOMAIN new[s] /\ new[s][i] = sub[s][i]
      /\ Len(sub[s]) + 1 \in DOMAIN new[s] /\ new[s][Len(sub[s]) + 1] = m
  <2>1. sub[s] \in Seq(Msgs)
    OBVIOUS
  <2> DEFINE t == Append(sub[s], m)
  <2>2. /\ \A i \in DOMAIN t : \/ i \in DOMAIN sub[s] /\ t[i] = sub[s][i]
                               \/ i = Len(sub[s]) + 1 /\ t[i] = m
        /\ \A i \in DOMAIN sub[s] : i < Len(sub[s]) + 1 /\ ~(Len(sub[s]) + 1 < i)
        /\ \A i \in DOMAIN sub[s] : i \in DOMAIN t /\ t[i] = sub[s][i]
        /\ Len(sub[s]) + 1 \in DOMAIN t /\ t[Len(sub[s]) + 1] = m
    BY <2>1, AppendFacts
  <2>3. new[s] = t
    BY <1>1
  <2> HIDE DEF t
  <2> QED BY <2>2, <2>3
<1>3. \A r \in Sessions : \A k \in DOMAIN sub[r] : sub[r][k] # m
  BY DEF Submitted, In
<1>4. ASSUME NEW a, NEW b, Ahead(sub, a, b), a # m, b # m PROVE Ahead(new, a, b)
  <2> SUFFICES ASSUME a \in Msgs, b \in Msgs, NEW r \in Sessions,
                      NEW k \in DOMAIN new[r], NEW l \in DOMAIN new[r],
                      a = new[r][k], b = new[r][l]
               PROVE  k < l
    BY <1>4 DEF Ahead
  <2>1. k \in DOMAIN sub[r] /\ l \in DOMAIN sub[r] /\ a = sub[r][k] /\ b = sub[r][l]
    BY Zenon, <1>1, <1>2, <1>4
  <2> QED BY <1>4, <2>1 DEF Ahead
<1>5. ASSUME NEW a, a # m PROVE Ahead(new, a, m)
  <2> SUFFICES ASSUME NEW r \in Sessions, NEW k \in DOMAIN new[r], NEW l \in DOMAIN new[r],
                      a = new[r][k], m = new[r][l]
               PROVE  k < l
    BY <1>5 DEF Ahead
  <2>1. r = s
    BY <1>1, <1>3
  <2>2. l = Len(sub[s]) + 1 /\ k \in DOMAIN sub[s]
    BY <2>1, <1>2, <1>3, <1>5
  <2> QED BY <2>2, <1>2
<1>6. ASSUME NEW a PROVE Submitted(new, a) <=> Submitted(sub, a) \/ a = m
  <2>1. In(new[s], a) <=> In(sub[s], a) \/ a = m
    BY <1>2 DEF In
  <2> QED BY Zenon, <1>1, <2>1 DEF Submitted
<1> QED BY <1>4, <1>5, <1>6

LEMMA OrderOfNew ==
  ASSUME NEW sub, NEW new, NEW m,
         \A a, b : Ahead(sub, a, b) /\ a # m /\ b # m => Ahead(new, a, b),
         NEW w, NEW d, NEW q, NEW calls,
         ~At(w, d, q, m), ~Called(calls, m), InOrder(sub, w, d, q, calls)
  PROVE  InOrder(new, w, d, q, calls)
BY DEF InOrder, At, In, Called

-----------------------------------------------------------------------------
(* The steps.                                                               *)

MoveInv == TypeInv /\ OrderInv /\ PlaceInv

Here(t, m) == At(wire[t], dpc[t], deliverq[t], m)

\* A message at the server is at no session.
LEMMA CalledIsNowhere ==
  ASSUME MoveInv, NEW m \in Msgs, Called(queue, m), NEW t \in Sessions
  PROVE  ~Here(t, m)
<1>1. InOrder(submitted, wire[t], dpc[t], deliverq[t], queue)
  BY DEF MoveInv, OrderInv
<1>2. PICK j \in DOMAIN queue : queue[j].arg = m
  BY DEF Called
<1>3. ~Ahead(submitted, m, m)
  BY DEF Ahead
<1>4. \A i \in DOMAIN wire[t] : Ahead(submitted, wire[t][i], m)
  BY <1>1, <1>2 DEF InOrder
<1>5. Ahead(submitted, dpc[t], m)
  BY <1>1, <1>2 DEF InOrder
<1>6. \A i \in DOMAIN deliverq[t] : Ahead(submitted, deliverq[t][i], m)
  BY <1>1, <1>2 DEF InOrder
<1> QED BY <1>3, <1>4, <1>5, <1>6 DEF Here, At, In

\* Nothing comes to the pipelines: what was true of the messages stays true.
LEMMA NothingNew ==
  ASSUME MoveInv, submitted' = submitted,
         \A m \in Msgs : Called(queue', m) => Called(queue, m),
         \A m \in Msgs : \A t \in Sessions :
           At(wire'[t], dpc'[t], deliverq'[t], m) => At(wire[t], dpc[t], deliverq[t], m)
  PROVE  PlaceInv'
BY Zenon DEF MoveInv, PlaceInv

LEMMA SubmitMoves ==
  ASSUME MoveInv, NEW s \in Sessions, NEW m \in Msgs, handle_submit_sm(s, m)
  PROVE  OrderInv' /\ PlaceInv'
<1>1. /\ submitted' = [submitted EXCEPT ![s] = Append(@, m)]
      /\ queue' = Append(queue, RouteCall(s, m)) /\ ~Submitted(submitted, m)
      /\ UNCHANGED <<wire, dpc, deliverq>>
  BY AcceptedIsSubmitted DEF handle_submit_sm
<1>2. /\ submitted \in [Sessions -> Seq(Msgs)] /\ queue \in Seq(CallType)
      /\ RouteCall(s, m) \in CallType /\ RouteCall(s, m).arg = m
  BY CallTypes DEF MoveInv, TypeInv, RouteCall
<1>3. /\ \A a, b : Ahead(submitted, a, b) /\ a # m /\ b # m => Ahead(submitted', a, b)
      /\ \A a : a # m => Ahead(submitted', a, m)
      /\ \A a : Submitted(submitted', a) <=> Submitted(submitted, a) \/ a = m
  <2>1. submitted'[s] = Append(submitted[s], m)
    BY <1>1, <1>2
  <2>2. \A r \in Sessions : r # s => submitted'[r] = submitted[r]
    BY <1>1, <1>2
  <2>3. submitted \in [Sessions -> Seq(Msgs)] /\ ~Submitted(submitted, m)
    BY <1>1, <1>2
  <2> QED BY <2>1, <2>2, <2>3, NewMessage, Zenon
<1>4. ~Called(queue, m) /\ \A t \in Sessions : ~At(wire[t], dpc[t], deliverq[t], m)
  BY <1>1 DEF MoveInv, PlaceInv
<1>5. ASSUME NEW t \in Sessions
      PROVE  InOrder(submitted', wire[t], dpc[t], deliverq[t], Append(queue, RouteCall(s, m)))
  <2>1. InOrder(submitted', wire[t], dpc[t], deliverq[t], queue)
    BY <1>3, <1>4, OrderOfNew DEF MoveInv, OrderInv
  <2>2. \A a : At(wire[t], dpc[t], deliverq[t], a) \/ Called(queue, a) =>
              Ahead(submitted', a, RouteCall(s, m).arg)
    BY <1>2, <1>3, <1>4
  <2> QED BY Zenon, <1>2, <2>1, <2>2, CallMade
<1>6. \A a : Called(queue', a) <=> Called(queue, a) \/ a = m
  BY <1>1, <1>2, AppendFacts DEF Called
<1> QED BY Zenon, <1>1, <1>3, <1>4, <1>5, <1>6 DEF OrderInv, PlaceInv, MoveInv

LEMMA BindMoves ==
  ASSUME MoveInv, NEW s \in Sessions, send_bind_resp(s)
  PROVE  OrderInv' /\ PlaceInv'
<1> DEFINE c == UpdateCall(s, state[s])
<1>1. /\ queue' = Append(queue, c) /\ UNCHANGED <<dpc, deliverq, submitted>>
      /\ wire' = wire \/ wire' = [wire EXCEPT ![s] = Append(@, "bind_resp")]
  BY DEF send_bind_resp, send_pdu
<1>2. c \in CallType /\ c.arg \notin Msgs /\ queue \in Seq(CallType)
  <2>1. state[s] \in States /\ state[s] \notin Msgs
    BY RoutingAssumption DEF MoveInv, TypeInv
  <2> QED BY <2>1, CallTypes DEF UpdateCall, MoveInv, TypeInv
<1>3. wire \in [Sessions -> WireType]
  BY DEF MoveInv, TypeInv, WireType
<1> HIDE DEF c
<1>4. ASSUME NEW t \in Sessions
      PROVE  /\ InOrder(submitted, wire'[t], dpc[t], deliverq[t], queue')
             /\ \A m \in Msgs : In(wire'[t], m) => In(wire[t], m)
  <2>1. InOrder(submitted, wire[t], dpc[t], deliverq[t], queue) /\ wire[t] \in WireType
    BY <1>3 DEF MoveInv, OrderInv
  <2>2. wire'[t] = wire[t] \/ wire'[t] = Append(wire[t], "bind_resp")
    BY <1>1, <1>3
  <2>3. InOrder(submitted, wire'[t], dpc[t], deliverq[t], queue)
    BY Zenon, <2>1, <2>2, BindSent
  <2>4. \A a : Ahead(submitted, a, c.arg)
    BY <1>2, NotAMessage
  <2>5. InOrder(submitted, wire'[t], dpc[t], deliverq[t], Append(queue, c))
    BY <1>2, <2>3, <2>4, CallMade
  <2>6. \A m \in Msgs : In(Append(wire[t], "bind_resp"), m) => In(wire[t], m)
    BY <2>1, AppendFacts, RoutingAssumption DEF In, WireType
  <2> QED BY Zenon, <1>1, <2>2, <2>5, <2>6
<1>5. \A m \in Msgs : Called(queue', m) => Called(queue, m)
  BY <1>1, <1>2, AppendFacts DEF Called
<1>6. \A m \in Msgs : \A t \in Sessions :
        At(wire'[t], dpc'[t], deliverq'[t], m) => At(wire[t], dpc[t], deliverq[t], m)
  BY <1>1, <1>4 DEF At
<1>7. PlaceInv'
  BY <1>1, <1>5, <1>6, NothingNew
<1> QED BY <1>1, <1>4, <1>7 DEF OrderInv

\* A call is served without its message going anywhere, or lost.
LEMMA ServedMoves ==
  ASSUME MoveInv, UNCHANGED <<wire, dpc, deliverq, submitted>>,
         (queue # <<>> /\ queue' = Tail(queue)) \/ queue' = <<>>
  PROVE  OrderInv' /\ PlaceInv'
<1>1. queue \in Seq(CallType)
  BY DEF MoveInv, TypeInv
<1>2. OrderInv'
  BY Zenon, <1>1, CallServed DEF MoveInv, OrderInv
<1>3. \A m \in Msgs : Called(queue', m) => Called(queue, m)
  BY <1>1, TailFacts DEF Called
<1>4. PlaceInv'
  BY <1>3, NothingNew
<1> QED BY <1>2, <1>4

LEMMA RouteMoves ==
  ASSUME MoveInv, RouteMessage
  PROVE  OrderInv' /\ PlaceInv'
<1> DEFINE m == Head(queue).arg
<1>1. PICK t \in Sessions : deliverq' = [deliverq EXCEPT ![t] = Append(@, m)]
  BY Zenon DEF RouteMessage, Listed
<1>2. /\ queue # <<>> /\ queue' = Tail(queue) /\ Head(queue).method = "RouteMessage"
      /\ UNCHANGED <<wire, dpc, submitted>>
  BY DEF RouteMessage, Serves
<1>3. /\ queue \in Seq(CallType) /\ deliverq \in [Sessions -> Seq(Msgs)] /\ m \in Msgs
      /\ 1 \in DOMAIN queue /\ Head(queue) = queue[1]
  BY <1>2, HeadOfQueue DEF MoveInv, TypeInv
<1>4. Called(queue, m)
  BY <1>3 DEF Called
<1>5. ASSUME NEW u \in Sessions
      PROVE  InOrder(submitted, wire[u], dpc[u], deliverq'[u], queue')
  <2>1. InOrder(submitted, wire[u], dpc[u], deliverq[u], queue) /\ deliverq[u] \in Seq(Msgs)
    BY <1>3 DEF MoveInv, OrderInv
  <2>2. CASE u = t
    <3>1. deliverq'[u] = Append(deliverq[u], Head(queue).arg)
      BY <1>1, <1>3, <2>2
    <3> QED BY <1>2, <1>3, <2>1, <3>1, CallRouted
  <2>3. CASE u # t
    <3>1. deliverq'[u] = deliverq[u]
      BY <1>1, <1>3, <2>3
    <3> QED BY <1>2, <1>3, <2>1, <3>1, CallServed
  <2> QED BY <2>2, <2>3
<1>6. OrderInv'
  BY <1>2, <1>5 DEF OrderInv
<1>7. \A a : Called(queue', a) => Called(queue, a)
  BY <1>2, <1>3, TailFacts DEF Called
<1> HIDE DEF m
<1>8. ASSUME NEW u \in Sessions, NEW a \in Msgs, At(wire'[u], dpc'[u], deliverq'[u], a)
      PROVE  At(wire[u], dpc[u], deliverq[u], a) \/ (u = t /\ a = m)
  <2>1. CASE u = t
    <3>1. deliverq'[u] = Append(deliverq[u], m) /\ deliverq[u] \in Seq(Msgs)
      BY <1>1, <1>3, <2>1
    <3>2. In(deliverq'[u], a) => In(deliverq[u], a) \/ a = m
      BY <1>3, <3>1, AppendFacts DEF In
    <3> QED BY <1>2, <1>8, <2>1, <3>2 DEF At
  <2>2. CASE u # t
    BY <1>1, <1>2, <1>3, <1>8, <2>2
  <2> QED BY <2>1, <2>2
<1>9. \A u \in Sessions : ~At(wire[u], dpc[u], deliverq[u], m)
  BY <1>3, <1>4, CalledIsNowhere DEF Here
<1>10. PlaceInv
  BY DEF MoveInv
<1>11. \A a \in Msgs : Submitted(submitted', a) <=> Submitted(submitted, a)
  BY <1>2
<1>12. Submitted(submitted, m)
  BY <1>3, <1>4, <1>10 DEF PlaceInv
<1>13. PlaceInv'
  <2> SUFFICES ASSUME NEW a \in Msgs
               PROVE  /\ Called(queue', a) => Submitted(submitted', a)
                      /\ \A u \in Sessions :
                           At(wire'[u], dpc'[u], deliverq'[u], a) => Submitted(submitted', a)
                      /\ \A u, v \in Sessions :
                           /\ At(wire'[u], dpc'[u], deliverq'[u], a)
                           /\ At(wire'[v], dpc'[v], deliverq'[v], a)
                           => u = v
    BY DEF PlaceInv
  <2>1. Called(queue', a) => Submitted(submitted', a)
    BY <1>7, <1>10, <1>11 DEF PlaceInv
  <2>2. ASSUME NEW u \in Sessions, At(wire'[u], dpc'[u], deliverq'[u], a)
        PROVE  Submitted(submitted', a)
    BY <1>8, <1>10, <1>11, <1>12, <2>2 DEF PlaceInv
  <2>3. ASSUME NEW u \in Sessions, NEW v \in Sessions,
               At(wire'[u], dpc'[u], deliverq'[u], a), At(wire'[v], dpc'[v], deliverq'[v], a)
        PROVE  u = v
    <3>1. At(wire[u], dpc[u], deliverq[u], a) \/ (u = t /\ a = m)
      BY Zenon, <1>8, <2>3
    <3>2. At(wire[v], dpc[v], deliverq[v], a) \/ (v = t /\ a = m)
      BY Zenon, <1>8, <2>3
    <3> QED BY Zenon, <1>9, <1>10, <3>1, <3>2 DEF PlaceInv
  <2> QED BY <2>1, <2>2, <2>3
<1> QED BY <1>6, <1>13

\* A step of the D-Bus thread of t that gets its pipeline from w, d, q to others
\* with the same messages, or fewer.
LEMMA PipelineMoves ==
  ASSUME MoveInv, NEW t \in Sessions, UNCHANGED <<queue, submitted>>,
         \A u \in Sessions : u # t =>
           wire'[u] = wire[u] /\ dpc'[u] = dpc[u] /\ deliverq'[u] = deliverq[u],
         InOrder(submitted, wire'[t], dpc'[t], deliverq'[t], queue),
         \A m \in Msgs :
           At(wire'[t], dpc'[t], deliverq'[t], m) => At(wire[t], dpc[t], deliverq[t], m)
  PROVE  OrderInv' /\ PlaceInv'
<1>1. OrderInv'
  BY Zenon DEF OrderInv, MoveInv
<1>2. PlaceInv'
  BY Zenon, NothingNew
<1> QED BY Zenon, <1>1, <1>2

LEMMA DbusMoves ==
  ASSUME MoveInv, NEW t \in Sessions, DbusStep(t)
  PROVE  OrderInv' /\ PlaceInv'
<1>1. /\ InOrder(submitted, wire[t], dpc[t], deliverq[t], queue)
      /\ deliverq \in [Sessions -> Seq(Msgs)] /\ wire \in [Sessions -> WireType]
      /\ dpc \in [Sessions -> Msgs \cup {NoMsg}]
      /\ deliverq[t] \in Seq(Msgs) /\ wire[t] \in WireType
  BY DEF MoveInv, OrderInv, TypeInv, WireType
<1>2. CASE DeliverSm_refused(t)
  <2>1. /\ deliverq[t] # <<>> /\ deliverq' = [deliverq EXCEPT ![t] = Tail(@)]
        /\ UNCHANGED <<wire, dpc, queue, submitted>>
    BY Zenon, <1>2 DEF DeliverSm_refused
  <2>2. InOrder(submitted, wire[t], dpc[t], Tail(deliverq[t]), queue)
    BY <1>1, <2>1, MessageTaken
  <2>3. \A m : In(Tail(deliverq[t]), m) => In(deliverq[t], m)
    BY <1>1, <2>1, TailFacts DEF In
  <2> QED BY <1>1, <2>1, <2>2, <2>3, PipelineMoves DEF At
<1>3. CASE DeliverSm(t)
  <2>1. /\ deliverq[t] # <<>> /\ deliverq' = [deliverq EXCEPT ![t] = Tail(@)]
        /\ dpc' = [dpc EXCEPT ![t] = Head(deliverq[t])]
        /\ UNCHANGED <<wire, queue, submitted>>
    BY <1>3 DEF DeliverSm, serverVars
  <2>2. InOrder(submitted, wire[t], Head(deliverq[t]), Tail(deliverq[t]), queue)
    BY Zenon, <1>1, <2>1, MessageTaken
  <2>3. \A m : In(Tail(deliverq[t]), m) \/ Head(deliverq[t]) = m => In(deliverq[t], m)
    BY <1>1, <2>1, TailFacts DEF In
  <2> QED BY <1>1, <2>1, <2>2, <2>3, PipelineMoves DEF At
<1>4. CASE send_deliver_sm(t)
  <2>1. /\ dpc[t] # NoMsg /\ dpc' = [dpc EXCEPT ![t] = NoMsg]
        /\ wire' = wire \/ wire' = [wire EXCEPT ![t] = Append(@, dpc[t])]
        /\ UNCHANGED <<deliverq, queue, submitted>>
    BY <1>4 DEF send_deliver_sm, send_pdu
  <2>2. dpc[t] \in Msgs /\ dpc'[t] = NoMsg /\ NoMsg \notin Msgs
    BY <1>1, <2>1, RoutingAssumption
  <2>3. wire'[t] = wire[t] \/ wire'[t] = Append(wire[t], dpc[t])
    BY <1>1, <2>1
  <2>4. InOrder(submitted, wire'[t], dpc'[t], deliverq[t], queue)
    <3>1. /\ InOrder(submitted, wire[t], NoMsg, deliverq[t], queue)
          /\ InOrder(submitted, Append(wire[t], dpc[t]), NoMsg, deliverq[t], queue)
      BY <1>1, <2>2, MessageSent
    <3> QED BY Zenon, <2>2, <2>3, <3>1
  <2>5. \A m : In(wire'[t], m) => In(wire[t], m) \/ m = dpc[t]
    <3>1. \A m : In(Append(wire[t], dpc[t]), m) => In(wire[t], m) \/ m = dpc[t]
      <4>1. wire[t] \in Seq(Msgs \cup {"bind_resp"}) /\ dpc[t] \in Msgs \cup {"bind_resp"}
        BY <1>1, <2>2 DEF WireType
      <4>2. \A i \in DOMAIN Append(wire[t], dpc[t]) :
              \/ i \in DOMAIN wire[t] /\ Append(wire[t], dpc[t])[i] = wire[t][i]
              \/ Append(wire[t], dpc[t])[i] = dpc[t]
        BY <4>1, AppendFacts
      <4> QED BY <4>2 DEF In
    <3> QED BY Zenon, <2>3, <3>1
  <2> QED BY <1>1, <2>1, <2>2, <2>4, <2>5, PipelineMoves DEF At
<1> QED BY <1>2, <1>3, <1>4 DEF DbusStep

LEMMA Moves ==
  ASSUME MoveInv, [Next]_vars
  PROVE  MoveInv'
<1>1. TypeInv'
  BY Types DEF MoveInv
<1>2. ASSUME UNCHANGED <<wire, dpc, deliverq, queue, submitted>> PROVE OrderInv' /\ PlaceInv'
  BY Zenon, <1>2 DEF MoveInv, OrderInv, PlaceInv
<1>3. ASSUME NEW s \in Sessions, AsioStep(s) PROVE OrderInv' /\ PlaceInv'
  <2>1. CASE handle_bind(s) \/ call_times_out(s) \/ do_disconnect(s)
    BY <1>2, <2>1 DEF handle_bind, call_times_out, do_disconnect, serverVars
  <2> QED BY <1>3, <2>1, SubmitMoves, BindMoves DEF AsioStep
<1>4. ASSUME ServerStep PROVE OrderInv' /\ PlaceInv'
  <2>1. CASE UpdateSessionDetails \/ RouteMessage_none \/ server_restarts
    BY <2>1, ServedMoves DEF UpdateSessionDetails, RouteMessage_none, server_restarts, Serves
  <2>2. CASE deliver_times_out
    BY <1>2, <2>2 DEF deliver_times_out
  <2>3. ASSUME NEW s \in Sessions, register_session(s) PROVE OrderInv' /\ PlaceInv'
    BY <1>2, <2>3 DEF register_session
  <2> QED BY Zenon, <1>4, <2>1, <2>2, <2>3, RouteMoves DEF ServerStep
<1>5. CASE UNCHANGED vars
  <2>1. UNCHANGED <<wire, dpc, deliverq, queue, submitted>>
    BY <1>5 DEF vars, sessionVars, serverVars
  <2> QED BY <1>1, <1>2, <2>1 DEF MoveInv
<1> QED BY <1>1, <1>3, <1>4, <1>5, DbusMoves DEF Next, MoveInv

LEMMA FirstStays ==
  ASSUME NEW w \in WireType, NEW x, w = <<>> => x = "bind_resp",
         w # <<>> => w[1] = "bind_resp"
  PROVE  Append(w, x) # <<>> /\ Append(w, x)[1] = "bind_resp"
<1>1. DOMAIN Append(w, x) = 1 .. Len(w) + 1 /\ Len(w) \in Nat
  BY DEF WireType
<1>2. CASE w = <<>>
  BY <1>1, <1>2
<1>3. CASE w # <<>>
  <2>1. Append(w, x)[1] = w[1] /\ Append(w, x) # <<>>
    BY <1>3 DEF WireType
  <2> QED BY <1>3, <2>1
<1> QED BY <1>2, <1>3

LEMMA SilentAsio ==
  ASSUME TypeInv, SilentInv, NEW s \in Sessions, AsioStep(s)
  PROVE  SilentInv'
<1>1. CASE handle_bind(s)
  <2>1. PICK st \in RxStates \cup TxStates : state' = [state EXCEPT ![s] = st]
    BY Zenon, <1>1 DEF handle_bind
  <2>2. /\ state[s] = "OPEN" /\ pc' = [pc EXCEPT ![s] = Bound] /\ st # "UNBOUND"
        /\ UNCHANGED <<wire, info, deliverq, dpc, queue>>
    BY <1>1 DEF handle_bind, serverVars, RxStates, TxStates
  <2> QED BY Zenon, <2>1, <2>2 DEF SilentInv, TypeInv
<1>2. CASE send_bind_resp(s)
  <2> DEFINE c == UpdateCall(s, state[s])
  <2>1. /\ pc[s] = Bound /\ pc' = [pc EXCEPT ![s] = c] /\ queue' = Append(queue, c)
        /\ UNCHANGED <<state, info, deliverq, dpc>>
    BY <1>2 DEF send_bind_resp
  <2>2. state[s] # "UNBOUND" /\ wire' = [wire EXCEPT ![s] = Append(@, "bind_resp")]
    BY Zenon, <1>2, <2>1 DEF SilentInv, send_bind_resp, send_pdu
  <2>3. c \in CallType /\ c.from = s /\ c # Bound
    BY Zenon, CallTypes DEF UpdateCall, TypeInv, Bound
  <2>4. \A i \in DOMAIN queue' : (i \in DOMAIN queue /\ queue'[i] = queue[i]) \/ queue'[i] = c
    <3>1. queue \in Seq(CallType)
      BY Zenon DEF TypeInv
    <3> QED BY Zenon, <2>1, <2>3, <3>1, AppendCall
  <2> HIDE DEF c
  <2>5. \A t \in Sessions : t # s => wire'[t] = wire[t] /\ pc'[t] = pc[t]
    BY Zenon, <2>1, <2>2 DEF TypeInv
  <2>6. wire'[s] # <<>> /\ wire'[s][1] = "bind_resp" /\ pc'[s] = c
    <3>1. wire[s] \in Seq(Msgs \cup {"bind_resp"}) /\ wire'[s] = Append(wire[s], "bind_resp")
      BY <2>2 DEF TypeInv
    <3>2. wire[s] = <<>> \/ wire[s][1] = "bind_resp"
      BY DEF SilentInv
    <3>3. wire'[s] # <<>> /\ wire'[s][1] = "bind_resp"
      BY <3>1, <3>2, FirstStays DEF WireType
    <3> QED BY Zenon, <2>1, <3>3 DEF TypeInv
  <2>7. ASSUME NEW t \in Sessions, t # s, wire[t] = <<>>, state[t] # "UNBOUND"
        PROVE  \A i \in DOMAIN queue' :
                 queue'[i].from = t => queue'[i].method # "UpdateSessionDetails"
    BY <2>3, <2>4, <2>7 DEF SilentInv
  <2>8. ASSUME NEW t \in Sessions
        PROVE  /\ wire'[t] # <<>> => wire'[t][1] = "bind_resp"
               /\ pc'[t] = Bound => state'[t] # "UNBOUND"
    <3>1. CASE t = s
      BY Zenon, <2>3, <2>6, <3>1
    <3>2. CASE t # s
      BY Zenon, <2>1, <2>5, <3>2 DEF SilentInv
    <3> QED BY Zenon, <3>1, <3>2
  <2>9. ASSUME NEW t \in Sessions, wire'[t] = <<>>, state'[t] # "UNBOUND"
        PROVE  /\ info'[t] \notin RxStates /\ deliverq'[t] = <<>> /\ dpc'[t] = NoMsg
               /\ \A i \in DOMAIN queue' :
                    queue'[i].from = t => queue'[i].method # "UpdateSessionDetails"
    <3>1. t # s /\ wire[t] = <<>> /\ state[t] # "UNBOUND"
      BY Zenon, <2>1, <2>5, <2>6, <2>9
    <3>2. info[t] \notin RxStates /\ deliverq[t] = <<>> /\ dpc[t] = NoMsg
      BY Zenon, <3>1 DEF SilentInv
    <3> QED BY Zenon, <2>1, <2>7, <3>1, <3>2
  <2> QED BY Zenon, <2>8, <2>9 DEF SilentInv
<1>3. CASE call_times_out(s) \/ do_disconnect(s)
  <2>1. /\ pc[s] # Bound /\ pc'[s] # Bound
        /\ \A t \in Sessions : t # s => pc'[t] = pc[t] /\ state'[t] = state[t]
        /\ state'[s] \in {state[s], "UNBOUND"}
        /\ UNCHANGED <<wire, info, deliverq, dpc, queue>>
    <3>1. Idle # Bound /\ Bound \notin Calls
      <4>1. \A c \in Calls : c.method \in {"UpdateSessionDetails", "RouteMessage"}
        BY DEF Calls, UpdateCall, RouteCall
      <4>2. Bound.method = "bound" /\ Idle.method = "none"
        BY DEF Idle, Bound
      <4> QED BY <4>1, <4>2
    <3>2. CASE call_times_out(s)
      <4>1. pc' = [pc EXCEPT ![s] = Idle] /\ pc[s] \in Calls
            /\ UNCHANGED <<state, wire, info, deliverq, dpc, queue>>
        BY Zenon, <3>2 DEF call_times_out, serverVars
      <4>2. DOMAIN pc = Sessions
        BY Zenon DEF TypeInv
      <4> QED BY Zenon, <3>1, <4>1, <4>2
    <3>3. CASE do_disconnect(s)
      <4>1. state' = [state EXCEPT ![s] = "UNBOUND"] /\ pc[s] = Idle
            /\ UNCHANGED <<pc, wire, info, deliverq, dpc, queue>>
        BY <3>3 DEF do_disconnect, serverVars
      <4> QED BY Zenon, <3>1, <4>1 DEF TypeInv
    <3> QED BY Zenon, <1>3, <3>2, <3>3
  <2>2. ASSUME NEW t \in Sessions
        PROVE  /\ pc'[t] = Bound => pc[t] = Bound /\ state'[t] = state[t]
               /\ state'[t] # "UNBOUND" => state[t] # "UNBOUND"
    <3>1. CASE t = s
      BY Zenon, <2>1, <3>1
    <3>2. CASE t # s
      BY Zenon, <2>1, <3>2
    <3> QED BY Zenon, <3>1, <3>2
  <2> QED BY Zenon, <2>1, <2>2 DEF SilentInv
<1>4. ASSUME NEW m \in Msgs, handle_submit_sm(s, m) PROVE SilentInv'
  <2>1. /\ pc' = [pc EXCEPT ![s] = RouteCall(s, m)] /\ queue' = Append(queue, RouteCall(s, m))
        /\ UNCHANGED <<state, wire, info, deliverq, dpc>>
    BY <1>4 DEF handle_submit_sm
  <2>2. /\ RouteCall(s, m) \in CallType /\ RouteCall(s, m).method # "UpdateSessionDetails"
        /\ RouteCall(s, m) # Bound
    BY CallTypes DEF RouteCall, Bound
  <2>3. \A i \in DOMAIN queue' :
          (i \in DOMAIN queue /\ queue'[i] = queue[i]) \/ queue'[i] = RouteCall(s, m)
    <3>1. queue \in Seq(CallType)
      BY Zenon DEF TypeInv
    <3> QED BY Zenon, <2>1, <2>2, <3>1, AppendCall
  <2>4. \A t \in Sessions : pc'[t] = Bound => pc[t] = Bound
    BY Zenon, <2>1, <2>2 DEF TypeInv
  <2>5. ASSUME NEW t \in Sessions, wire[t] = <<>>, state[t] # "UNBOUND"
        PROVE  \A i \in DOMAIN queue' :
                 queue'[i].from = t => queue'[i].method # "UpdateSessionDetails"
    BY Zenon, <2>2, <2>3, <2>5 DEF SilentInv
  <2> QED BY Zenon, <2>1, <2>4, <2>5 DEF SilentInv
<1> QED BY <1>1, <1>2, <1>3, <1>4 DEF AsioStep

\* A reply makes no thread Bound.
LEMMA ReplyIsIdle ==
  ASSUME TypeInv, NEW c, reply(c)
  PROVE  \A s \in Sessions : pc'[s] = Bound => pc[s] = Bound
BY Zenon DEF reply, TypeInv, Idle, Bound

LEMMA SilentServer ==
  ASSUME TypeInv, SilentInv, ServerStep
  PROVE  SilentInv'
<1>1. CASE UpdateSessionDetails
  <2> DEFINE c == Head(queue)
  <2>1. /\ queue # <<>> /\ c.method = "UpdateSessionDetails" /\ queue' = Tail(queue)
        /\ info' = [info EXCEPT ![c.from] = IF @ = "absent" THEN @ ELSE c.arg]
        /\ UNCHANGED <<state, wire, deliverq, dpc>>
    BY <1>1 DEF UpdateSessionDetails, Serves
  <2>2. \A s \in Sessions : pc'[s] = Bound => pc[s] = Bound
    BY <1>1, ReplyIsIdle DEF UpdateSessionDetails
  <2>3. /\ c = queue[1] /\ 1 \in DOMAIN queue
        /\ \A i \in DOMAIN queue' : i + 1 \in DOMAIN queue /\ queue'[i] = queue[i + 1]
    BY <2>1, HeadOfQueue
  <2> HIDE DEF c
  <2>4. ASSUME NEW s \in Sessions, wire[s] = <<>>, state[s] # "UNBOUND"
        PROVE  info'[s] = info[s]
    <3>1. c.from # s
      BY <2>1, <2>3, <2>4 DEF SilentInv
    <3> QED BY <2>1, <3>1 DEF TypeInv
  <2> QED BY <2>1, <2>2, <2>3, <2>4 DEF SilentInv
<1>2. CASE RouteMessage_none
  <2>1. queue # <<>> /\ queue' = Tail(queue) /\ UNCHANGED <<state, wire, deliverq, dpc, info>>
    BY <1>2 DEF RouteMessage_none, Serves
  <2>2. \A s \in Sessions : pc'[s] = Bound => pc[s] = Bound
    BY <1>2, ReplyIsIdle DEF RouteMessage_none
  <2>3. \A i \in DOMAIN queue' : i + 1 \in DOMAIN queue /\ queue'[i] = queue[i + 1]
    BY <2>1, HeadOfQueue
  <2> QED BY <2>1, <2>2, <2>3 DEF SilentInv
<1>3. CASE RouteMessage
  <2>1. queue # <<>> /\ queue' = Tail(queue) /\ UNCHANGED <<state, pc, wire, dpc, info>>
    BY <1>3 DEF RouteMessage, Serves
  <2>2. PICK t \in Sessions :
          /\ info[t] \in RxStates
          /\ deliverq' = [deliverq EXCEPT ![t] = Append(@, Head(queue).arg)]
    BY Zenon, <1>3 DEF RouteMessage, Listed
  <2>3. \A i \in DOMAIN queue' : i + 1 \in DOMAIN queue /\ queue'[i] = queue[i + 1]
    BY <2>1, HeadOfQueue
  <2>4. \A s \in Sessions : info[s] \notin RxStates => deliverq'[s] = deliverq[s]
    BY <2>2 DEF TypeInv
  <2> QED BY <2>1, <2>3, <2>4 DEF SilentInv
<1>4. CASE deliver_times_out
  <2>1. UNCHANGED <<state, wire, deliverq, dpc, info, queue>>
    BY <1>4 DEF deliver_times_out
  <2>2. \A s \in Sessions : pc'[s] = Bound => pc[s] = Bound
    BY <1>4, ReplyIsIdle DEF deliver_times_out, route_returns
  <2> QED BY <2>1, <2>2 DEF SilentInv
<1>5. CASE server_restarts
  <2>1. /\ queue' = <<>> /\ info' = [s \in Sessions |-> "absent"]
        /\ UNCHANGED <<state, wire, deliverq, dpc>> /\ "absent" \notin RxStates
    BY <1>5 DEF server_restarts, RxStates
  <2>2. \A s \in Sessions : pc'[s] = Bound => pc[s] = Bound
    BY <1>5 DEF server_restarts, Idle, Bound
  <2> QED BY <2>1, <2>2 DEF SilentInv
<1>6. ASSUME NEW s \in Sessions, register_session(s) PROVE SilentInv'
  <2>1. /\ state[s] = "NEW" /\ UNCHANGED <<pc, deliverq, dpc, wire, queue>>
        /\ state' = [state EXCEPT ![s] = "OPEN"] /\ info' = [info EXCEPT ![s] = "OPEN"]
        /\ "OPEN" \notin RxStates
    BY <1>6 DEF register_session, RxStates
  <2>2. \A t \in Sessions : /\ state'[t] = IF t = s THEN "OPEN" ELSE state[t]
                            /\ info'[t] = IF t = s THEN "OPEN" ELSE info[t]
    BY Zenon, <2>1 DEF TypeInv
  <2> QED BY <2>1, <2>2 DEF SilentInv
<1> QED BY Zenon, <1>1, <1>2, <1>3, <1>4, <1>5, <1>6 DEF ServerStep

LEMMA SilentDbus ==
  ASSUME TypeInv, SilentInv, NEW t \in Sessions, DbusStep(t)
  PROVE  SilentInv'
<1>1. CASE DeliverSm_refused(t) \/ DeliverSm(t)
  <2>1. /\ deliverq[t] # <<>> /\ UNCHANGED <<state, wire, info, queue>>
        /\ \A s \in Sessions : s # t => deliverq'[s] = deliverq[s] /\ dpc'[s] = dpc[s]
    BY Zenon, <1>1 DEF DeliverSm_refused, DeliverSm, serverVars, TypeInv
  <2>2. \A s \in Sessions : pc'[s] = Bound => pc[s] = Bound
    BY Zenon, <1>1, ReplyIsIdle DEF DeliverSm_refused, DeliverSm, answered, route_returns
  <2> QED BY <2>1, <2>2 DEF SilentInv
<1>2. CASE send_deliver_sm(t)
  <2>1. /\ dpc[t] # NoMsg /\ dpc' = [dpc EXCEPT ![t] = NoMsg]
        /\ UNCHANGED <<state, deliverq, info, queue>>
    BY <1>2 DEF send_deliver_sm
  <2>2. \A s \in Sessions : pc'[s] = Bound => pc[s] = Bound
    BY Zenon, <1>2, ReplyIsIdle DEF send_deliver_sm, answered, route_returns
  <2>3. \/ state[t] = "UNBOUND" /\ wire' = wire
        \/ state[t] # "UNBOUND" /\ wire' = [wire EXCEPT ![t] = Append(@, dpc[t])]
    BY <1>2 DEF send_deliver_sm, send_pdu
  <2>4. \A s \in Sessions : s # t => wire'[s] = wire[s] /\ dpc'[s] = dpc[s]
    BY <2>1, <2>3 DEF TypeInv
  <2>5. CASE state[t] = "UNBOUND"
    <3>1. wire' = wire /\ \A s \in Sessions : state'[s] # "UNBOUND" => s # t
      BY Zenon, <2>1, <2>3, <2>5
    <3> QED BY Zenon, <2>1, <2>2, <2>4, <3>1 DEF SilentInv
  <2>6. CASE state[t] # "UNBOUND"
    <3>1. /\ wire[t] \in Seq(Msgs \cup {"bind_resp"}) /\ wire[t] # <<>>
          /\ wire[t][1] = "bind_resp" /\ wire'[t] = Append(wire[t], dpc[t])
          /\ dpc[t] \in Msgs \cup {NoMsg}
      BY Zenon, <2>1, <2>3, <2>6 DEF SilentInv, TypeInv
    <3>2. wire'[t] # <<>> /\ wire'[t][1] = "bind_resp"
      BY <2>1, <3>1, FirstStays DEF WireType
    <3>3. \A s \in Sessions : wire'[s] = <<>> => s # t
      BY Zenon, <3>2
    <3>4. \A s \in Sessions : wire'[s] # <<>> => wire'[s][1] = "bind_resp"
      BY Zenon, <2>4, <3>2 DEF SilentInv
    <3>5. ASSUME NEW s \in Sessions, wire'[s] = <<>>, state'[s] # "UNBOUND"
          PROVE  /\ info'[s] \notin RxStates /\ deliverq'[s] = <<>> /\ dpc'[s] = NoMsg
                 /\ \A i \in DOMAIN queue' :
                      queue'[i].from = s => queue'[i].method # "UpdateSessionDetails"
      <4>1. s # t /\ wire[s] = <<>> /\ state[s] # "UNBOUND" /\ dpc'[s] = dpc[s]
        BY Zenon, <2>1, <2>4, <3>3, <3>5
      <4> QED BY Zenon, <2>1, <4>1 DEF SilentInv
    <3>6. \A s \in Sessions : pc'[s] = Bound => state'[s] # "UNBOUND"
      BY Zenon, <2>1, <2>2 DEF SilentInv
    <3> QED BY Zenon, <3>4, <3>5, <3>6 DEF SilentInv
  <2> QED BY <2>5, <2>6
<1> QED BY <1>1, <1>2 DEF DbusStep

LEMMA Silent ==
  ASSUME TypeInv, SilentInv, [Next]_vars
  PROVE  SilentInv'
<1>1. CASE UNCHANGED vars
  <2>1. UNCHANGED <<state, pc, wire, info, deliverq, dpc, queue>>
    BY <1>1 DEF vars, sessionVars, serverVars
  <2> QED BY <2>1 DEF SilentInv
<1> QED BY <1>1, SilentAsio, SilentServer, SilentDbus DEF Next

-----------------------------------------------------------------------------
(* What RouteMessage returned.                                              *)

\* A step writes nothing, or appends one PDU to one connection.
Written ==
  \/ wire' = wire
  \/ \E s \in Sessions : \E x \in Msgs \cup {"bind_resp"} :
       wire' = [wire EXCEPT ![s] = Append(@, x)]

LEMMA StepWrites ==
  ASSUME TypeInv, [Next]_vars
  PROVE  Written
<1>1. ASSUME NEW s \in Sessions, NEW x \in Msgs \cup {"bind_resp"}, send_pdu(s, x) PROVE Written
  BY Zenon, <1>1 DEF send_pdu, Written
<1>2. ASSUME NEW s \in Sessions, AsioStep(s) PROVE Written
  <2>1. send_bind_resp(s) \/ wire' = wire
    BY Zenon, <1>2 DEF AsioStep, handle_bind, call_times_out, do_disconnect, handle_submit_sm
  <2> QED BY <1>1, <2>1 DEF send_bind_resp, Written
<1>3. ASSUME ServerStep PROVE Written
  BY <1>3 DEF Written, ServerStep, UpdateSessionDetails, RouteMessage_none, RouteMessage,
     deliver_times_out, server_restarts, register_session
<1>4. ASSUME NEW t \in Sessions, DbusStep(t) PROVE Written
  <2>1. send_deliver_sm(t) \/ wire' = wire
    BY <1>4 DEF DbusStep, DeliverSm_refused, DeliverSm
  <2>2. send_deliver_sm(t) => dpc[t] \in Msgs /\ send_pdu(t, dpc[t])
    BY Zenon DEF send_deliver_sm, TypeInv
  <2> QED BY <1>1, <2>1, <2>2 DEF Written
<1>5. CASE UNCHANGED vars
  BY <1>5 DEF vars, sessionVars, Written
<1> QED BY <1>2, <1>3, <1>4, <1>5 DEF Next

LEMMA WrittenStays ==
  ASSUME TypeInv, Written, NEW s \in Sessions, NEW m, In(wire[s], m)
  PROVE  In(wire'[s], m)
<1>1. CASE wire' = wire
  BY <1>1
<1>2. ASSUME NEW t \in Sessions, NEW x \in Msgs \cup {"bind_resp"},
             wire' = [wire EXCEPT ![t] = Append(@, x)]
      PROVE  In(wire'[s], m)
  <2>1. CASE s = t
    <3>1. wire[s] \in WireType /\ wire'[s] = Append(wire[s], x)
      BY Zenon, <1>2, <2>1 DEF TypeInv, WireType
    <3>2. \A i \in DOMAIN wire[s] : i \in DOMAIN wire'[s] /\ wire'[s][i] = wire[s][i]
      BY <3>1, AppendFacts DEF WireType
    <3> QED BY <3>2 DEF In
  <2>2. CASE s # t
    BY Zenon, <1>2, <2>2 DEF TypeInv
  <2> QED BY <2>1, <2>2
<1> QED BY <1>1, <1>2 DEF Written

\* A session that has ended stays so.
LEMMA EndedStays ==
  ASSUME TypeInv, [Next]_vars, NEW s \in Sessions, state[s] = "UNBOUND"
  PROVE  state'[s] = "UNBOUND"
<1>1. ASSUME NEW t \in Sessions, AsioStep(t) PROVE state'[s] = "UNBOUND"
  <2>1. CASE handle_bind(t)
    <3>1. t # s
      BY <2>1 DEF handle_bind
    <3> QED BY Zenon, <2>1, <3>1 DEF handle_bind, TypeInv
  <2>2. CASE do_disconnect(t)
    BY Zenon, <2>2 DEF do_disconnect, TypeInv
  <2>3. CASE ~handle_bind(t) /\ ~do_disconnect(t)
    BY <1>1, <2>3 DEF AsioStep, send_bind_resp, call_times_out, handle_submit_sm
  <2> QED BY <2>1, <2>2, <2>3
<1>2. ASSUME ServerStep PROVE state'[s] = state[s]
  <2>1. ASSUME NEW t \in Sessions, register_session(t) PROVE state'[s] = state[s]
    <3>1. t # s
      BY <2>1 DEF register_session
    <3> QED BY Zenon, <2>1, <3>1 DEF register_session, TypeInv
  <2>2. (\E t \in Sessions : register_session(t)) \/ state' = state
    BY <1>2 DEF ServerStep, UpdateSessionDetails, RouteMessage_none, RouteMessage,
       deliver_times_out, server_restarts
  <2> QED BY <2>1, <2>2
<1>3. ASSUME NEW t \in Sessions, DbusStep(t) PROVE state' = state
  BY <1>3 DEF DbusStep, DeliverSm_refused, DeliverSm, send_deliver_sm
<1>4. CASE UNCHANGED vars
  BY <1>4 DEF vars, sessionVars
<1> QED BY <1>1, <1>2, <1>3, <1>4 DEF Next

\* A session is returned for a message by a step that has it sent there.
LEMMA ReturnedIsSent ==
  ASSUME TypeInv, [Next]_vars, NEW m \in Msgs, NEW t \in Sessions, result'[m] = t
  PROVE  result[m] = t \/ (send_deliver_sm(t) /\ dpc[t] = m)
<1>0. Empty \notin Sessions
  BY RoutingAssumption DEF Empty, Sessions
<1>1. ASSUME NEW s \in Sessions, AsioStep(s) PROVE result' = result
  BY Zenon, <1>1 DEF AsioStep, handle_bind, send_bind_resp, call_times_out, do_disconnect,
     handle_submit_sm
<1>2. ASSUME NEW r, NEW k, result' = [result EXCEPT ![k] = r], result[m] # t
      PROVE  r = t /\ k = m
  BY Zenon, <1>2 DEF TypeInv
<1>3. ASSUME ServerStep PROVE result[m] = t
  <2>1. \/ result' = result
        \/ \E k : result' = [result EXCEPT ![k] = Empty]
    BY <1>3 DEF ServerStep, UpdateSessionDetails, RouteMessage_none, RouteMessage,
       deliver_times_out, server_restarts, register_session, route_returns
  <2> QED BY <1>0, <1>2, <2>1
<1>4. ASSUME NEW u \in Sessions, DbusStep(u)
      PROVE  result[m] = t \/ (send_deliver_sm(t) /\ dpc[t] = m)
  <2>1. CASE DeliverSm_refused(u)
    <3>1. \/ result' = result
          \/ \E k : result' = [result EXCEPT ![k] = Empty]
      BY Zenon, <2>1 DEF DeliverSm_refused, answered, route_returns
    <3> QED BY <1>0, <1>2, <3>1
  <2>2. CASE DeliverSm(u)
    BY <2>2 DEF DeliverSm
  <2>3. CASE send_deliver_sm(u)
    <3>1. result' = result \/ result' = [result EXCEPT ![dpc[u]] = u]
      BY <2>3 DEF send_deliver_sm, answered, route_returns
    <3> QED BY <1>2, <2>3, <3>1
  <2> QED BY <1>4, <2>1, <2>2, <2>3 DEF DbusStep
<1>5. CASE UNCHANGED vars
  BY <1>5 DEF vars
<1> QED BY <1>1, <1>3, <1>4, <1>5 DEF Next

LEMMA Returned ==
  ASSUME TypeInv, TypeInv', RoutedIsWritten, [Next]_vars
  PROVE  RoutedIsWritten'
<1> SUFFICES ASSUME NEW m \in Msgs, NEW t \in Sessions, result'[m] = t, state'[t] # "UNBOUND"
             PROVE  In(wire'[t], m)
  BY DEF RoutedIsWritten, Range, In
<1>1. state[t] # "UNBOUND"
  BY Zenon, EndedStays
<1>2. CASE result[m] = t
  <2>1. In(wire[t], m)
    BY <1>1, <1>2 DEF RoutedIsWritten, Range, In
  <2> QED BY <2>1, StepWrites, WrittenStays
<1>3. CASE send_deliver_sm(t) /\ dpc[t] = m
  <2>1. wire[t] \in WireType /\ wire'[t] = Append(wire[t], m)
    BY Zenon, <1>1, <1>3 DEF send_deliver_sm, send_pdu, TypeInv, WireType
  <2> QED BY Zenon, <2>1, InWire
<1> QED BY <1>2, <1>3, ReturnedIsSent

-----------------------------------------------------------------------------
(* The specification implements AtMostOnceDelivery.                         *)

\* The places message m is at on the connections w.
PlacesOn(w, m) ==
  {p \in UNION {{s} \X DOMAIN w[s] : s \in Sessions} : w[p[1]][p[2]] = m}

LEMMA PlaceOn ==
  ASSUME NEW w, NEW m, NEW p
  PROVE  p \in PlacesOn(w, m) <=>
           \E s \in Sessions : \E i \in DOMAIN w[s] : p = <<s, i>> /\ w[s][i] = m
<1>1. ASSUME p \in PlacesOn(w, m)
      PROVE  \E s \in Sessions : \E i \in DOMAIN w[s] : p = <<s, i>> /\ w[s][i] = m
  <2>1. PICK s \in Sessions : p \in {s} \X DOMAIN w[s]
    BY <1>1 DEF PlacesOn
  <2>2. p = <<p[1], p[2]>> /\ p[1] = s /\ p[2] \in DOMAIN w[s] /\ w[p[1]][p[2]] = m
    BY <1>1, <2>1 DEF PlacesOn
  <2> QED BY <2>2
<1>2. ASSUME NEW s \in Sessions, NEW i \in DOMAIN w[s], p = <<s, i>>, w[s][i] = m
      PROVE  p \in PlacesOn(w, m)
  <2>1. p \in {s} \X DOMAIN w[s] /\ p[1] = s /\ p[2] = i
    BY <1>2
  <2> QED BY <1>2, <2>1 DEF PlacesOn
<1> QED BY <1>1, <1>2

LEMMA Places ==
  /\ deliveries = [m \in Msgs |-> PlacesOn(wire, m)]
  /\ deliveries' = [m \in Msgs |-> PlacesOn(wire', m)]
BY Zenon DEF deliveries, PlacesOn

\* The connections v are w with x at place n of connection t.
Longer(w, v, t, n, x) ==
  /\ \A i \in DOMAIN v[t] : (i \in DOMAIN w[t] /\ v[t][i] = w[t][i]) \/ (i = n /\ v[t][i] = x)
  /\ \A i \in DOMAIN w[t] : i \in DOMAIN v[t] /\ v[t][i] = w[t][i]
  /\ n \in DOMAIN v[t] /\ v[t][n] = x
  /\ \A s \in Sessions : s # t => v[s] = w[s]

LEMMA PlaceMore ==
  ASSUME NEW w, NEW v, NEW t \in Sessions, NEW n, NEW x, Longer(w, v, t, n, x)
  PROVE  \A m, p : p \in PlacesOn(v, m) <=> p \in PlacesOn(w, m) \/ (m = x /\ p = <<t, n>>)
<1> SUFFICES ASSUME NEW m, NEW p
             PROVE  p \in PlacesOn(v, m) <=> p \in PlacesOn(w, m) \/ (m = x /\ p = <<t, n>>)
  OBVIOUS
<1>1. ASSUME p \in PlacesOn(v, m)
      PROVE  p \in PlacesOn(w, m) \/ (m = x /\ p = <<t, n>>)
  <2>1. \E s \in Sessions : \E i \in DOMAIN v[s] : p = <<s, i>> /\ v[s][i] = m
    BY <1>1, PlaceOn
  <2>2. PICK s \in Sessions : \E i \in DOMAIN v[s] : p = <<s, i>> /\ v[s][i] = m
    BY <2>1
  <2>3. PICK i \in DOMAIN v[s] : p = <<s, i>> /\ v[s][i] = m
    BY <2>2
  <2>4. (i \in DOMAIN w[s] /\ w[s][i] = m) \/ (s = t /\ i = n /\ m = x)
    BY <2>3 DEF Longer
  <2> QED BY <2>3, <2>4, PlaceOn
<1>2. ASSUME p \in PlacesOn(w, m) PROVE p \in PlacesOn(v, m)
  <2>1. PICK s \in Sessions : \E i \in DOMAIN w[s] : p = <<s, i>> /\ w[s][i] = m
    BY <1>2, PlaceOn
  <2>2. \E i \in DOMAIN v[s] : p = <<s, i>> /\ v[s][i] = m
    BY <2>1 DEF Longer
  <2> QED BY <2>2, PlaceOn
<1>3. ASSUME m = x, p = <<t, n>> PROVE p \in PlacesOn(v, m)
  BY <1>3, PlaceOn DEF Longer
<1> QED BY <1>1, <1>2, <1>3

\* A PDU x appended to connection t is one place more for x, and for x only.
LEMMA PlaceAdded ==
  ASSUME TypeInv, NEW t \in Sessions, NEW x \in Msgs \cup {"bind_resp"},
         wire' = [wire EXCEPT ![t] = Append(@, x)]
  PROVE  /\ \A m : m # x => PlacesOn(wire', m) = PlacesOn(wire, m)
         /\ PlacesOn(wire', x) = PlacesOn(wire, x) \cup {<<t, Len(wire[t]) + 1>>}
<1> DEFINE n == Len(wire[t]) + 1
           v == wire'
<1>1. wire[t] \in WireType /\ wire'[t] = Append(wire[t], x)
  BY Zenon DEF TypeInv, WireType
<1>2. /\ \A i \in DOMAIN v[t] : (i \in DOMAIN wire[t] /\ v[t][i] = wire[t][i])
                                   \/ (i = n /\ v[t][i] = x)
      /\ \A i \in DOMAIN wire[t] : i \in DOMAIN v[t] /\ v[t][i] = wire[t][i]
      /\ n \in DOMAIN v[t] /\ v[t][n] = x
  BY <1>1, AppendFacts DEF WireType
<1>3. \A s \in Sessions : s # t => v[s] = wire[s]
  BY Zenon DEF TypeInv
<1> HIDE DEF n, v
<1>4. \A m, p : p \in PlacesOn(v, m) <=>
                p \in PlacesOn(wire, m) \/ (m = x /\ p = <<t, n>>)
  <2>1. Longer(wire, v, t, n, x)
    BY <1>2, <1>3 DEF Longer
  <2> QED BY <2>1, PlaceMore
<1>5. ASSUME NEW m, m # x PROVE PlacesOn(v, m) = PlacesOn(wire, m)
  <2>1. \A p : p \in PlacesOn(v, m) <=> p \in PlacesOn(wire, m)
    BY <1>4, <1>5
  <2> QED BY <2>1, Zenon
<1>6. PlacesOn(v, x) = PlacesOn(wire, x) \cup {<<t, n>>}
  <2>1. \A p : p \in PlacesOn(v, x) <=> p \in PlacesOn(wire, x) \/ p = <<t, n>>
    BY <1>4
  <2> QED BY <2>1, Zenon
<1> QED BY Zenon, <1>5, <1>6 DEF n, v

\* Everything but a submission leaves accepted alone, everything but a
\* deliver_sm leaves the deliveries alone.
LEMMA Implements ==
  ASSUME MoveInv, [Next]_vars
  PROVE  [Abstract!Next]_<<accepted, deliveries>>
<1> USE DEF MoveInv
<1>1. submitted' = submitted => accepted' = accepted
  BY DEF accepted
<1>2. wire' = wire => deliveries' = deliveries
  BY DEF deliveries
<1>3. ASSUME NEW s \in Sessions, NEW m \in Msgs, handle_submit_sm(s, m)
      PROVE  Abstract!Next
  <2>1. /\ m \notin accepted /\ wire' = wire
        /\ submitted' = [submitted EXCEPT ![s] = Append(@, m)]
    BY <1>3 DEF handle_submit_sm
  <2>2. submitted[s] \in Seq(Msgs) /\ submitted'[s] = Append(submitted[s], m)
    BY Zenon, <2>1 DEF TypeInv
  <2>3. \A k : In(submitted'[s], k) <=> In(submitted[s], k) \/ k = m
    <3>1. \A k : In(Append(submitted[s], m), k) <=> In(submitted[s], k) \/ k = m
      BY Zenon, <2>2, InAppend
    <3> QED BY Zenon, <2>2, <3>1
  <2>4. \A t \in Sessions : t # s => submitted'[t] = submitted[t]
    BY Zenon, <2>1 DEF TypeInv
  <2>5. \A k : Submitted(submitted', k) <=> Submitted(submitted, k) \/ k = m
    BY Zenon, <2>3, <2>4 DEF Submitted
  <2>6. \A k : k \in accepted' <=> Submitted(submitted', k)
    BY DEF accepted, Range, Submitted, In
  <2>7. accepted' = accepted \cup {m}
    BY <2>5, <2>6, AcceptedIsSubmitted
  <2> QED BY <1>2, <2>1, <2>7 DEF Abstract!Next, Abstract!Accept
<1>4. ASSUME NEW s \in Sessions, send_bind_resp(s) PROVE UNCHANGED <<accepted, deliveries>>
  <2>1. submitted' = submitted /\ send_pdu(s, "bind_resp")
    BY <1>4 DEF send_bind_resp
  <2>2. CASE wire' = wire
    BY <1>1, <1>2, <2>1, <2>2
  <2>3. CASE wire' = [wire EXCEPT ![s] = Append(@, "bind_resp")]
    <3>1. \A m \in Msgs : PlacesOn(wire', m) = PlacesOn(wire, m)
      BY Zenon, <2>3, PlaceAdded, RoutingAssumption
    <3>2. deliveries' = deliveries
      BY <3>1, Places
    <3> QED BY <1>1, <2>1, <3>2
  <2> QED BY <2>1, <2>2, <2>3 DEF send_pdu
<1>5. ASSUME NEW t \in Sessions, send_deliver_sm(t)
      PROVE  Abstract!Next \/ UNCHANGED <<accepted, deliveries>>
  <2> DEFINE m == dpc[t]
  <2>1. submitted' = submitted /\ send_pdu(t, m) /\ m \in Msgs
    BY Zenon, <1>5 DEF send_deliver_sm, TypeInv
  <2>2. CASE wire' = wire
    BY <1>1, <1>2, <2>1, <2>2
  <2>3. CASE wire' = [wire EXCEPT ![t] = Append(@, m)]
    <3>1. Here(t, m) /\ m \in accepted
      BY Zenon, <2>1, AcceptedIsSubmitted DEF Here, At, PlaceInv
    <3>2. \A s \in Sessions : ~In(wire[s], m)
      <4>1. ~In(wire[t], m)
        BY Zenon, <2>1 DEF OrderInv, InOrder, Ahead, In
      <4>2. \A s \in Sessions : In(wire[s], m) => s = t
        BY Zenon, <2>1, <3>1 DEF PlaceInv, Here, At
      <4> QED BY <4>1, <4>2
    <3>3. PlacesOn(wire, m) = {}
      BY <3>2, PlaceOn DEF In
    <3> DEFINE p == <<t, Len(wire[t]) + 1>>
    <3>4. PlacesOn(wire', m) = {p} /\ \A k : k # m => PlacesOn(wire', k) = PlacesOn(wire, k)
      BY Zenon, <2>1, <2>3, <3>3, PlaceAdded
    <3> HIDE DEF p, m
    <3>5. /\ deliveries[m] = {} /\ deliveries'[m] = {p}
          /\ deliveries' = [deliveries EXCEPT ![m] = {p}]
      BY <2>1, <3>3, <3>4, Places
    <3>6. Abstract!Deliver(m)
      BY <1>1, <2>1, <3>1, <3>5 DEF Abstract!Deliver
    <3> QED BY <2>1, <3>6 DEF Abstract!Next
  <2> QED BY <2>1, <2>2, <2>3 DEF send_pdu
<1>6. ASSUME NEW s \in Sessions, AsioStep(s)
      PROVE  Abstract!Next \/ UNCHANGED <<accepted, deliveries>>
  <2>1. CASE UNCHANGED <<submitted, wire>>
    BY <1>1, <1>2, <2>1
  <2>2. CASE send_bind_resp(s) \/ \E m \in Msgs : handle_submit_sm(s, m)
    BY <1>3, <1>4, <2>2
  <2>3. \/ send_bind_resp(s) \/ \E m \in Msgs : handle_submit_sm(s, m)
        \/ UNCHANGED <<submitted, wire>>
    BY <1>6 DEF AsioStep, handle_bind, call_times_out, do_disconnect
  <2> QED BY <2>1, <2>2, <2>3
<1>7. ASSUME ServerStep PROVE UNCHANGED <<submitted, wire>>
  BY <1>7 DEF ServerStep, UpdateSessionDetails, RouteMessage_none, RouteMessage,
     deliver_times_out, server_restarts, register_session
<1>8. ASSUME NEW t \in Sessions, DbusStep(t)
      PROVE  Abstract!Next \/ UNCHANGED <<accepted, deliveries>>
  <2>1. CASE UNCHANGED <<submitted, wire>>
    BY <1>1, <1>2, <2>1
  <2>2. send_deliver_sm(t) \/ UNCHANGED <<submitted, wire>>
    BY Zenon, <1>8 DEF DbusStep, DeliverSm_refused, DeliverSm
  <2> QED BY <1>5, <2>1, <2>2
<1>9. CASE UNCHANGED vars
  BY <1>1, <1>2, <1>9 DEF vars, sessionVars
<1>10. ServerStep => UNCHANGED <<accepted, deliveries>>
  BY <1>1, <1>2, <1>7
<1> QED BY <1>6, <1>8, <1>9, <1>10 DEF Next

-----------------------------------------------------------------------------
(* The theorems.                                                            *)

LEMMA InitInv == Init => MoveInv /\ SilentInv /\ RoutedIsWritten
<1> SUFFICES ASSUME Init PROVE MoveInv /\ SilentInv /\ RoutedIsWritten
  OBVIOUS
<1>1. /\ \A s \in Sessions : /\ wire[s] = <<>> /\ deliverq[s] = <<>> /\ dpc[s] = NoMsg
                            /\ pc[s] = Idle /\ info[s] = "absent"
      /\ queue = <<>> /\ NoMsg \notin Msgs /\ \A m \in Msgs : result[m] = Pending
  BY RoutingAssumption DEF Init
<1>2. TypeInv
  <2>1. /\ state \in [Sessions -> States] /\ wire \in [Sessions -> Seq(Msgs \cup {"bind_resp"})]
        /\ deliverq \in [Sessions -> Seq(Msgs)] /\ submitted \in [Sessions -> Seq(Msgs)]
    BY DEF Init, States
  <2>2. dpc \in [Sessions -> Msgs \cup {NoMsg}] /\ DOMAIN pc = Sessions /\ DOMAIN info = Sessions
    BY DEF Init
  <2>3. queue \in Seq(CallType) /\ DOMAIN queue = {} /\ routing = NoRoute
    BY DEF Init
  <2>4. result \in [Msgs -> Sessions \cup {Empty, Pending}]
    BY DEF Init
  <2> QED BY Zenon, <2>1, <2>2, <2>3, <2>4 DEF TypeInv
<1>3. OrderInv
  <2>1. \A i : i \notin DOMAIN <<>>
    OBVIOUS
  <2>2. ASSUME NEW sub, NEW d PROVE InOrder(sub, <<>>, d, <<>>, <<>>)
    BY Zenon, <2>1 DEF InOrder
  <2> QED BY Zenon, <1>1, <2>2 DEF OrderInv
<1>4. PlaceInv
  <2>1. \A a : ~In(<<>>, a) /\ ~Called(<<>>, a)
    BY DEF In, Called
  <2>2. \A a \in Msgs : \A t \in Sessions : ~At(wire[t], dpc[t], deliverq[t], a)
    BY <1>1, <2>1 DEF At
  <2> QED BY Zenon, <1>1, <2>1, <2>2 DEF PlaceInv
<1>5. SilentInv
  <2>1. Idle # Bound /\ "absent" \notin RxStates
    BY DEF Idle, Bound, RxStates
  <2>2. \A i : i \notin DOMAIN <<>>
    OBVIOUS
  <2> QED BY Zenon, <1>1, <2>1, <2>2 DEF SilentInv
<1>6. RoutedIsWritten
  <2>1. Pending \notin Sessions
    BY RoutingAssumption DEF Pending, Sessions
  <2> QED BY Zenon, <1>1, <2>1 DEF RoutedIsWritten
<1> QED BY <1>2, <1>3, <1>4, <1>5, <1>6 DEF MoveInv

\* Whatever times out and whenever the server restarts, the messages of one
\* session that reach the same session are written in the order of their
\* submission: the calls of a session are queued in that order, the server
\* makes its DeliverSm calls in the order of its queue, and the D-Bus thread
\* sends one message before it takes the next.
THEOREM OrderKept == Spec => []SenderOrder
<1>1. MoveInv /\ [Next]_vars => MoveInv'
  BY Moves
<1>2. MoveInv => SenderOrder
  <2> SUFFICES ASSUME MoveInv, NEW s \in Sessions, NEW t \in Sessions,
                      NEW i \in DOMAIN wire[t], NEW j \in DOMAIN wire[t],
                      NEW k \in DOMAIN submitted[s], NEW l \in DOMAIN submitted[s],
                      i < j, wire[t][i] = submitted[s][k], wire[t][j] = submitted[s][l]
               PROVE  k < l
    BY DEF SenderOrder
  <2>1. Ahead(submitted, wire[t][i], wire[t][j])
    BY Zenon DEF MoveInv, OrderInv, InOrder
  <2>2. submitted \in [Sessions -> Seq(Msgs)]
    BY Zenon DEF MoveInv, TypeInv
  <2>3. submitted[s] \in Seq(Msgs)
    BY <2>2
  <2>4. submitted[s][k] \in Msgs /\ submitted[s][l] \in Msgs
    BY <2>3
  <2> QED BY Zenon, <2>1, <2>4 DEF Ahead
<1> QED BY <1>1, <1>2, InitInv, PTL DEF Spec

\* A session RouteMessage returned for a message has it on its connection
\* unless it has ended: answers of DeliverSm calls that timed out are not
\* taken for the answer to a later one, for any number of sessions.
THEOREM ReturnedIsWritten == Spec => []RoutedIsWritten
<1>1. TypeInv /\ RoutedIsWritten /\ [Next]_vars => TypeInv' /\ RoutedIsWritten'
  BY Types, Returned
<1>2. Init => TypeInv /\ RoutedIsWritten
  BY InitInv DEF MoveInv
<1> QED BY <1>1, <1>2, PTL DEF Spec

\* The first PDU a session is sent is its bind response, for any number of
\* sessions and restarts: the server lists a session as a receiver only after
\* update_session_details, which follows the response.
THEOREM BindRespLeads == Spec => []BindRespFirst
<1>1. TypeInv /\ SilentInv /\ [Next]_vars => TypeInv' /\ SilentInv'
  BY Types, Silent
<1>2. Init => TypeInv /\ SilentInv
  BY InitInv DEF MoveInv
<1>3. SilentInv => BindRespFirst
  BY DEF SilentInv, BindRespFirst
<1> QED BY <1>1, <1>2, <1>3, PTL DEF Spec

\* The path of a message through three processes implements the abstract
\* centre: every message is written to at most one place, after it was
\* accepted, whatever times out in RouteMessage and DeliverSm.
THEOREM DeliversAtMostOnce == Spec => AtMostOnce
<1>1. MoveInv /\ [Next]_vars => MoveInv' /\ [Abstract!Next]_<<accepted, deliveries>>
  BY Moves, Implements
<1>2. Init => Abstract!Init
  <2> SUFFICES ASSUME Init PROVE Abstract!Init
    OBVIOUS
  <2>1. \A s \in Sessions : wire[s] = <<>> /\ submitted[s] = <<>>
    BY DEF Init
  <2>2. \A m : ~Submitted(submitted, m) /\ PlacesOn(wire, m) = {}
    BY <2>1, PlaceOn DEF Submitted, In
  <2>3. accepted = {}
    BY <2>2, AcceptedIsSubmitted
  <2>4. deliveries = [m \in Msgs |-> {}]
    BY <2>2, Places
  <2> QED BY <2>3, <2>4 DEF Abstract!Init
<1>3. Init => MoveInv
  BY InitInv
<1> QED BY <1>1, <1>2, <1>3, PTL DEF Spec, AtMostOnce, Abstract!Spec
=============================================================================
