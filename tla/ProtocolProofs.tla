---------------------------- MODULE ProtocolProofs ----------------------------
(***************************************************************************)
(* Theorems on the SMPP code of SmppClientHandler that no thread and no     *)
(* socket is part of: its state machine, for any nesting of operations in   *)
(* callbacks, and what becomes of a message on its way through the codec,   *)
(* for bytes and strings of any length, any submit_sm and wherever it ends. *)
(***************************************************************************)
EXTENDS SmppStateMachine, SmppPdu, WellFoundedInduction, TLAPS

-----------------------------------------------------------------------------
(* The state machine.                                                       *)

\* The order in which a machine goes through its states.
Rank(s) ==
  CASE s = "IDLE"           -> 0
    [] s = "CONNECTED"      -> 1
    [] s = "BINDING"        -> 2
    [] s \in BoundStates    -> 3
    [] s = "UNBINDING"      -> 4
    [] s = "DISCONNECTED"   -> 5
    [] s = "ERROR_STATE"    -> 6

\* The machine only moves forward: every state object that was deleted belongs
\* to an earlier state.
MachineInv ==
  /\ current \in States
  /\ \A s \in freed : s \in States /\ Rank(s) < Rank(current)

\* A transition to a later state, or to the same one, keeps the invariant.
LEMMA Forward ==
  ASSUME MachineInv, NEW new \in States, NEW next, transition_to(new, next),
         new = current \/ Rank(current) < Rank(new)
  PROVE  MachineInv'
<1>1. CASE new = current
  BY <1>1 DEF transition_to, MachineInv
<1>2. CASE new # current
  <2>1. current' = new /\ freed' = freed \cup {current}
    BY <1>2 DEF transition_to
  <2>2. \A s \in States : Rank(s) \in Nat
    BY DEF Rank, States, BoundStates, Terminal
  <2> QED BY <1>2, <2>1, <2>2 DEF MachineInv
<1> QED BY <1>1, <1>2

\* Every step keeps the invariant.
LEMMA MachineStep == MachineInv /\ [MachineNext]_machineVars => MachineInv'
<1> SUFFICES ASSUME MachineInv, [MachineNext]_machineVars PROVE MachineInv'
  OBVIOUS
<1>1. current \in States
  BY DEF MachineInv
<1>2. CASE transition_to_connected
  BY <1>2, Forward DEF transition_to_connected, Rank, States, BoundStates
<1>3. CASE handle_bind
  <2>1. current = "CONNECTED"
    BY <1>1, <1>3 DEF handle_bind, MayCall, Accepts, States, BoundStates, Terminal
  <2> QED BY <1>3, <2>1, Forward DEF handle_bind, Rank, States, BoundStates
<1>4. ASSUME NEW type \in BindTypes \cup {"OTHER"}, handle_bind_resp(type) PROVE MachineInv'
  <2>1. current = "BINDING"
    BY <1>1, <1>4 DEF handle_bind_resp, MayCall, Accepts, States, BoundStates, Terminal
  <2>2. CASE type \in BindTypes
    <3>1. BoundState(type) \in BoundStates
      BY <2>2 DEF BoundState, BindTypes, BoundStates
    <3>2. Rank(current) < Rank(BoundState(type)) /\ BoundState(type) \in States
      BY <2>1, <3>1 DEF Rank, States, BoundStates
    <3> QED BY <1>4, <2>2, <3>2, Forward DEF handle_bind_resp
  <2>3. CASE type \notin BindTypes
    BY <1>4, <2>3 DEF handle_bind_resp, MachineInv
  <2> QED BY <2>2, <2>3
<1>5. CASE handle_bind_resp_failed
  <2>1. current = "BINDING"
    BY <1>1, <1>5 DEF handle_bind_resp_failed, MayCall, Accepts, States, BoundStates, Terminal
  <2> QED BY <1>5, <2>1, Forward DEF handle_bind_resp_failed, Rank, States, BoundStates, Terminal
<1>6. CASE handle_unbind
  <2>1. current \in BoundStates
    BY <1>1, <1>6 DEF handle_unbind, MayCall, Accepts, States, BoundStates, Terminal
  <2> QED BY <1>6, <2>1, Forward DEF handle_unbind, Rank, States, BoundStates
<1>7. CASE handle_unbind_resp \/ handle_unbind_resp_failed
  <2>1. current = "UNBINDING"
    BY <1>1, <1>7 DEF handle_unbind_resp, handle_unbind_resp_failed, MayCall, Accepts,
                      States, BoundStates, Terminal
  <2> QED BY <1>7, <2>1, Forward DEF handle_unbind_resp, handle_unbind_resp_failed, Rank,
                                     States, BoundStates, Terminal
<1>8. ASSUME NEW op \in Operations, reject(op) PROVE MachineInv'
  <2>1. current = "ERROR_STATE" \/ Rank(current) < Rank("ERROR_STATE")
    BY <1>1 DEF Rank, States, BoundStates, Terminal
  <2> QED BY <1>8, <2>1, Forward DEF reject, States, Terminal
<1>9. CASE callback_returns \/ UNCHANGED machineVars
  BY <1>9 DEF callback_returns, MachineInv, machineVars
<1> QED BY <1>2, <1>3, <1>4, <1>5, <1>6, <1>7, <1>8, <1>9 DEF MachineNext, handle_enquire_link

\* current_state_ never points to a deleted object, whatever PDUs come and
\* however deep callbacks nest: each transition deletes the object it leaves,
\* and no state is entered again.  It rests on the owner calling
\* transition_to_connected in IDLE only, which the code does not enforce.
THEOREM NeverDangling == MachineSpec => []StateObjectLive
<1>1. init_states => MachineInv
  BY DEF init_states, MachineInv, States
<1>2. MachineInv => StateObjectLive
  <2>1. \A s \in States : Rank(s) \in Nat
    BY DEF Rank, States, BoundStates, Terminal
  <2> QED BY <2>1 DEF MachineInv, StateObjectLive
<1> QED BY <1>1, <1>2, MachineStep, PTL DEF MachineSpec

\* A closed or failed machine is not revived: no state accepts an operation there,
\* and what is rejected goes to ERROR_STATE.  The owner calls
\* transition_to_connected in IDLE only.
THEOREM EndsForGood == MachineSpec => EndedStaysEnded
<1> DEFINE Ends == current' = current \/ (current = "DISCONNECTED" /\ current' = "ERROR_STATE")
           Step == (current \in Terminal) => Ends
<1>1. [MachineNext]_machineVars => [Step]_machineVars
  <2> SUFFICES ASSUME MachineNext, current \in Terminal PROVE Ends
    OBVIOUS
  <2>1. Accepts(current) = {} /\ current # "IDLE"
    BY DEF Accepts, Terminal, BoundStates
  <2>2. ASSUME NEW op \in Operations, reject(op) PROVE Ends
    BY <2>2 DEF reject, transition_to, Terminal
  <2>3. CASE callback_returns
    BY <2>3 DEF callback_returns
  <2> QED BY <2>1, <2>2, <2>3 DEF MachineNext, transition_to_connected, handle_bind,
         handle_bind_resp, handle_bind_resp_failed, handle_unbind, handle_unbind_resp,
         handle_unbind_resp_failed, handle_enquire_link, MayCall
<1> QED BY <1>1, PTL DEF MachineSpec, EndedStaysEnded

-----------------------------------------------------------------------------
(* bind_success.                                                             *)

Early == {"IDLE", "CONNECTED", "BINDING"}

Plain == {"transition", "unbind_success", "error", "OTHER"}

\* The operation of the frame will announce a bind when its callback returns.
Announces(f) == f.next \in BindTypes

\* Before a bind was accepted nothing is or will be announced.  After that one
\* announcement is due or was made, and what it names has been current.
AInv ==
  /\ stack \in Seq(Frames) /\ announced \in Nat
  /\ current \in Early =>
       /\ announced = 0
       /\ \A i \in DOMAIN stack : ~Announces(stack[i])
  /\ announced <= 1
  /\ \A i \in DOMAIN stack : Announces(stack[i]) =>
       /\ announced = 0 /\ BoundState(stack[i].next) \in freed \cup {current}
       /\ \A j \in DOMAIN stack : Announces(stack[j]) => i = j
  /\ \A i \in DOMAIN stack : stack[i].cb \in BindTypes =>
       BoundState(stack[i].cb) \in freed \cup {current}

\* Calling a callback that announces nothing, or none, keeps it.
LEMMA PlainKeeps ==
  ASSUME AInv, NEW cb \in Plain, NEW next \in Plain \cup {"none"},
         \/ UNCHANGED <<stack, announced>>
         \/ run_callback(stack, cb, next),
         current' \in Early => current \in Early,
         freed \cup {current} \subseteq freed' \cup {current'}
  PROVE  AInv'
<1>1. CASE UNCHANGED <<stack, announced>>
  BY <1>1 DEF AInv
<1>2. CASE run_callback(stack, cb, next)
  <2> DEFINE f == [cb |-> cb, next |-> next]
  <2>1. f \in Frames /\ f.cb \notin BindTypes /\ ~Announces(f)
    BY DEF Frames, Callbacks, Plain, BindTypes, Announces
  <2>2. stack' = Append(stack, f) /\ announced' = announced
    BY <1>2, <2>1 DEF run_callback
  <2> HIDE DEF f
  <2>3. /\ stack' \in Seq(Frames) /\ DOMAIN stack' = DOMAIN stack \cup {Len(stack) + 1}
        /\ stack'[Len(stack) + 1] = f
        /\ \A i \in DOMAIN stack : stack'[i] = stack[i]
    BY <2>1, <2>2 DEF AInv
  <2> QED BY <2>1, <2>2, <2>3 DEF AInv
<1> QED BY <1>1, <1>2

LEMMA TransitionKeeps ==
  ASSUME AInv, NEW new, NEW next \in Plain \cup {"none"}, transition_to(new, next),
         new \in Early => current \in Early
  PROVE  AInv'
<1>1. CASE new = current /\ next = "none"
  BY <1>1, PlainKeeps DEF transition_to, Plain
<1>2. CASE new = current /\ next # "none"
  BY <1>2, PlainKeeps DEF transition_to, Plain
<1>3. CASE new # current
  BY <1>3, PlainKeeps DEF transition_to, Plain
<1> QED BY <1>1, <1>2, <1>3

\* A bind was accepted: its announcement is due when the transition callback
\* has returned.
LEMMA BindKeeps ==
  ASSUME AInv, current = "BINDING", NEW type \in BindTypes,
         transition_to(BoundState(type), type)
  PROVE  AInv'
<1> DEFINE f == [cb |-> "transition", next |-> type]
<1>1. BoundState(type) \in BoundStates /\ BoundState(type) \notin Early
  BY DEF BoundState, BindTypes, BoundStates, Early
<1>2. current' = BoundState(type) /\ freed' = freed \cup {current}
  BY <1>1 DEF transition_to, Early
<1>3. stack' = Append(stack, f) /\ announced' = announced
  BY <1>1 DEF transition_to, run_callback, BindTypes, Early
<1>4. f \in Frames /\ f.cb \notin BindTypes /\ f.next = type
  BY DEF Frames, Callbacks, BindTypes
<1> HIDE DEF f
<1>5. /\ stack' \in Seq(Frames) /\ DOMAIN stack' = DOMAIN stack \cup {Len(stack) + 1}
      /\ stack'[Len(stack) + 1] = f
      /\ \A i \in DOMAIN stack : stack'[i] = stack[i]
  BY <1>3, <1>4 DEF AInv
<1>6. announced = 0 /\ \A i \in DOMAIN stack : ~Announces(stack[i])
  BY DEF AInv, Early
<1> QED BY <1>1, <1>2, <1>3, <1>4, <1>5, <1>6 DEF AInv, Announces

\* A callback returns: what it leaves to be announced is announced now.
LEMMA ReturnKeeps ==
  ASSUME AInv, callback_returns
  PROVE  AInv'
<1> DEFINE n == Len(stack)
           top == stack[n]
           rest == SubSeq(stack, 1, n - 1)
<1>1. /\ n \in Nat \ {0} /\ top \in Frames /\ rest \in Seq(Frames)
      /\ DOMAIN stack = 1 .. n /\ DOMAIN rest = 1 .. n - 1 /\ Len(rest) = n - 1
      /\ \A i \in 1 .. n - 1 : rest[i] = stack[i]
  <2>1. stack \in Seq(Frames) /\ stack # <<>>
    BY DEF AInv, callback_returns
  <2>2. n \in Nat \ {0} /\ DOMAIN stack = 1 .. n /\ top \in Frames
    BY <2>1
  <2> HIDE DEF n
  <2>3. \A i \in 1 .. n - 1 : stack[i] \in Frames
    BY <2>1, <2>2
  <2>4. n - 1 \in Nat /\ rest = [i \in 1 .. n - 1 |-> stack[i]]
    BY <2>1, <2>2
  <2> HIDE DEF top, rest
  <2>5. rest \in Seq(Frames) /\ Len(rest) = n - 1
    BY <2>3, <2>4
  <2>6. DOMAIN rest = 1 .. n - 1 /\ \A i \in 1 .. n - 1 : rest[i] = stack[i]
    BY Zenon, <2>4
  <2> QED BY <2>2, <2>5, <2>6
<1>2. UNCHANGED <<current, freed>>
  BY DEF callback_returns
<1>3. CASE top.next = "none"
  <2>1. stack' = rest /\ announced' = announced
    BY <1>3 DEF callback_returns
  <2> HIDE DEF n, top, rest
  <2>2. \A i \in DOMAIN stack' : i \in DOMAIN stack /\ stack'[i] = stack[i]
    BY <1>1, <2>1
  <2> QED BY <1>1, <1>2, <2>1, <2>2 DEF AInv
<1>4. CASE top.next # "none"
  <2> DEFINE f == [cb |-> top.next, next |-> "none"]
  <2>1. stack' = Append(rest, f)
    BY <1>4 DEF callback_returns, run_callback
  <2>2. announced' = IF top.next \in BindTypes THEN announced + 1 ELSE announced
    BY <1>4 DEF callback_returns, run_callback
  <2>3. f \in Frames /\ f.cb = top.next /\ ~Announces(f)
    <3>1. top.next \in Callbacks
      BY <1>1, <1>4 DEF Frames
    <3> QED BY <3>1 DEF Frames, Announces, BindTypes
  <2>4. n \in DOMAIN stack /\ \A i \in DOMAIN stack : i # n => i \in 1 .. n - 1
    BY <1>1
  <2> HIDE DEF n, f, rest
  <2>5. /\ stack' \in Seq(Frames) /\ DOMAIN stack' = DOMAIN stack
        /\ stack'[n] = f /\ \A i \in 1 .. n - 1 : stack'[i] = stack[i]
    BY <1>1, <2>1, <2>3
  <2>6. CASE top.next \in BindTypes
    <3>1. /\ announced = 0 /\ BoundState(top.next) \in freed \cup {current}
          /\ \A j \in DOMAIN stack : Announces(stack[j]) => n = j
          /\ current \notin Early
      BY <2>4, <2>6 DEF AInv, Announces
    <3>2. announced' = 1
      BY <2>2, <2>6, <3>1
    <3>3. \A i \in DOMAIN stack' : ~Announces(stack'[i])
      BY <2>3, <2>5, <2>4, <3>1
    <3>4. \A i \in DOMAIN stack' : stack'[i].cb \in BindTypes =>
             BoundState(stack'[i].cb) \in freed \cup {current}
      BY <2>3, <2>5, <2>4, <3>1 DEF AInv
    <3> QED BY <1>2, <2>5, <3>1, <3>2, <3>3, <3>4 DEF AInv
  <2>7. CASE top.next \notin BindTypes
    <3>1. announced' = announced
      BY <2>2, <2>7
    <3>2. \A i \in DOMAIN stack' : Announces(stack'[i]) => stack'[i] = stack[i]
      BY <2>3, <2>5, <2>4
    <3>3. \A i \in DOMAIN stack' : stack'[i].cb \in BindTypes => stack'[i] = stack[i]
      BY <2>3, <2>5, <2>4, <2>7
    <3> QED BY <1>2, <2>5, <3>1, <3>2, <3>3 DEF AInv
  <2> QED BY <2>6, <2>7
<1> QED BY <1>3, <1>4

LEMMA AnnounceStep ==
  ASSUME MachineInv, AInv, [MachineNext]_machineVars
  PROVE  AInv'
<1>1. current \in States
  BY DEF MachineInv
<1>2. CASE transition_to_connected
  BY <1>2, TransitionKeeps DEF transition_to_connected, Early, Plain
<1>3. CASE handle_bind
  <2>1. current = "CONNECTED"
    BY <1>1, <1>3 DEF handle_bind, MayCall, Accepts, States, BoundStates, Terminal
  <2> QED BY <1>3, <2>1, TransitionKeeps DEF handle_bind, Early, Plain
<1>4. ASSUME NEW type \in BindTypes \cup {"OTHER"}, handle_bind_resp(type) PROVE AInv'
  <2>1. current = "BINDING"
    BY <1>1, <1>4 DEF handle_bind_resp, MayCall, Accepts, States, BoundStates, Terminal
  <2>2. CASE type \in BindTypes
    BY <1>4, <2>1, <2>2, BindKeeps DEF handle_bind_resp
  <2>3. CASE type \notin BindTypes
    <3>1. type = "OTHER" /\ run_callback(stack, type, "none") /\ UNCHANGED <<current, freed>>
      BY <1>4, <2>3 DEF handle_bind_resp
    <3> QED BY <3>1, PlainKeeps DEF Plain
  <2> QED BY <2>2, <2>3
<1>5. CASE handle_bind_resp_failed
  BY <1>5, TransitionKeeps DEF handle_bind_resp_failed, Early, Plain
<1>6. CASE handle_unbind
  BY <1>6, TransitionKeeps DEF handle_unbind, Early, Plain
<1>7. CASE handle_unbind_resp
  BY <1>7, TransitionKeeps DEF handle_unbind_resp, Early, Plain
<1>8. CASE handle_unbind_resp_failed
  BY <1>8, TransitionKeeps DEF handle_unbind_resp_failed, Early, Plain
<1>9. ASSUME NEW op \in Operations, reject(op) PROVE AInv'
  BY <1>9, TransitionKeeps DEF reject, Early, Plain
<1>10. CASE UNCHANGED machineVars
  BY <1>10 DEF AInv, machineVars
<1> QED BY <1>2, <1>3, <1>4, <1>5, <1>6, <1>7, <1>8, <1>9, <1>10, ReturnKeeps
        DEF MachineNext, handle_enquire_link

\* bind_success runs at most once in the life of a machine, and only for a type
\* of bind the machine has been bound as, however deep callbacks nest.
THEOREM AnnouncedOnce == MachineSpec => []AnnouncedWasBound
<1>1. init_states => MachineInv /\ AInv
  BY DEF init_states, MachineInv, AInv, States
<1>2. AInv => AnnouncedWasBound
  BY DEF AInv, AnnouncedWasBound
<1> QED BY <1>1, <1>2, MachineStep, AnnounceStep, PTL DEF MachineSpec

-----------------------------------------------------------------------------
(* Sequences of bytes.                                                      *)

Str == Seq(Nat)

\* s without a NUL.
NoNul(s) == s \in Str /\ \A k \in 1 .. Len(s) : s[k] # 0

\* w goes on where u ends.
Extends(u, w) == Len(u) <= Len(w) /\ \A k \in 1 .. Len(u) : w[k] = u[k]

\* w has s from offset off on; as far as w goes.
Has(w, off, s) == \A k \in 1 .. Len(s) : off + k <= Len(w) /\ w[off + k] = s[k]

Begins(w, off, s) == \A k \in 1 .. Len(s) : off + k <= Len(w) => w[off + k] = s[k]

Joined(u, v, w) ==
  /\ w \in Str /\ Len(w) = Len(u) + Len(v)
  /\ Extends(u, w) /\ Has(w, Len(u), v)

LEMMA Join ==
  ASSUME NEW u \in Str, NEW v \in Str
  PROVE  Joined(u, v, u \o v)
<1> DEFINE w == u \o v
<1>1. /\ w \in Str /\ Len(w) = Len(u) + Len(v)
      /\ \A i \in 1 .. Len(u) : w[i] = u[i]
      /\ \A i \in 1 .. Len(v) : w[Len(u) + i] = v[i]
  BY DEF Str
<1>2. Len(u) \in Nat /\ Len(v) \in Nat
  BY DEF Str
<1> HIDE DEF w
<1>3. Extends(u, w) /\ Has(w, Len(u), v)
  BY <1>1, <1>2 DEF Extends, Has
<1> QED BY <1>1, <1>3 DEF Joined, w

LEMMA ExtendsTwice ==
  ASSUME NEW u \in Str, NEW v \in Str, NEW w \in Str, Extends(u, v), Extends(v, w)
  PROVE  Extends(u, w)
<1>1. Len(u) \in Nat /\ Len(v) \in Nat /\ Len(w) \in Nat
  BY DEF Str
<1> QED BY <1>1 DEF Extends

LEMMA HasOn ==
  ASSUME NEW u \in Str, NEW w \in Str, NEW off \in Nat, NEW s \in Str,
         Has(u, off, s), Extends(u, w)
  PROVE  Has(w, off, s)
<1>1. Len(u) \in Nat /\ Len(w) \in Nat /\ Len(s) \in Nat
  BY DEF Str
<1> QED BY <1>1 DEF Has, Extends

\* A part of what w has.
LEMMA HasPart ==
  ASSUME NEW w \in Str, NEW off \in Nat, NEW s \in Str, Has(w, off, s), NEW k \in 1 .. Len(s)
  PROVE  Has(w, off + k - 1, <<s[k]>>)
<1>1. Len(w) \in Nat /\ Len(s) \in Nat /\ Len(<<s[k]>>) = 1 /\ <<s[k]>>[1] = s[k]
  BY DEF Str
<1>2. off + k <= Len(w) /\ w[off + k] = s[k] /\ (off + k - 1) + 1 = off + k
  BY <1>1 DEF Has
<1> QED BY <1>1, <1>2 DEF Has

\* r is what w has from offset off on, n long.
Taken(w, off, n, r) == r \in Str /\ Len(r) = n /\ \A i \in 1 .. n : r[i] = w[off + i]

LEMMA Take ==
  ASSUME NEW w \in Str, NEW off \in Nat, NEW n \in Nat, off + n <= Len(w)
  PROVE  Taken(w, off, n, SubSeq(w, off + 1, off + n))
<1> DEFINE l == off + 1
           h == off + n
<1>1. l \in Nat /\ h \in Nat /\ l >= 1 /\ h <= Len(w) /\ l <= h + 1 /\ h - l + 1 = n
  OBVIOUS
<1>2. \A i \in 1 .. n : l + i - 1 = off + i
  OBVIOUS
<1> HIDE DEF l, h
<1>3. /\ SubSeq(w, l, h) \in Str /\ Len(SubSeq(w, l, h)) = h - l + 1
      /\ \A i \in 1 .. h - l + 1 : SubSeq(w, l, h)[i] = w[l + i - 1]
  BY <1>1 DEF Str
<1>4. Taken(w, off, n, SubSeq(w, l, h))
  BY Zenon, <1>1, <1>2, <1>3 DEF Taken
<1> QED BY Zenon, <1>4 DEF l, h

\* What is left of w when it is cut.
LEMMA CutBegins ==
  ASSUME NEW w \in Str, NEW n \in 0 .. Len(w), NEW off \in Nat, NEW s \in Str, Has(w, off, s)
  PROVE  Begins(SubSeq(w, 1, n), off, s)
<1> DEFINE r == SubSeq(w, 1, n)
<1>1. Taken(w, 0, n, SubSeq(w, 0 + 1, 0 + n)) /\ 0 + 1 = 1 /\ 0 + n = n
  BY Take
<1>2. Len(r) = n /\ \A i \in 1 .. n : r[i] = w[0 + i]
  BY Zenon, <1>1 DEF Taken
<1>3. \A i \in 1 .. n : r[i] = w[i]
  BY <1>2
<1> HIDE DEF r
<1>4. Len(s) \in Nat
  BY DEF Str
<1>5. Begins(r, off, s)
  BY <1>2, <1>3, <1>4 DEF Has, Begins
<1> QED BY <1>5 DEF r

LEMMA SameSeq ==
  ASSUME NEW s \in Str, NEW t \in Str, Len(s) = Len(t), \A i \in 1 .. Len(s) : s[i] = t[i]
  PROVE  s = t
BY DEF Str

\* q is the first n of s.
FirstOf(n, s, q) == q \in Str /\ Len(q) = n /\ q \in Prefixes(s) /\ (n = Len(s) => q = s)

\* What is read from off on of a string that begins there.
LEMMA ReadPrefix ==
  ASSUME NEW w \in Str, NEW off \in Nat, NEW s \in Str, Begins(w, off, s),
         NEW n \in 0 .. Len(s), off + n <= Len(w)
  PROVE  FirstOf(n, s, SubSeq(w, off + 1, off + n))
<1> DEFINE r == SubSeq(w, off + 1, off + n)
<1>1. Len(s) \in Nat
  BY DEF Str
<1>2. Taken(w, off, n, r)
  BY <1>1, Take
<1> HIDE DEF r
<1>3. r \in Str /\ Len(r) = n /\ \A i \in 1 .. n : r[i] = s[i]
  <2>1. \A i \in 1 .. n : i \in 1 .. Len(s) /\ off + i <= Len(w)
    BY <1>1
  <2> QED BY Zenon, <1>2, <2>1 DEF Taken, Begins
<1>4. r \in Prefixes(s)
  <2> DEFINE p == SubSeq(s, 1, n)
  <2>1. Taken(s, 0, n, SubSeq(s, 0 + 1, 0 + n))
    BY <1>1, Take
  <2>2. 0 + 1 = 1 /\ 0 + n = n /\ \A i \in 1 .. n : 0 + i = i
    BY <1>1
  <2>3. Taken(s, 0, n, p)
    BY Zenon, <2>1, <2>2
  <2>4. p \in Prefixes(s)
    BY Zenon DEF Prefixes
  <2> HIDE DEF p
  <2>5. \A i \in 1 .. n : r[i] = p[i]
    BY Zenon, <1>3, <2>2, <2>3 DEF Taken
  <2>6. r = p
    BY Zenon, <1>3, <2>3, <2>5, SameSeq DEF Taken
  <2> QED BY Zenon, <2>4, <2>6
<1>5. n = Len(s) => r = s
  BY Zenon, <1>3, SameSeq
<1> QED BY Zenon, <1>3, <1>4, <1>5 DEF r, FirstOf

-----------------------------------------------------------------------------
(* Reading a body, wherever it ends.                                        *)

\* Offset o, or the end of w.
Clamp(w, o) == IF o <= Len(w) THEN o ELSE Len(w)

\* r is what read_cstr may return from offset o on of w, where s begins: a prefix of s,
\* the whole of it and the offset past it if s is short enough and w does not end.
CstrRead(w, o, max, s, r) ==
  /\ r.s \in Str /\ r.s \in Prefixes(s)
  /\ Len(s) < max => r.off = Clamp(w, o + Len(s) + 1)
  /\ Len(s) < max /\ o + Len(s) <= Len(w) => r.s = s

LEMMA ReadInside ==
  ASSUME NEW w \in Str, NEW o \in 0 .. Len(w), NEW max \in Nat, NEW s, NoNul(s),
         Begins(w, o, s), Begins(w, o + Len(s), << 0 >>)
  PROVE  CstrRead(w, o, max, s, read_cstr(w, o, max))
<1> DEFINE n == Len(s)
           L == Len(w)
           end  == last(w, o, max)
           N    == nuls(w, o, max)
           nul  == Min(N)
           r == read_cstr(w, o, max)
<1>1. n \in Nat /\ L \in Nat /\ s \in Str /\ o \in Nat /\ o <= L
  BY DEF NoNul, Str
<1>2. /\ end \in Nat /\ o <= end /\ end <= L /\ end <= o + max
      /\ end = IF L - o < max THEN L ELSE o + max
  BY <1>1 DEF last
<1>0. N = {i \in o + 1 .. end : w[i] = 0}
  BY Zenon DEF nuls
<1> HIDE DEF end, N
<1>3. \A k \in 1 .. n : o + k <= L => w[o + k] # 0
  BY Zenon DEF Begins, NoNul
<1>4. \A i \in o + 1 .. o + n : i <= L => w[i] # 0
  <2> SUFFICES ASSUME NEW i \in o + 1 .. o + n, i <= L PROVE w[i] # 0
    OBVIOUS
  <2>1. i - o \in 1 .. n /\ o + (i - o) = i
    BY <1>1
  <2> QED BY Zenon, <1>3, <2>1
<1>5. r = IF N = {} THEN [s |-> SubSeq(w, o + 1, end), off |-> end]
                       ELSE [s |-> SubSeq(w, o + 1, nul - 1), off |-> nul]
  BY Zenon DEF read_cstr, N, end
<1> HIDE DEF r
<1>6. CASE n < max /\ o + n + 1 <= L
  <2>1. w[o + n + 1] = 0
    <3>1. Len(<<0>>) = 1 /\ <<0>>[1] = 0 /\ (o + n) + 1 = o + n + 1
      BY <1>1
    <3> QED BY <1>6, <3>1 DEF Begins
  <2>2. o + n + 1 \in o + 1 .. end
    BY <1>1, <1>2, <1>6
  <2>3. o + n + 1 \in N
    BY Zenon, <1>0, <2>1, <2>2
  <2>4. \A j \in N : o + n + 1 <= j
    <3> SUFFICES ASSUME NEW j \in o + 1 .. end, w[j] = 0 PROVE o + n + 1 <= j
      BY Zenon, <1>0
    <3> QED BY <1>1, <1>2, <1>4
  <2>5. nul = o + n + 1
    <3>1. nul \in N /\ \A j \in N : nul <= j
      BY Zenon, <2>3, <2>4 DEF Min
    <3>2. nul <= o + n + 1 /\ o + n + 1 <= nul /\ nul \in o + 1 .. end
      BY Zenon, <1>0, <2>3, <2>4, <3>1
    <3> HIDE DEF nul
    <3> QED BY <1>1, <1>2, <3>2
  <2> HIDE DEF nul
  <2>6. r = [s |-> SubSeq(w, o + 1, o + n), off |-> o + n + 1]
    <3>1. N # {} /\ nul - 1 = o + n
      BY <1>1, <2>3, <2>5
    <3> QED BY Zenon, <1>5, <2>5, <3>1
  <2>7. r.s = SubSeq(w, o + 1, o + n) /\ r.off = o + n + 1
    BY <2>6
  <2>8. r.s \in Str /\ r.s \in Prefixes(s) /\ r.s = s
    <3>1. n \in 0 .. Len(s) /\ o + n <= Len(w)
      BY <1>1, <1>6
    <3>2. FirstOf(n, s, SubSeq(w, o + 1, o + n))
      BY Zenon, <1>1, <3>1, ReadPrefix
    <3> QED BY Zenon, <2>7, <3>2 DEF FirstOf
  <2> QED BY Zenon, <1>6, <2>7, <2>8 DEF CstrRead, Clamp, r
<1>7. CASE ~(n < max /\ o + n + 1 <= L)
  <2>1. end - o \in 0 .. n /\ o + (end - o) = end /\ o + (end - o) <= L
    BY <1>1, <1>2, <1>7
  <2>2. N = {}
    <3> SUFFICES ASSUME NEW j \in N PROVE FALSE
      BY Zenon
    <3>0. j \in o + 1 .. end /\ w[j] = 0
      BY Zenon, <1>0
    <3>1. j \in o + 1 .. o + n /\ j <= L
      BY <1>1, <1>2, <2>1, <3>0
    <3> QED BY Zenon, <1>4, <3>0, <3>1
  <2>3. n < max => end = L /\ o + n + 1 > L
    BY <1>1, <1>2, <1>7
  <2>4. n < max /\ o + n <= L => end - o = n
    BY <1>1, <1>2, <2>1, <2>3
  <2> HIDE DEF nul
  <2>5. r.s = SubSeq(w, o + 1, end) /\ r.off = end
    BY Zenon, <1>5, <2>2
  <2>6. r.s \in Str /\ r.s \in Prefixes(s) /\ (end - o = n => r.s = s)
    <3>1. FirstOf(end - o, s, SubSeq(w, o + 1, o + (end - o)))
      BY Zenon, <1>1, <2>1, ReadPrefix
    <3> QED BY Zenon, <2>1, <2>5, <3>1 DEF FirstOf
  <2>7. n < max => r.off = Clamp(w, o + n + 1)
    BY <1>1, <2>3, <2>5 DEF Clamp
  <2> QED BY Zenon, <2>4, <2>6, <2>7 DEF CstrRead, r
<1> QED BY <1>6, <1>7

LEMMA ReadCstr ==
  ASSUME NEW w \in Str, NEW o \in Nat, NEW max \in Nat, NEW s, NoNul(s),
         Begins(w, o, s), Begins(w, o + Len(s), << 0 >>)
  PROVE  CstrRead(w, o, max, s, read_cstr(w, Clamp(w, o), max))
<1>1. Len(w) \in Nat /\ Len(s) \in Nat
  BY DEF NoNul, Str
<1>2. CASE o <= Len(w)
  <2>1. Clamp(w, o) = o /\ o \in 0 .. Len(w)
    BY <1>1, <1>2 DEF Clamp
  <2> QED BY Zenon, <2>1, ReadInside
<1>3. CASE o > Len(w)
  <2> DEFINE L == Len(w)
             r == read_cstr(w, L, max)
  <2>1. Clamp(w, o) = L /\ L \in 0 .. Len(w)
    BY <1>1, <1>3 DEF Clamp
  <2>2. Begins(w, L, s) /\ Begins(w, L + Len(s), <<0>>)
    BY <1>1 DEF Begins
  <2>3. CstrRead(w, L, max, s, r)
    BY Zenon, <2>1, <2>2, ReadInside
  <2>4. Clamp(w, L + Len(s) + 1) = Clamp(w, o + Len(s) + 1) /\ ~(o + Len(s) <= Len(w))
    BY <1>1, <1>3 DEF Clamp
  <2> HIDE DEF r
  <2>5. CstrRead(w, o, max, s, r)
    BY Zenon, <2>3, <2>4 DEF CstrRead
  <2> QED BY Zenon, <2>1, <2>5 DEF r
<1> QED BY <1>1, <1>2, <1>3

LEMMA Skip ==
  ASSUME NEW w \in Str, NEW o \in Nat, NEW n \in Nat
  PROVE  skip(w, Clamp(w, o), n) = Clamp(w, o + n)
<1>1. Len(w) \in Nat
  BY DEF Str
<1> QED BY <1>1 DEF skip, Clamp

\* The text, of which a prefix is read, the whole if w does not end.
LEMMA ReadText ==
  ASSUME NEW w \in Str, NEW o \in Nat, NEW s \in Str,
         Begins(w, o, <<Len(s)>>), Begins(w, o + 1, s)
  PROVE  /\ read_text(w, Clamp(w, o)) \in Str /\ read_text(w, Clamp(w, o)) \in Prefixes(s)
         /\ o + 1 + Len(s) <= Len(w) => read_text(w, Clamp(w, o)) = s
<1> DEFINE r == read_text(w, Clamp(w, o))
<1>1. Len(w) \in Nat /\ Len(s) \in Nat
  BY DEF Str
<1>2. CASE o >= Len(w)
  <2>1. r = <<>> /\ ~(o + 1 + Len(s) <= Len(w))
    BY <1>1, <1>2 DEF Clamp, read_text
  <2>2. <<>> \in Str /\ <<>> \in Prefixes(s)
    <3>1. 0 \in 0 .. Len(s) /\ SubSeq(s, 1, 0) = <<>> /\ <<>> \in Str
      BY <1>1 DEF Str
    <3> QED BY Zenon, <3>1 DEF Prefixes
  <2> QED BY Zenon, <2>1, <2>2
<1>3. CASE o < Len(w)
  <2> DEFINE avail == IF Len(s) <= Len(w) - o - 1 THEN Len(s) ELSE Len(w) - o - 1
  <2>1. Clamp(w, o) = o /\ ~(o >= Len(w))
    BY <1>1, <1>3 DEF Clamp
  <2>2. w[o + 1] = Len(s)
    <3>1. Len(<<Len(s)>>) = 1 /\ <<Len(s)>>[1] = Len(s) /\ o + 1 <= Len(w)
      BY <1>1, <1>3
    <3> QED BY <3>1 DEF Begins
  <2>3. r = SubSeq(w, o + 2, o + 1 + avail)
    BY Zenon, <2>1, <2>2 DEF read_text
  <2>4. avail \in 0 .. Len(s) /\ (o + 1) + avail <= Len(w) /\ (o + 1) + 1 = o + 2 /\ o + 1 \in Nat
    <3>1. CASE Len(s) <= Len(w) - o - 1
      BY <1>1, <1>3, <3>1
    <3>2. CASE ~(Len(s) <= Len(w) - o - 1)
      BY <1>1, <1>3, <3>2
    <3> QED BY Zenon, <3>1, <3>2
  <2>5. o + 1 + Len(s) <= Len(w) => avail = Len(s)
    BY <1>1
  <2> HIDE DEF avail
  <2>6. FirstOf(avail, s, SubSeq(w, (o + 1) + 1, (o + 1) + avail))
    BY Zenon, <2>4, ReadPrefix
  <2> QED BY Zenon, <2>3, <2>4, <2>5, <2>6 DEF FirstOf
<1> QED BY <1>1, <1>2, <1>3
\* A set of numbers has a least one.
LEMMA Least ==
  ASSUME NEW S \in SUBSET Nat, S # {}
  PROVE  Min(S) \in S /\ \A j \in S : Min(S) <= j
<1>1. PICK a \in S : \A b \in S : ~ (<<b, a>> \in OpToRel(<, Nat))
  BY Zenon, WFMin, NatLessThanWellFounded
<1>2. \A b \in S : a <= b
  <2>1. \A b \in Nat : b < a => <<b, a>> \in OpToRel(<, Nat)
    BY DEF OpToRel
  <2>2. a \in Nat /\ \A b \in S : b \in Nat
    OBVIOUS
  <2>3. \A b \in S : ~(b < a)
    BY Zenon, <1>1, <2>1, <2>2
  <2> QED BY <2>2, <2>3
<1> QED BY Zenon, <1>2 DEF Min

\* Whatever there is in a body, what is read of it is a string, and no offset leaves it.
LEMMA ReadAny ==
  ASSUME NEW w \in Str, NEW o \in 0 .. Len(w), NEW max \in Nat
  PROVE  read_cstr(w, o, max).s \in Str /\ read_cstr(w, o, max).off \in 0 .. Len(w)
<1> DEFINE L   == Len(w)
           end == last(w, o, max)
           N   == nuls(w, o, max)
           nul == Min(N)
           r   == read_cstr(w, o, max)
<1>1. L \in Nat /\ o \in Nat /\ o <= L
  BY DEF Str
<1>2. end \in Nat /\ o <= end /\ end <= L
  BY <1>1 DEF last
<1>3. N = {i \in o + 1 .. end : w[i] = 0}
  BY Zenon DEF nuls
<1>4. r = IF N = {} THEN [s |-> SubSeq(w, o + 1, end), off |-> end]
                    ELSE [s |-> SubSeq(w, o + 1, nul - 1), off |-> nul]
  BY Zenon DEF read_cstr
<1> HIDE DEF r, N, end
<1>5. \A e \in o .. L : SubSeq(w, o + 1, e) \in Str
  <2> SUFFICES ASSUME NEW e \in o .. L PROVE SubSeq(w, o + 1, e) \in Str
    OBVIOUS
  <2>1. e - o \in Nat /\ o + (e - o) = e /\ e <= L
    BY <1>1
  <2>2. Taken(w, o, e - o, SubSeq(w, o + 1, o + (e - o)))
    BY Zenon, <1>1, <2>1, Take
  <2> QED BY Zenon, <2>1, <2>2 DEF Taken
<1>6. CASE N = {}
  <2>1. r.s = SubSeq(w, o + 1, end) /\ r.off = end
    BY Zenon, <1>4, <1>6
  <2>2. end \in o .. L /\ end \in 0 .. L
    BY <1>1, <1>2
  <2> QED BY Zenon, <1>5, <2>1, <2>2 DEF r
<1>7. CASE N # {}
  <2>1. r.s = SubSeq(w, o + 1, nul - 1) /\ r.off = nul
    BY Zenon, <1>4, <1>7
  <2>2. \A i \in N : i \in o + 1 .. end
    BY Zenon, <1>3
  <2>3. N \in SUBSET Nat
    BY <1>1, <1>2, <2>2
  <2>4. nul \in o + 1 .. end
    BY Zenon, <1>7, <2>2, <2>3, Least
  <2> HIDE DEF nul
  <2>5. nul - 1 \in o .. L /\ nul \in 0 .. L
    BY <1>1, <1>2, <2>4
  <2> QED BY Zenon, <1>5, <2>1, <2>5 DEF r
<1> QED BY <1>6, <1>7

LEMMA SkipAny ==
  ASSUME NEW w \in Str, NEW o \in 0 .. Len(w), NEW n \in Nat
  PROVE  skip(w, o, n) \in 0 .. Len(w)
<1>1. Len(w) \in Nat
  BY DEF Str
<1> QED BY <1>1 DEF skip

LEMMA TextAny ==
  ASSUME NEW w \in Str, NEW o \in 0 .. Len(w)
  PROVE  read_text(w, o) \in Str
<1>1. Len(w) \in Nat /\ <<>> \in Str /\ \A i \in 1 .. Len(w) : w[i] \in Nat
  BY DEF Str
<1>2. CASE o >= Len(w)
  BY Zenon, <1>1, <1>2 DEF read_text
<1>3. CASE ~(o >= Len(w))
  <2> DEFINE x == w[o + 1]
             avail == IF x <= Len(w) - o - 1 THEN x ELSE Len(w) - o - 1
  <2>1. read_text(w, o) = SubSeq(w, o + 2, o + 1 + avail)
    BY Zenon, <1>3 DEF read_text
  <2>2. x \in Nat
    BY <1>1, <1>3
  <2> HIDE DEF x
  <2>3. avail \in Nat /\ (o + 1) + avail <= Len(w) /\ (o + 1) + 1 = o + 2 /\ o + 1 \in Nat
    <3>1. CASE x <= Len(w) - o - 1
      BY <1>1, <1>3, <2>2, <3>1
    <3>2. CASE ~(x <= Len(w) - o - 1)
      BY <1>1, <1>3, <2>2, <3>2
    <3> QED BY Zenon, <3>1, <3>2
  <2> HIDE DEF avail
  <2>4. Taken(w, o + 1, avail, SubSeq(w, (o + 1) + 1, (o + 1) + avail))
    BY Zenon, <2>3, Take
  <2> QED BY Zenon, <2>1, <2>3, <2>4 DEF Taken
<1> QED BY <1>2, <1>3

-----------------------------------------------------------------------------
(* The body.                                                                *)

Named == [src_addr : Str, dst_addr : Str, short_message : Str]

\* Where the fields of a body begin; f has the strings and t is the delivery time.
AtDst(f) == 6 + Len(f.src_addr)

AtTime(f) == 10 + Len(f.src_addr) + Len(f.dst_addr)

AtText(f, t) == 17 + Len(f.src_addr) + Len(f.dst_addr) + Len(t)

Total(f, t) == AtText(f, t) + Len(f.short_message)

\* w is laid out as a body, as far as it goes.
Laid(w, f, t) ==
  /\ Begins(w, 0, <<0>>)
  /\ Begins(w, 3, f.src_addr) /\ Begins(w, 3 + Len(f.src_addr), <<0>>)
  /\ Begins(w, AtDst(f), f.dst_addr) /\ Begins(w, AtDst(f) + Len(f.dst_addr), <<0>>)
  /\ Begins(w, AtTime(f), t) /\ Begins(w, AtTime(f) + Len(t), <<0>>)
  /\ Begins(w, AtTime(f) + Len(t) + 1, <<0>>)
  /\ Begins(w, AtText(f, t) - 1, <<Len(f.short_message)>>)
  /\ Begins(w, AtText(f, t), f.short_message)

\* What parse makes of a body: p, of f.
ParsedAs(p, w, f, t, max) ==
  /\ p \in Named
  /\ p.src_addr \in Prefixes(f.src_addr)
  /\ Len(f.src_addr) < max => p.dst_addr \in Prefixes(f.dst_addr)
  /\ Len(f.src_addr) < max /\ Len(f.dst_addr) < max =>
       /\ p.short_message \in Prefixes(f.short_message)
       /\ Total(f, t) <= Len(w) => p = f

\* parse reads every field up to the first one that does not end in time as far as the
\* body goes.
LEMMA ParseLaid ==
  ASSUME NEW w \in Str, NEW f \in Named, NEW t, NoNul(f.src_addr), NoNul(f.dst_addr), NoNul(t),
         NEW max \in Nat, 0 < max, Len(t) < max, Laid(w, f, t)
  PROVE  ParsedAs(parse(w, max), w, f, t, max)
<1> DEFINE a == Len(f.src_addr)
           b == Len(f.dst_addr)
           c == Len(t)
           m == Len(f.short_message)
           service  == read_cstr(w, 0, max)
           src      == read_cstr(w, skip(w, service.off, 2), max)
           dst      == read_cstr(w, skip(w, src.off, 2), max)
           schedule == read_cstr(w, skip(w, dst.off, 3), max)
           validity == read_cstr(w, schedule.off, max)
           text     == read_text(w, skip(w, validity.off, 4))
<1>1. a \in Nat /\ b \in Nat /\ c \in Nat /\ m \in Nat /\ Len(w) \in Nat
  BY DEF Named, NoNul, Str
<1>2. parse(w, max) = [src_addr |-> src.s, dst_addr |-> dst.s, short_message |-> text]
  BY Zenon DEF parse
<1>15. /\ AtDst(f) = 6 + a /\ AtTime(f) = 10 + a + b /\ AtText(f, t) = 17 + a + b + c
       /\ Total(f, t) = AtText(f, t) + m
  BY Zenon DEF AtDst, AtTime, AtText, Total
<1> HIDE DEF a, b, c, m
<1>3. NoNul(<<>>) /\ Len(<<>>) = 0 /\ \A o : Begins(w, o, <<>>)
  BY DEF NoNul, Str, Begins
<1>4. CstrRead(w, 3, max, f.src_addr, src) /\ src.off \in 0 .. Len(w)
  <2>1. Clamp(w, 0) = 0 /\ 0 \in Nat /\ 0 \in 0 .. Len(w)
    BY <1>1 DEF Clamp
  <2>2. CstrRead(w, 0, max, <<>>, service)
    <3>1. Begins(w, 0, <<>>) /\ Begins(w, 0 + Len(<<>>), <<0>>)
      BY <1>3 DEF Laid
    <3> QED BY Zenon, <1>3, <2>1, <3>1, ReadCstr
  <2>3. service.off = Clamp(w, 0 + 0 + 1)
    BY Zenon, <1>3, <2>2 DEF CstrRead
  <2> HIDE DEF service
  <2>4. skip(w, service.off, 2) = Clamp(w, 3) /\ Clamp(w, 3) \in 0 .. Len(w)
    <3>1. service.off = Clamp(w, 1) /\ 1 + 2 = 3 /\ 1 \in Nat /\ 2 \in Nat
      BY <2>3
    <3>2. Clamp(w, 3) \in 0 .. Len(w)
      BY <1>1 DEF Clamp
    <3> QED BY Zenon, <3>1, <3>2, Skip
  <2>5. Begins(w, 3, f.src_addr) /\ Begins(w, 3 + Len(f.src_addr), <<0>>) /\ 3 \in Nat
    BY DEF Laid
  <2>6. CstrRead(w, 3, max, f.src_addr, src)
    BY Zenon, <2>4, <2>5, ReadCstr
  <2> QED BY Zenon, <2>4, <2>6, ReadAny
<1> HIDE DEF src, service
<1>5. skip(w, src.off, 2) \in 0 .. Len(w) /\ (a < max => skip(w, src.off, 2) = Clamp(w, AtDst(f)))
  <2>1. a < max => src.off = Clamp(w, 3 + a + 1)
    BY Zenon, <1>4 DEF CstrRead, a
  <2>2. 3 + a + 1 \in Nat /\ 2 \in Nat /\ (3 + a + 1) + 2 = AtDst(f)
    BY <1>1, <1>15
  <2>3. skip(w, Clamp(w, 3 + a + 1), 2) = Clamp(w, (3 + a + 1) + 2)
    BY Zenon, <2>2, Skip
  <2>4. skip(w, src.off, 2) \in 0 .. Len(w)
    BY Zenon, <1>4, <2>2, SkipAny
  <2> QED BY Zenon, <2>1, <2>2, <2>3, <2>4
<1>6. dst.s \in Str /\ dst.off \in 0 .. Len(w) /\ (a < max => CstrRead(w, AtDst(f), max, f.dst_addr, dst))
  <2>1. Begins(w, AtDst(f), f.dst_addr) /\ Begins(w, AtDst(f) + Len(f.dst_addr), <<0>>)
    BY Zenon DEF Laid
  <2>2. AtDst(f) \in Nat
    BY <1>1, <1>15
  <2> QED BY Zenon, <1>5, <2>1, <2>2, ReadCstr, ReadAny
<1> HIDE DEF dst
<1>7. /\ skip(w, dst.off, 3) \in 0 .. Len(w)
      /\ a < max /\ b < max => skip(w, dst.off, 3) = Clamp(w, AtTime(f))
  <2>1. a < max /\ b < max => dst.off = Clamp(w, AtDst(f) + b + 1)
    BY Zenon, <1>6 DEF CstrRead, b
  <2>2. AtDst(f) + b + 1 \in Nat /\ 3 \in Nat /\ (AtDst(f) + b + 1) + 3 = AtTime(f)
    BY <1>1, <1>15
  <2>3. skip(w, Clamp(w, AtDst(f) + b + 1), 3) = Clamp(w, (AtDst(f) + b + 1) + 3)
    BY Zenon, <2>2, Skip
  <2>4. skip(w, dst.off, 3) \in 0 .. Len(w)
    BY Zenon, <1>6, <2>2, SkipAny
  <2> QED BY Zenon, <2>1, <2>2, <2>3, <2>4
<1>8. /\ schedule.off \in 0 .. Len(w)
      /\ a < max /\ b < max => schedule.off = Clamp(w, AtTime(f) + c + 1)
  <2>1. Begins(w, AtTime(f), t) /\ Begins(w, AtTime(f) + Len(t), <<0>>)
    BY Zenon DEF Laid
  <2>2. AtTime(f) \in Nat
    BY <1>1, <1>15
  <2>3. a < max /\ b < max => CstrRead(w, AtTime(f), max, t, schedule)
    BY Zenon, <1>7, <2>1, <2>2, ReadCstr
  <2>4. schedule.off \in 0 .. Len(w)
    BY Zenon, <1>7, ReadAny
  <2> QED BY Zenon, <2>3, <2>4 DEF CstrRead, c
<1> HIDE DEF schedule
<1>9. /\ validity.off \in 0 .. Len(w)
      /\ a < max /\ b < max => validity.off = Clamp(w, AtTime(f) + c + 2)
  <2> DEFINE o == AtTime(f) + c + 1
  <2>1. o \in Nat /\ o + 0 = o /\ o + 0 + 1 = AtTime(f) + c + 2
    BY <1>1, <1>15
  <2>2. Begins(w, o, <<0>>)
    BY Zenon DEF Laid, c
  <2> HIDE DEF o
  <2>3. ASSUME a < max, b < max PROVE CstrRead(w, o, max, <<>>, validity)
    <3>1. schedule.off = Clamp(w, o)
      BY Zenon, <1>8, <2>3 DEF o
    <3> QED BY Zenon, <1>3, <2>1, <2>2, <3>1, ReadCstr
  <2>4. validity.off \in 0 .. Len(w)
    BY Zenon, <1>8, ReadAny
  <2> QED BY Zenon, <1>3, <2>1, <2>3, <2>4 DEF CstrRead
<1> HIDE DEF validity
<1>10. /\ skip(w, validity.off, 4) \in 0 .. Len(w)
       /\ a < max /\ b < max => skip(w, validity.off, 4) = Clamp(w, AtText(f, t) - 1)
  <2>1. AtTime(f) + c + 2 \in Nat /\ 4 \in Nat /\ (AtTime(f) + c + 2) + 4 = AtText(f, t) - 1
    BY <1>1, <1>15
  <2>2. skip(w, Clamp(w, AtTime(f) + c + 2), 4) = Clamp(w, (AtTime(f) + c + 2) + 4)
    BY Zenon, <2>1, Skip
  <2>3. skip(w, validity.off, 4) \in 0 .. Len(w)
    BY Zenon, <1>9, <2>1, SkipAny
  <2> QED BY Zenon, <1>9, <2>1, <2>2, <2>3
<1>11. /\ text \in Str
       /\ a < max /\ b < max =>
            text \in Prefixes(f.short_message) /\ (Total(f, t) <= Len(w) => text = f.short_message)
  <2> DEFINE o == AtText(f, t) - 1
  <2>1. o \in Nat /\ o + 1 = AtText(f, t) /\ o + 1 + m = Total(f, t)
    BY <1>1, <1>15
  <2>2. Begins(w, o, <<Len(f.short_message)>>) /\ Begins(w, o + 1, f.short_message)
    BY Zenon, <2>1 DEF Laid
  <2>3. f.short_message \in Str
    BY DEF Named
  <2>4. text \in Str
    BY Zenon, <1>10, TextAny
  <2> HIDE DEF o
  <2>5. ASSUME a < max, b < max PROVE text = read_text(w, Clamp(w, o))
    BY Zenon, <1>10, <2>5 DEF o
  <2>6. /\ read_text(w, Clamp(w, o)) \in Prefixes(f.short_message)
        /\ o + 1 + m <= Len(w) => read_text(w, Clamp(w, o)) = f.short_message
    BY Zenon, <2>1, <2>2, <2>3, ReadText DEF m
  <2> QED BY Zenon, <2>1, <2>4, <2>5, <2>6
<1> HIDE DEF text
<1>12. parse(w, max) \in Named
  <2>1. src.s \in Str
    BY Zenon, <1>4 DEF CstrRead
  <2> QED BY <1>2, <1>6, <1>11, <2>1 DEF Named
<1>13. ASSUME a < max, b < max, Total(f, t) <= Len(w) PROVE parse(w, max) = f
  <2>1. 3 + a <= Len(w) /\ AtDst(f) + b <= Len(w)
    <3>1. (17 + a + b + c) + m <= Len(w)
      BY Zenon, <1>13, <1>15
    <3>2. 3 + a <= Len(w) /\ (6 + a) + b <= Len(w)
      BY ONLY <1>1, <3>1, SMT
    <3> QED BY Zenon, <1>15, <3>2
  <2>2. src.s = f.src_addr /\ dst.s = f.dst_addr /\ text = f.short_message
    BY Zenon, <1>4, <1>6, <1>11, <1>13, <2>1 DEF CstrRead, a, b
  <2>3. f = [src_addr |-> f.src_addr, dst_addr |-> f.dst_addr, short_message |-> f.short_message]
    BY DEF Named
  <2> QED BY Zenon, <1>2, <2>2, <2>3
<1>14. /\ parse(w, max).src_addr = src.s /\ parse(w, max).dst_addr = dst.s
       /\ parse(w, max).short_message = text
  BY <1>2
<1> QED BY Zenon, <1>4, <1>6, <1>11, <1>12, <1>13, <1>14 DEF ParsedAs, CstrRead, a, b
-----------------------------------------------------------------------------
(* The bodies that are built.                                               *)

\* w has the pieces of a body, each in its place.
Built(w, f, t, len) ==
  /\ w \in Str /\ Len(w) = Total(f, t)
  /\ Has(w, 0, <<0>>)
  /\ Has(w, 3, f.src_addr) /\ Has(w, 3 + Len(f.src_addr), <<0>>)
  /\ Has(w, AtDst(f), f.dst_addr) /\ Has(w, AtDst(f) + Len(f.dst_addr), <<0>>)
  /\ Has(w, AtTime(f), t) /\ Has(w, AtTime(f) + Len(t), <<0>>)
  /\ Has(w, AtTime(f) + Len(t) + 1, <<0>>)
  /\ Has(w, AtText(f, t) - 1, <<len>>)
  /\ Has(w, AtText(f, t), f.short_message)

\* A piece is in all that is built on it.
LEMMA Piece ==
  ASSUME NEW u \in Str, NEW v \in Str, NEW x, NEW w \in Str, Joined(u, v, x), Extends(x, w)
  PROVE  Has(w, Len(u), v) /\ Extends(u, w)
<1>1. x \in Str /\ Extends(u, x) /\ Has(x, Len(u), v) /\ Len(u) \in Nat
  BY DEF Joined, Str
<1> QED BY Zenon, <1>1, HasOn, ExtendsTwice

LEMMA BuiltSubmit ==
  ASSUME NEW f \in Named, NEW t \in Str
  PROVE  Built(submit_sm(f, t), f, t, Len(f.short_message))
<1> DEFINE a == Len(f.src_addr)
           b == Len(f.dst_addr)
           c == Len(t)
           m == Len(f.short_message)
           p1 == <<0, 1, 1>>
           p2 == <<0, 1, 1, 1>>
           p3 == <<0, 0, 1, 1, 1, 1>>
           w1 == p1 \o f.src_addr
           w2 == w1 \o p1
           w3 == w2 \o f.dst_addr
           w4 == w3 \o p2
           w5 == w4 \o t
           w6 == w5 \o p3
           w7 == w6 \o <<m>>
           w  == w7 \o f.short_message
<1>1. f.src_addr \in Str /\ f.dst_addr \in Str /\ f.short_message \in Str
  BY DEF Named
<1>2. a \in Nat /\ b \in Nat /\ c \in Nat /\ m \in Nat
  BY <1>1 DEF Str
<1>3. /\ AtDst(f) = 6 + a /\ AtTime(f) = 10 + a + b /\ AtText(f, t) = 17 + a + b + c
      /\ Total(f, t) = AtText(f, t) + m
  BY Zenon DEF AtDst, AtTime, AtText, Total
<1>4. submit_sm(f, t) = w
  BY Zenon DEF submit_sm
<1>5. p1 \in Str /\ p2 \in Str /\ p3 \in Str /\ <<m>> \in Str
  BY <1>2 DEF Str
<1>6. /\ Len(p1) = 3 /\ Len(p2) = 4 /\ Len(p3) = 6 /\ Len(<<m>>) = 1 /\ p1[1] = 0 /\ p2[1] = 0
      /\ p3[1] = 0 /\ p3[2] = 0
  OBVIOUS
<1> HIDE DEF p1, p2, p3, a, b, c, m
<1>7. Joined(p1, f.src_addr, w1)
  BY Zenon, <1>1, <1>5, Join
<1> HIDE DEF w1
<1>8. Joined(w1, p1, w2)
  BY Zenon, <1>5, <1>7, Join DEF Joined
<1> HIDE DEF w2
<1>9. Joined(w2, f.dst_addr, w3)
  BY Zenon, <1>1, <1>8, Join DEF Joined
<1> HIDE DEF w3
<1>10. Joined(w3, p2, w4)
  BY Zenon, <1>5, <1>9, Join DEF Joined
<1> HIDE DEF w4
<1>11. Joined(w4, t, w5)
  BY Zenon, <1>10, Join DEF Joined
<1> HIDE DEF w5
<1>12. Joined(w5, p3, w6)
  BY Zenon, <1>5, <1>11, Join DEF Joined
<1> HIDE DEF w6
<1>13. Joined(w6, <<m>>, w7)
  BY Zenon, <1>5, <1>12, Join DEF Joined
<1> HIDE DEF w7
<1>14. Joined(w7, f.short_message, w)
  BY Zenon, <1>1, <1>13, Join DEF Joined
<1> HIDE DEF w
<1>15. /\ w1 \in Str /\ w2 \in Str /\ w3 \in Str /\ w4 \in Str /\ w5 \in Str /\ w6 \in Str
       /\ w7 \in Str /\ w \in Str
  BY Zenon, <1>7, <1>8, <1>9, <1>10, <1>11, <1>12, <1>13, <1>14 DEF Joined
<1>16. Len(w1) = 3 + a /\ Len(w2) = 6 + a /\ Len(w3) = 6 + a + b
  <2>1. Len(w1) = 3 + a /\ Len(w2) = Len(w1) + 3 /\ Len(w3) = Len(w2) + b
    BY Zenon, <1>6, <1>7, <1>8, <1>9 DEF Joined, a, b
  <2> QED BY <1>2, <2>1
<1>17. Len(w4) = 10 + a + b /\ Len(w5) = 10 + a + b + c /\ Len(w6) = 16 + a + b + c
  <2>1. Len(w4) = Len(w3) + 4 /\ Len(w5) = Len(w4) + c /\ Len(w6) = Len(w5) + 6
    BY Zenon, <1>6, <1>10, <1>11, <1>12 DEF Joined, c
  <2> QED BY <1>2, <1>16, <2>1
<1>18. Len(w7) = 17 + a + b + c /\ Len(w) = Total(f, t)
  <2>1. Len(w7) = Len(w6) + 1 /\ Len(w) = Len(w7) + m
    BY Zenon, <1>6, <1>13, <1>14 DEF Joined, m
  <2> QED BY <1>2, <1>3, <1>17, <2>1
<1>19. Has(w, Len(w7), f.short_message) /\ Extends(w7, w)
  BY Zenon, <1>14 DEF Joined
<1>20. Has(w, Len(w6), <<m>>) /\ Extends(w6, w)
  BY Zenon, <1>5, <1>13, <1>15, <1>19, Piece
<1>21. Has(w, Len(w5), p3) /\ Extends(w5, w)
  BY Zenon, <1>5, <1>12, <1>15, <1>20, Piece
<1>22. Has(w, Len(w4), t) /\ Extends(w4, w)
  BY Zenon, <1>11, <1>15, <1>21, Piece
<1>23. Has(w, Len(w3), p2) /\ Extends(w3, w)
  BY Zenon, <1>5, <1>10, <1>15, <1>22, Piece
<1>24. Has(w, Len(w2), f.dst_addr) /\ Extends(w2, w)
  BY Zenon, <1>1, <1>9, <1>15, <1>23, Piece
<1>25. Has(w, Len(w1), p1) /\ Extends(w1, w)
  BY Zenon, <1>5, <1>8, <1>15, <1>24, Piece
<1>26. Has(w, Len(p1), f.src_addr) /\ Extends(p1, w)
  BY Zenon, <1>1, <1>5, <1>7, <1>15, <1>25, Piece
<1>27. Has(w, 0, <<0>>)
  BY <1>6, <1>26 DEF Has, Extends
<1>28. /\ Has(w, Len(w1), <<0>>) /\ Has(w, Len(w3), <<0>>) /\ Has(w, Len(w5), <<0>>)
       /\ Has(w, Len(w5) + 1, <<0>>)
  <2>1. /\ 1 \in 1 .. Len(p1) /\ 1 \in 1 .. Len(p2) /\ 1 \in 1 .. Len(p3) /\ 2 \in 1 .. Len(p3)
        /\ \A i \in Nat : i + 1 - 1 = i /\ i + 2 - 1 = i + 1
        /\ Len(w1) \in Nat /\ Len(w3) \in Nat /\ Len(w5) \in Nat
    BY <1>2, <1>6, <1>16, <1>17
  <2>2. Has(w, Len(w1) + 1 - 1, <<p1[1]>>) /\ Has(w, Len(w3) + 1 - 1, <<p2[1]>>)
    BY Zenon, <1>5, <1>15, <1>23, <1>25, <2>1, HasPart
  <2>3. Has(w, Len(w5) + 1 - 1, <<p3[1]>>) /\ Has(w, Len(w5) + 2 - 1, <<p3[2]>>)
    BY Zenon, <1>5, <1>15, <1>21, <2>1, HasPart
  <2> QED BY Zenon, <1>6, <2>1, <2>2, <2>3
<1>29. /\ Len(p1) = 3 /\ Len(w1) = 3 + a /\ Len(w2) = AtDst(f) /\ Len(w3) = AtDst(f) + b
       /\ Len(w4) = AtTime(f) /\ Len(w5) = AtTime(f) + c /\ Len(w6) = AtText(f, t) - 1
       /\ Len(w7) = AtText(f, t)
  BY <1>2, <1>3, <1>6, <1>16, <1>17, <1>18
<1>30. Built(w, f, t, m)
  BY Zenon, <1>15, <1>18, <1>19, <1>20, <1>22, <1>24, <1>26, <1>27, <1>28, <1>29
     DEF Built, a, b, c
<1> QED BY Zenon, <1>4, <1>30 DEF m
LEMMA BuiltDeliver ==
  ASSUME NEW f \in Named
  PROVE  Built(make_deliver_sm(f), f, <<>>, Len(f.short_message) % ByteMod)
<1> DEFINE a == Len(f.src_addr)
           b == Len(f.dst_addr)
           m == Len(f.short_message)
           n == m % ByteMod
           p1 == Zeros(3)
           p2 == Zeros(10)
           w1 == p1 \o f.src_addr
           w2 == w1 \o p1
           w3 == w2 \o f.dst_addr
           w4 == w3 \o p2
           w5 == w4 \o <<n>>
           w  == w5 \o f.short_message
<1>1. f.src_addr \in Str /\ f.dst_addr \in Str /\ f.short_message \in Str
  BY DEF Named
<1>2. a \in Nat /\ b \in Nat /\ m \in Nat /\ Len(<<>>) = 0
  BY <1>1 DEF Str
<1>3. /\ AtDst(f) = 6 + a /\ AtTime(f) = 10 + a + b /\ AtText(f, <<>>) = 17 + a + b + Len(<<>>)
      /\ Total(f, <<>>) = AtText(f, <<>>) + m
  BY Zenon DEF AtDst, AtTime, AtText, Total
<1>4. make_deliver_sm(f) = w
  BY Zenon DEF make_deliver_sm
<1> HIDE DEF a, b, m
<1>5. p1 \in Str /\ p2 \in Str /\ <<n>> \in Str
  <2>1. n \in Nat
    BY <1>2, PduAssumption
  <2> HIDE DEF n
  <2> QED BY <2>1 DEF Str, Zeros
<1>6. /\ Len(p1) = 3 /\ Len(p2) = 10 /\ Len(<<n>>) = 1
      /\ p1[1] = 0 /\ p2[1] = 0 /\ p2[5] = 0 /\ p2[6] = 0
  <2> HIDE DEF n
  <2> QED BY DEF Zeros
<1> HIDE DEF p1, p2, n
<1>7. Joined(p1, f.src_addr, w1)
  BY Zenon, <1>1, <1>5, Join
<1> HIDE DEF w1
<1>8. Joined(w1, p1, w2)
  BY Zenon, <1>5, <1>7, Join DEF Joined
<1> HIDE DEF w2
<1>9. Joined(w2, f.dst_addr, w3)
  BY Zenon, <1>1, <1>8, Join DEF Joined
<1> HIDE DEF w3
<1>10. Joined(w3, p2, w4)
  BY Zenon, <1>5, <1>9, Join DEF Joined
<1> HIDE DEF w4
<1>11. Joined(w4, <<n>>, w5)
  BY Zenon, <1>5, <1>10, Join DEF Joined
<1> HIDE DEF w5
<1>12. Joined(w5, f.short_message, w)
  BY Zenon, <1>1, <1>11, Join DEF Joined
<1> HIDE DEF w
<1>13. w1 \in Str /\ w2 \in Str /\ w3 \in Str /\ w4 \in Str /\ w5 \in Str /\ w \in Str
  BY Zenon, <1>7, <1>8, <1>9, <1>10, <1>11, <1>12 DEF Joined
<1>14. Len(w1) = 3 + a /\ Len(w2) = 6 + a /\ Len(w3) = 6 + a + b
  <2>1. Len(w1) = 3 + a /\ Len(w2) = Len(w1) + 3 /\ Len(w3) = Len(w2) + b
    BY Zenon, <1>6, <1>7, <1>8, <1>9 DEF Joined, a, b
  <2> QED BY <1>2, <2>1
<1>15. Len(w4) = 16 + a + b /\ Len(w5) = 17 + a + b /\ Len(w) = Total(f, <<>>)
  <2>1. Len(w4) = Len(w3) + 10 /\ Len(w5) = Len(w4) + 1 /\ Len(w) = Len(w5) + m
    BY Zenon, <1>6, <1>10, <1>11, <1>12 DEF Joined, m
  <2> QED BY <1>2, <1>3, <1>14, <2>1
<1>16. Has(w, Len(w5), f.short_message) /\ Extends(w5, w)
  BY Zenon, <1>12 DEF Joined
<1>17. Has(w, Len(w4), <<n>>) /\ Extends(w4, w)
  BY Zenon, <1>5, <1>11, <1>13, <1>16, Piece
<1>18. Has(w, Len(w3), p2) /\ Extends(w3, w)
  BY Zenon, <1>5, <1>10, <1>13, <1>17, Piece
<1>19. Has(w, Len(w2), f.dst_addr) /\ Extends(w2, w)
  BY Zenon, <1>1, <1>9, <1>13, <1>18, Piece
<1>20. Has(w, Len(w1), p1) /\ Extends(w1, w)
  BY Zenon, <1>5, <1>8, <1>13, <1>19, Piece
<1>21. Has(w, Len(p1), f.src_addr) /\ Extends(p1, w)
  BY Zenon, <1>1, <1>5, <1>7, <1>13, <1>20, Piece
<1>22. Has(w, 0, <<0>>) /\ Has(w, AtTime(f), <<>>)
  BY <1>6, <1>21 DEF Has, Extends
<1>23. /\ Has(w, Len(w1), <<0>>) /\ Has(w, Len(w3), <<0>>)
       /\ Has(w, Len(w3) + 4, <<0>>) /\ Has(w, Len(w3) + 5, <<0>>)
  <2>1. /\ 1 \in 1 .. Len(p1) /\ 1 \in 1 .. Len(p2) /\ 5 \in 1 .. Len(p2) /\ 6 \in 1 .. Len(p2)
        /\ \A i \in Nat : i + 1 - 1 = i /\ i + 5 - 1 = i + 4 /\ i + 6 - 1 = i + 5
        /\ Len(w1) \in Nat /\ Len(w3) \in Nat
    BY <1>2, <1>6, <1>14
  <2>2. Has(w, Len(w1) + 1 - 1, <<p1[1]>>) /\ Has(w, Len(w3) + 1 - 1, <<p2[1]>>)
    BY Zenon, <1>5, <1>13, <1>18, <1>20, <2>1, HasPart
  <2>3. Has(w, Len(w3) + 5 - 1, <<p2[5]>>) /\ Has(w, Len(w3) + 6 - 1, <<p2[6]>>)
    BY Zenon, <1>5, <1>13, <1>18, <2>1, HasPart
  <2> QED BY Zenon, <1>6, <2>1, <2>2, <2>3
<1>24. /\ Len(p1) = 3 /\ Len(w1) = 3 + a /\ Len(w2) = AtDst(f) /\ Len(w3) = AtDst(f) + b
       /\ Len(w3) + 4 = AtTime(f) + Len(<<>>) /\ Len(w3) + 5 = AtTime(f) + Len(<<>>) + 1
       /\ Len(w4) = AtText(f, <<>>) - 1 /\ Len(w5) = AtText(f, <<>>)
  BY <1>2, <1>3, <1>6, <1>14, <1>15
<1>25. Built(w, f, <<>>, n)
  BY Zenon, <1>13, <1>15, <1>16, <1>17, <1>19, <1>21, <1>22, <1>23, <1>24 DEF Built, a, b
<1> QED BY Zenon, <1>4, <1>25 DEF m, n

\* A body that was built, however much is left of it, is laid out as it should be.
LEMMA BuiltLaid ==
  ASSUME NEW f \in Named, NEW t \in Str, NEW w, Built(w, f, t, Len(f.short_message)),
         NEW n \in 0 .. Len(w)
  PROVE  Laid(SubSeq(w, 1, n), f, t)
<1> DEFINE r == SubSeq(w, 1, n)
<1>1. /\ f.src_addr \in Str /\ f.dst_addr \in Str /\ f.short_message \in Str
      /\ <<0>> \in Str /\ w \in Str
  BY DEF Named, Str, Built
<1>2. Len(f.src_addr) \in Nat /\ Len(f.dst_addr) \in Nat /\ Len(t) \in Nat /\ Len(f.short_message) \in Nat
  BY <1>1 DEF Str
<1>3. <<Len(f.short_message)>> \in Str
  BY <1>2 DEF Str
<1>4. /\ 0 \in Nat /\ 3 \in Nat /\ 3 + Len(f.src_addr) \in Nat
      /\ AtDst(f) \in Nat /\ AtDst(f) + Len(f.dst_addr) \in Nat
      /\ AtTime(f) \in Nat /\ AtTime(f) + Len(t) \in Nat /\ AtTime(f) + Len(t) + 1 \in Nat
      /\ AtText(f, t) - 1 \in Nat /\ AtText(f, t) \in Nat
  <2> DEFINE a == Len(f.src_addr)
             b == Len(f.dst_addr)
             c == Len(t)
  <2>1. AtDst(f) = 6 + a /\ AtTime(f) = 10 + a + b /\ AtText(f, t) = 17 + a + b + c
    BY Zenon DEF AtDst, AtTime, AtText
  <2> HIDE DEF a, b, c
  <2>2. a \in Nat /\ b \in Nat /\ c \in Nat
    BY Zenon, <1>2 DEF a, b, c
  <2>3. /\ 3 + a \in Nat /\ AtDst(f) \in Nat /\ AtDst(f) + b \in Nat /\ AtTime(f) \in Nat
        /\ AtTime(f) + c \in Nat /\ AtTime(f) + c + 1 \in Nat
        /\ AtText(f, t) - 1 \in Nat /\ AtText(f, t) \in Nat
    BY <2>1, <2>2
  <2>4. 0 \in Nat /\ 3 \in Nat
    OBVIOUS
  <2> QED BY Zenon, <2>3, <2>4 DEF a, b, c
<1>6. \A o \in Nat : \A s \in Str : Has(w, o, s) => Begins(r, o, s)
  BY Zenon, <1>1, CutBegins
<1> HIDE DEF r
<1>7. Laid(r, f, t)
  BY Zenon, <1>1, <1>3, <1>4, <1>6 DEF Built, Laid
<1> QED BY Zenon, <1>7 DEF r

\* A string argument has no NUL after c_str(), and is not longer than before.
LEMMA AppendString ==
  ASSUME NEW s \in Str
  PROVE  NoNul(append_string(s)) /\ Len(append_string(s)) <= Len(s)
<1> DEFINE N == {i \in 1 .. Len(s) : s[i] = 0}
           nul == Min(N)
           r == append_string(s)
<1>1. Len(s) \in Nat
  BY DEF Str
<1>2. r = IF N = {} THEN s ELSE SubSeq(s, 1, nul - 1)
  BY Zenon DEF append_string
<1> HIDE DEF r
<1>3. CASE N = {}
  <2>1. r = s /\ \A i \in 1 .. Len(s) : s[i] # 0
    BY Zenon, <1>2, <1>3
  <2> QED BY <1>1, <2>1 DEF NoNul, r
<1>4. CASE N # {}
  <2>1. N \in SUBSET Nat /\ \A i \in N : i \in 1 .. Len(s)
    OBVIOUS
  <2>2. nul \in N /\ \A j \in N : nul <= j
    BY Zenon, <1>4, <2>1, Least
  <2>3. \A i \in 1 .. Len(s) : s[i] = 0 => i \in N
    BY Zenon
  <2> HIDE DEF nul
  <2>4. nul \in 1 .. Len(s)
    BY Zenon, <2>1, <2>2
  <2>5. nul # 0 /\ nul - 1 \in Nat /\ nul - 1 <= Len(s) /\ 0 + 1 = 1 /\ 0 + (nul - 1) = nul - 1
        /\ 0 + (nul - 1) <= Len(s) /\ 0 \in Nat
    BY <1>1, <2>4
  <2>6. r = SubSeq(s, 1, nul - 1)
    BY Zenon, <1>2, <1>4
  <2>7. Taken(s, 0, nul - 1, SubSeq(s, 0 + 1, 0 + (nul - 1)))
    BY Zenon, <2>5, Take
  <2>8. r \in Str /\ Len(r) = nul - 1 /\ \A i \in 1 .. nul - 1 : r[i] = s[0 + i]
    BY Zenon, <2>5, <2>6, <2>7 DEF Taken
  <2>9. ASSUME NEW i \in 1 .. nul - 1 PROVE r[i] # 0
    <3>1. i \in 1 .. Len(s) /\ ~(nul <= i) /\ 0 + i = i
      BY <1>1, <2>4
    <3> QED BY Zenon, <2>2, <2>3, <2>8, <3>1
  <2> QED BY Zenon, <2>5, <2>8, <2>9 DEF NoNul, r
<1> QED BY <1>3, <1>4

-----------------------------------------------------------------------------
(* The way of a message.                                                    *)

Clean(f) == f \in Named /\ NoNul(f.src_addr) /\ NoNul(f.dst_addr)

\* The body is what is left of a submit_sm, all of it if it was not cut.
Submitted ==
  \E time \in Times : \E n \in 0 .. Len(submit_sm(sent, time)) :
    /\ body = SubSeq(submit_sm(sent, time), 1, n)
    /\ ~cut => n = Len(submit_sm(sent, time))

Whole == ~cut /\ Short(sent)

\* What the fields are at every stage: D-Bus only takes strings that end at their NUL,
\* which is what lets them be read back.
PduInv ==
  /\ Clean(sent)
  /\ stage = "submit" => Submitted
  /\ stage = "parsed" => fields \in Named /\ (Whole => fields = sent)
  /\ TruncationIsPrefix
  /\ stage \in {"deliver", "wire", "received"} =>
       Clean(fields) /\ (Whole => fields = Marshalled(sent))
  /\ stage = "wire" => body = make_deliver_sm(fields)
  /\ stage = "lost" => ~(Whole /\ IsUtf8(sent))
  /\ DeliversWhatItWasGiven

LEMMA AllOf ==
  ASSUME NEW w \in Str
  PROVE  SubSeq(w, 1, Len(w)) = w
<1>1. Len(w) \in Nat /\ 0 + 1 = 1 /\ 0 + Len(w) = Len(w) /\ \A i \in 1 .. Len(w) : 0 + i = i
  BY DEF Str
<1>2. Taken(w, 0, Len(w), SubSeq(w, 0 + 1, 0 + Len(w)))
  BY <1>1, Take
<1>3. Taken(w, 0, Len(w), SubSeq(w, 1, Len(w)))
  BY Zenon, <1>1, <1>2
<1> QED BY Zenon, <1>1, <1>3, SameSeq DEF Taken

LEMMA TimesStr ==
  ASSUME NEW t \in Times
  PROVE  NoNul(t) /\ t \in Str /\ MaxCstr \in Nat /\ 0 < MaxCstr /\ Len(t) < MaxCstr
<1>1. t \in Seq(Bytes \ {0}) /\ Len(t) < MaxCstr /\ MaxCstr \in Nat \ {0} /\ ByteMod \in Nat
  BY PduAssumption
<1>2. \A x \in Bytes \ {0} : x \in Nat /\ x # 0
  BY <1>1 DEF Bytes
<1>3. t \in Seq(Nat) /\ \A k \in 1 .. Len(t) : t[k] # 0
  BY <1>1, <1>2
<1> QED BY <1>1, <1>3 DEF NoNul, Str

\* What parse_submit_sm makes of a submit_sm.
LEMMA ParseSubmit ==
  ASSUME Clean(sent), Submitted
  PROVE  \E t : /\ ParsedAs(parse_submit_sm(body), body, sent, t, MaxCstr)
                /\ ~cut => Total(sent, t) <= Len(body)
<1>1. PICK t \in Times : \E n \in 0 .. Len(submit_sm(sent, t)) :
        /\ body = SubSeq(submit_sm(sent, t), 1, n)
        /\ ~cut => n = Len(submit_sm(sent, t))
  BY Zenon DEF Submitted
<1> DEFINE w == submit_sm(sent, t)
<1>2. PICK n \in 0 .. Len(w) : body = SubSeq(w, 1, n) /\ (~cut => n = Len(w))
  BY Zenon, <1>1
<1>3. NoNul(t) /\ t \in Str /\ MaxCstr \in Nat /\ 0 < MaxCstr /\ Len(t) < MaxCstr
  BY Zenon, TimesStr
<1>4. Built(w, sent, t, Len(sent.short_message))
  BY Zenon, <1>3, BuiltSubmit DEF Clean
<1>5. w \in Str /\ Len(w) = Total(sent, t)
  BY Zenon, <1>4 DEF Built
<1> HIDE DEF w
<1>6. Laid(body, sent, t)
  BY Zenon, <1>2, <1>3, <1>4, BuiltLaid DEF Clean
<1>7. body \in Str /\ Len(body) = n
  <2>1. Len(w) \in Nat /\ n \in Nat /\ 0 + n <= Len(w) /\ 0 + 1 = 1 /\ 0 + n = n /\ 0 \in Nat
    BY <1>5 DEF Str
  <2>2. Taken(w, 0, n, SubSeq(w, 0 + 1, 0 + n))
    BY Zenon, <1>5, <2>1, Take
  <2> QED BY Zenon, <1>2, <2>1, <2>2 DEF Taken
<1>8. ParsedAs(parse(body, MaxCstr), body, sent, t, MaxCstr)
  BY Zenon, <1>3, <1>6, <1>7, ParseLaid DEF Clean
<1>9. n <= n
  OBVIOUS
<1> QED BY Zenon, <1>2, <1>5, <1>7, <1>8, <1>9 DEF parse_submit_sm

\* What the receiving ESME makes of a deliver_sm.
LEMMA ParseDeliver ==
  ASSUME NEW f, Clean(f), Len(f.short_message) < ByteMod
  PROVE  parse(make_deliver_sm(f), Len(make_deliver_sm(f))) = f
<1> DEFINE w == make_deliver_sm(f)
           a == Len(f.src_addr)
           b == Len(f.dst_addr)
           m == Len(f.short_message)
<1>1. a \in Nat /\ b \in Nat /\ m \in Nat /\ f \in Named
  BY DEF Clean, Named, NoNul, Str
<1>2. m % ByteMod = m
  <2> HIDE DEF m
  <2>1. m < ByteMod
    BY DEF m
  <2> QED BY <1>1, <2>1, PduAssumption
<1>3. NoNul(<<>>) /\ <<>> \in Str /\ Len(<<>>) = 0
  BY DEF NoNul, Str
<1>4. Built(w, f, <<>>, m)
  BY Zenon, <1>1, <1>2, BuiltDeliver
<1>5. w \in Str /\ Len(w) = Total(f, <<>>)
  BY Zenon, <1>4 DEF Built
<1>6. Total(f, <<>>) = 17 + a + b + 0 + m
  BY Zenon, <1>3 DEF Total, AtText
<1> HIDE DEF w, a, b, m
<1>7. Len(w) \in 0 .. Len(w) /\ Len(w) \in Nat /\ 0 < Len(w) /\ a < Len(w) /\ b < Len(w)
      /\ Total(f, <<>>) <= Len(w)
  BY <1>1, <1>5, <1>6
<1>8. Laid(SubSeq(w, 1, Len(w)), f, <<>>) /\ SubSeq(w, 1, Len(w)) = w
  BY Zenon, <1>1, <1>3, <1>4, <1>5, <1>7, BuiltLaid, AllOf DEF m
<1>9. ParsedAs(parse(w, Len(w)), w, f, <<>>, Len(w))
  BY Zenon, <1>1, <1>3, <1>5, <1>7, <1>8, ParseLaid DEF Clean
<1> QED BY Zenon, <1>7, <1>9 DEF ParsedAs, a, b, w
LEMMA MarshalledClean ==
  ASSUME NEW f \in Named
  PROVE  Clean(Marshalled(f))
<1>1. f.src_addr \in Str /\ f.dst_addr \in Str /\ f.short_message \in Str
  BY DEF Named
<1>2. /\ NoNul(append_string(f.src_addr)) /\ NoNul(append_string(f.dst_addr))
      /\ NoNul(append_string(f.short_message))
  BY Zenon, <1>1, AppendString
<1>3. /\ append_string(f.src_addr) \in Str /\ append_string(f.dst_addr) \in Str
      /\ append_string(f.short_message) \in Str
  BY Zenon, <1>2 DEF NoNul
<1> QED BY <1>2, <1>3 DEF Clean, Named, Marshalled

LEMMA StepPdu == PduInv /\ [Next]_vars => PduInv'
<1> SUFFICES ASSUME PduInv, [Next]_vars PROVE PduInv'
  OBVIOUS
<1>1. CASE handle_submit_sm
  <2>1. /\ stage' = "parsed" /\ fields' = parse_submit_sm(body) /\ sent' = sent /\ cut' = cut
        /\ Submitted /\ Clean(sent)
    BY <1>1 DEF handle_submit_sm, PduInv
  <2>2. PICK t : /\ ParsedAs(parse_submit_sm(body), body, sent, t, MaxCstr)
                 /\ ~cut => Total(sent, t) <= Len(body)
    BY Zenon, <2>1, ParseSubmit
  <2>3. /\ fields' \in Named
        /\ fields'.src_addr \in Prefixes(sent.src_addr)
        /\ Len(sent.src_addr) < MaxCstr => fields'.dst_addr \in Prefixes(sent.dst_addr)
        /\ Short(sent) => fields'.short_message \in Prefixes(sent.short_message)
    BY Zenon, <2>1, <2>2 DEF ParsedAs, Short
  <2>4. ASSUME ~cut, Short(sent) PROVE fields' = sent
    BY Zenon, <2>1, <2>2, <2>4 DEF ParsedAs, Short
  <2>5. Clean(sent') /\ (Whole' => Whole)
    BY Zenon, <2>1 DEF Whole, Short
  <2>6. TruncationIsPrefix' /\ DeliversWhatItWasGiven'
    BY <2>1, <2>3 DEF TruncationIsPrefix, DeliversWhatItWasGiven, Short
  <2> QED BY <2>1, <2>3, <2>4, <2>5, <2>6 DEF PduInv, Whole
\* The fields go over D-Bus: f is what was meant.
<1>2. ASSUME NEW f \in Named, stage' = "deliver", fields' = Marshalled(f), UNCHANGED <<sent, cut>>,
             Whole => f = sent
      PROVE  PduInv'
  <2>1. Clean(fields')
    BY Zenon, <1>2, MarshalledClean
  <2>2. sent' = sent /\ cut' = cut /\ (Whole' <=> Whole)
    BY <1>2 DEF Whole, Short
  <2>3. Whole' => fields' = Marshalled(sent)'
    <3>1. Marshalled(sent)' = Marshalled(sent)
      BY Zenon, <2>2 DEF Marshalled
    <3> QED BY Zenon, <1>2, <2>2, <3>1
  <2>4. TruncationIsPrefix' /\ DeliversWhatItWasGiven' /\ Clean(sent)'
    BY <1>2, <2>2 DEF TruncationIsPrefix, DeliversWhatItWasGiven, PduInv
  <2> QED BY <1>2, <2>1, <2>3, <2>4 DEF PduInv
<1>3. CASE RouteMessage
  BY <1>2, <1>3 DEF RouteMessage, PduInv
<1>4. CASE CallDeliverSm
  BY <1>2, <1>4 DEF CallDeliverSm, PduInv, Clean
<1>5. CASE RouteMessage_failed
  <2>1. /\ stage = "parsed" /\ stage' = "lost" /\ ~IsUtf8(fields)
        /\ sent' = sent /\ cut' = cut /\ fields' = fields
    BY <1>5 DEF RouteMessage_failed
  <2>2. (Whole' <=> Whole) /\ (IsUtf8(sent)' <=> IsUtf8(sent))
    BY Zenon, <2>1 DEF Whole, Short, IsUtf8
  <2>3. ~(Whole /\ IsUtf8(sent))
    BY Zenon, <2>1 DEF PduInv
  <2> QED BY <2>1, <2>2, <2>3 DEF PduInv, TruncationIsPrefix, DeliversWhatItWasGiven
<1>6. CASE DeliverSm
  <2>1. stage = "deliver" /\ stage' = "wire" /\ body' = make_deliver_sm(fields)
        /\ UNCHANGED <<sent, cut, fields>>
    BY <1>6 DEF DeliverSm
  <2>2. sent' = sent /\ cut' = cut /\ fields' = fields
    BY <2>1
  <2>3. body' = make_deliver_sm(fields')
    BY Zenon, <2>1, <2>2
  <2>4. (Whole' => Whole) /\ Marshalled(sent)' = Marshalled(sent)
    BY Zenon, <2>2 DEF Whole, Short, Marshalled
  <2> QED BY <2>1, <2>2, <2>3, <2>4 DEF PduInv, TruncationIsPrefix, DeliversWhatItWasGiven
<1>7. CASE receive
  <2>1. stage = "wire" /\ stage' = "received" /\ got' = parse(body, Len(body))
        /\ UNCHANGED <<sent, cut, fields>>
    BY <1>7 DEF receive
  <2>2. sent' = sent /\ cut' = cut /\ fields' = fields
    BY <2>1
  <2>3. body = make_deliver_sm(fields) /\ Clean(fields)
    BY <2>1 DEF PduInv
  <2>4. DeliversWhatItWasGiven'
    <3>1. Len(fields.short_message) < ByteMod => got' = fields
      BY Zenon, <2>1, <2>3, ParseDeliver
    <3> QED BY Zenon, <2>2, <3>1 DEF DeliversWhatItWasGiven
  <2>5. (Whole' => Whole) /\ Marshalled(sent)' = Marshalled(sent)
    BY Zenon, <2>2 DEF Whole, Short, Marshalled
  <2> QED BY <2>1, <2>2, <2>4, <2>5 DEF PduInv, TruncationIsPrefix
<1>8. CASE UNCHANGED vars
  BY Zenon, <1>8 DEF vars, PduInv, Submitted, Whole, Short, TruncationIsPrefix,
       DeliversWhatItWasGiven, Marshalled, IsUtf8
<1> QED BY Zenon, <1>1, <1>3, <1>4, <1>5, <1>6, <1>7, <1>8 DEF Next

LEMMA AlwaysPdu == Spec => []PduInv
<1>1. Init => PduInv
  <2> SUFFICES ASSUME Init PROVE PduInv
    OBVIOUS
  <2>1. Clean(sent)
    <3>1. /\ sent.src_addr \in Seq(Bytes \ {0}) /\ sent.dst_addr \in Seq(Bytes \ {0})
          /\ sent.short_message \in Seq(Bytes) /\ ByteMod \in Nat
      BY PduAssumption DEF Init
    <3>2. \A x \in Bytes : x \in Nat
      BY <3>1 DEF Bytes
    <3>3. /\ sent.src_addr \in Str /\ sent.dst_addr \in Str /\ sent.short_message \in Str
          /\ \A k \in 1 .. Len(sent.src_addr) : sent.src_addr[k] # 0
          /\ \A k \in 1 .. Len(sent.dst_addr) : sent.dst_addr[k] # 0
      BY <3>1, <3>2 DEF Str
    <3>4. sent \in Named
      BY <3>3 DEF Init, Named
    <3> QED BY <3>3, <3>4 DEF Clean, NoNul
  <2>2. ASSUME stage = "submit" PROVE Submitted
    <3>1. PICK time \in Times : body \in Prefixes(submit_sm(sent, time))
                                /\ cut = (body # submit_sm(sent, time))
      BY <2>2 DEF Init
    <3> DEFINE w == submit_sm(sent, time)
    <3>2. PICK n \in 0 .. Len(w) : body = SubSeq(w, 1, n)
      BY Zenon, <3>1 DEF Prefixes
    <3>3. w \in Str
      <4>1. time \in Str
        BY TimesStr
      <4>2. Built(w, sent, time, Len(sent.short_message))
        BY Zenon, <2>1, <4>1, BuiltSubmit DEF Clean
      <4> QED BY Zenon, <4>2 DEF Built
    <3> HIDE DEF w
    <3>4. ASSUME ~cut PROVE body = SubSeq(w, 1, Len(w)) /\ Len(w) \in 0 .. Len(w)
      <4>1. body = w
        BY Zenon, <3>1, <3>4 DEF w
      <4>2. Len(w) \in Nat
        BY <3>3 DEF Str
      <4>3. Len(w) \in 0 .. Len(w)
        BY <4>2
      <4> QED BY Zenon, <3>3, <4>1, <4>3, AllOf
    <3>5. CASE cut
      BY Zenon, <3>2, <3>5 DEF Submitted, w
    <3>6. CASE ~cut
      BY Zenon, <3>4, <3>6 DEF Submitted, w
    <3> QED BY <3>5, <3>6
  <2>3. stage \in {"submit", "caller"}
    BY DEF Init
  <2> QED BY <2>1, <2>2, <2>3 DEF PduInv, TruncationIsPrefix, DeliversWhatItWasGiven
<1> QED BY <1>1, StepPdu, PTL DEF Spec

\* Every field of a submit_sm that ends too early is a prefix of what was sent, whatever
\* the strings and wherever it ends.
THEOREM TruncationHarmless == Spec => []TruncationIsPrefix
<1>1. PduInv => TruncationIsPrefix
  BY DEF PduInv
<1> QED BY <1>1, AlwaysPdu, PTL

\* What make_deliver_sm builds reads back as the fields it was given.
THEOREM ReadsBack == Spec => []DeliversWhatItWasGiven
<1>1. PduInv => DeliversWhatItWasGiven
  BY DEF PduInv
<1> QED BY <1>1, AlwaysPdu, PTL

\* D-Bus takes strings that are text as they are.
LEMMA TextMarshalled ==
  ASSUME NEW f \in Named, IsText(f)
  PROVE  Marshalled(f) = f /\ IsUtf8(f)
<1>1. ASSUME NEW x \in DOMAIN f
      PROVE  append_string(f[x]) = f[x] /\ Range(append_string(f[x])) \cap NotUtf8 = {}
  <2>1. f[x] \in Str
    BY DEF Named
  <2>2. DOMAIN f[x] = 1 .. Len(f[x])
    BY <2>1 DEF Str
  <2>3. \A i \in 1 .. Len(f[x]) : f[x][i] \in Range(f[x])
    BY Zenon, <2>2 DEF Range
  <2>4. {i \in 1 .. Len(f[x]) : f[x][i] = 0} = {}
    BY Zenon, <2>3 DEF IsText
  <2>5. append_string(f[x]) = f[x]
    BY Zenon, <2>4 DEF append_string
  <2> QED BY Zenon, <2>5 DEF IsText
<1>2. DOMAIN f = {"src_addr", "dst_addr", "short_message"}
  BY DEF Named
<1>3. /\ append_string(f.src_addr) = f.src_addr /\ append_string(f.dst_addr) = f.dst_addr
      /\ append_string(f.short_message) = f.short_message
  BY Zenon, <1>1, <1>2
<1>4. Marshalled(f) = [src_addr |-> f.src_addr, dst_addr |-> f.dst_addr,
                       short_message |-> f.short_message]
  BY Zenon, <1>3 DEF Marshalled
<1>5. f = [src_addr |-> f.src_addr, dst_addr |-> f.dst_addr, short_message |-> f.short_message]
  BY DEF Named
<1> QED BY Zenon, <1>1, <1>4, <1>5 DEF IsUtf8

\* A complete submit_sm with strings that end in time, and are text, arrives as it was
\* sent.
THEOREM WholeArrives == Spec => []TextArrivesAsSent
<1>1. ASSUME PduInv, WellFormed, IsText(sent)
      PROVE  stage # "lost" /\ (stage = "received" => got = sent)
  <2>1. sent \in Named /\ Whole
    BY <1>1 DEF PduInv, Clean, WellFormed, Whole
  <2>2. Marshalled(sent) = sent /\ IsUtf8(sent)
    BY Zenon, <1>1, <2>1, TextMarshalled
  <2>3. stage # "lost"
    BY Zenon, <1>1, <2>1, <2>2 DEF PduInv
  <2>4. ASSUME stage = "received" PROVE got = sent
    <3>1. fields = sent
      BY Zenon, <1>1, <2>1, <2>2, <2>4 DEF PduInv
    <3> QED BY Zenon, <1>1, <2>4, <3>1 DEF PduInv, DeliversWhatItWasGiven, WellFormed
  <2> QED BY Zenon, <2>3, <2>4
<1>2. PduInv => TextArrivesAsSent
  BY Zenon, <1>1 DEF TextArrivesAsSent
<1> QED BY <1>2, AlwaysPdu, PTL
=============================================================================
