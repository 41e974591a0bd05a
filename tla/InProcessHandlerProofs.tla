------------------------ MODULE InProcessHandlerProofs ------------------------
(***************************************************************************)
(* Theorems on the write queue and on the framer of the in-process handler, *)
(* for any PDUs and any number of them, any split of their bytes into reads *)
(* and any interleaving of reads and writes.                                *)
(***************************************************************************)
EXTENDS InProcessHandler, TLAPS

Statuses ==
  {"ESME_ROK", "ESME_RALYBND", "ESME_RINVPASWD", "ESME_RBINDFAIL", "ESME_RINVCMDID"}

AnswerType == [pdu : Nat, status : Statuses]

ByteType == Nat \X Nat

Completion == [h : {"read", "write"}, ec : BOOLEAN, bytes : Seq(ByteType)]

\* What the queue of answers depends on.
TypeInv ==
  /\ stream \in Seq(PduType) /\ inbox \in Seq(ByteType) /\ dispatched \in Seq(Nat)
  /\ ready \in Seq(Completion)

NoWrite(q) == \A i \in DOMAIN q : q[i].h # "write"

OneWrite(q) == \A i, j \in DOMAIN q : q[i].h = "write" /\ q[j].h = "write" => i = j

\* At most one write is outstanding or has its completion in the queue.  The
\* flag is set as long as there is one, and when it is not set nothing waits.
QueueInv ==
  /\ write_queue \in Seq(AnswerType) /\ written \in Seq(AnswerType)
  /\ answers = written \o write_queue
  /\ OneWrite(ready)
  /\ writing => NoWrite(ready)
  /\ writing \/ ~NoWrite(ready) =>
       write_in_progress /\ write_queue # <<>> /\ buffer = Head(write_queue)
  /\ ~write_in_progress => write_queue = <<>>

IInv == TypeInv /\ QueueInv

-----------------------------------------------------------------------------
(* The queue of completions.                                                *)

\* The completion that is run leaves the queue; a read's leaves the writes.
LEMMA TailOfReady ==
  ASSUME NEW q \in Seq(Completion), q # <<>>
  PROVE  /\ Tail(q) \in Seq(Completion) /\ Head(q) \in Completion
         /\ OneWrite(q) => OneWrite(Tail(q))
         /\ NoWrite(q) => NoWrite(Tail(q))
         /\ Head(q).h = "read" /\ NoWrite(Tail(q)) => NoWrite(q)
         /\ Head(q).h = "write" /\ OneWrite(q) => NoWrite(Tail(q)) /\ ~NoWrite(q)
<1>1. /\ Len(q) \in Nat \ {0} /\ DOMAIN q = 1 .. Len(q) /\ Head(q) = q[1]
      /\ Tail(q) \in Seq(Completion) /\ DOMAIN Tail(q) = 1 .. Len(q) - 1
      /\ \A i \in 1 .. Len(q) - 1 : Tail(q)[i] = q[i + 1] /\ i + 1 \in DOMAIN q /\ i + 1 # 1
      /\ \A i \in DOMAIN q : i = 1 \/ (i - 1 \in 1 .. Len(q) - 1 /\ (i - 1) + 1 = i)
      /\ Head(q) \in Completion
  OBVIOUS
<1>2. OneWrite(q) => OneWrite(Tail(q))
  <2> SUFFICES ASSUME OneWrite(q), NEW i \in DOMAIN Tail(q), NEW j \in DOMAIN Tail(q),
                      Tail(q)[i].h = "write", Tail(q)[j].h = "write"
               PROVE  i = j
    BY DEF OneWrite
  <2>1. i + 1 = j + 1
    BY <1>1 DEF OneWrite
  <2> QED BY <1>1, <2>1
<1>3. NoWrite(q) => NoWrite(Tail(q))
  BY <1>1 DEF NoWrite
<1>4. Head(q).h = "read" /\ NoWrite(Tail(q)) => NoWrite(q)
  BY <1>1 DEF NoWrite
<1>5. Head(q).h = "write" /\ OneWrite(q) => NoWrite(Tail(q)) /\ ~NoWrite(q)
  BY <1>1 DEF NoWrite, OneWrite
<1> QED BY <1>1, <1>2, <1>3, <1>4, <1>5

\* A completion that joins the queue.
LEMMA AppendToReady ==
  ASSUME NEW q \in Seq(Completion), NEW c \in Completion
  PROVE  /\ Append(q, c) \in Seq(Completion)
         /\ c.h = "read" => (NoWrite(Append(q, c)) <=> NoWrite(q))
         /\ c.h = "read" /\ OneWrite(q) => OneWrite(Append(q, c))
         /\ NoWrite(q) => OneWrite(Append(q, c))
<1>1. /\ Len(q) \in Nat /\ DOMAIN q = 1 .. Len(q)
      /\ Append(q, c) \in Seq(Completion) /\ DOMAIN Append(q, c) = 1 .. Len(q) + 1
      /\ Append(q, c)[Len(q) + 1] = c
      /\ \A i \in 1 .. Len(q) : Append(q, c)[i] = q[i] /\ i \in DOMAIN Append(q, c)
      /\ \A i \in 1 .. Len(q) + 1 : i = Len(q) + 1 \/ i \in 1 .. Len(q)
  OBVIOUS
<1> QED BY <1>1 DEF NoWrite, OneWrite

LEMMA CompletionTypes ==
  /\ \A h \in {"read", "write"} : Failed(h) \in Completion /\ Failed(h).h = h
  /\ \A b \in Seq(ByteType) : Read(b) \in Completion /\ Read(b).h = "read"
  /\ \A ec \in BOOLEAN : /\ [Failed("write") EXCEPT !.ec = ec] \in Completion
                         /\ [Failed("write") EXCEPT !.ec = ec].h = "write"
<1>1. \A h \in {"read", "write"} : Failed(h) \in Completion /\ Failed(h).h = h
  BY DEF Failed, Completion
<1>2. \A b \in Seq(ByteType) : Read(b) \in Completion /\ Read(b).h = "read"
  BY DEF Read, Completion
<1>3. ASSUME NEW ec \in BOOLEAN
      PROVE  /\ [Failed("write") EXCEPT !.ec = ec] \in Completion
             /\ [Failed("write") EXCEPT !.ec = ec].h = "write"
  <2>1. [Failed("write") EXCEPT !.ec = ec] = [h |-> "write", ec |-> ec, bytes |-> <<>>]
    BY DEF Failed
  <2>2. <<>> \in Seq(ByteType)
    OBVIOUS
  <2> QED BY Zenon, <2>1, <2>2 DEF Completion
<1> QED BY <1>1, <1>2, <1>3

\* Only the writes among the completions matter to the queue of answers.
SameWrites ==
  /\ ready' \in Seq(Completion)
  /\ OneWrite(ready) => OneWrite(ready')
  /\ NoWrite(ready') <=> NoWrite(ready)

LEMMA SameKeeps ==
  ASSUME QueueInv, SameWrites, UNCHANGED queueVars
  PROVE  QueueInv'
BY DEF QueueInv, SameWrites, queueVars

-----------------------------------------------------------------------------
(* The queue of answers.                                                    *)

\* What joins the end of a sequence joins the end of any that it ends.
LEMMA AppendConcat ==
  ASSUME NEW s \in Seq(AnswerType), NEW t \in Seq(AnswerType), NEW x \in AnswerType
  PROVE  Append(s \o t, x) = s \o Append(t, x)
<1> DEFINE l == Append(s \o t, x)
           r == s \o Append(t, x)
<1>1. /\ Append(t, x) \in Seq(AnswerType) /\ Len(Append(t, x)) = Len(t) + 1
      /\ s \o t \in Seq(AnswerType) /\ Len(s \o t) = Len(s) + Len(t)
  OBVIOUS
<1>2. l \in Seq(AnswerType) /\ r \in Seq(AnswerType) /\ Len(l) = Len(s) + Len(t) + 1 /\ Len(r) = Len(l)
  BY <1>1
<1>3. \A i \in 1 .. Len(s) + Len(t) + 1 : l[i] = r[i]
  BY <1>1
<1> HIDE DEF l, r
<1>4. l = r
  BY <1>2, <1>3
<1> QED BY <1>4 DEF l, r

\* An answer joins the queue, and is written at once if none is.
LEMMA SendKeeps ==
  ASSUME QueueInv, SameWrites, NEW a \in AnswerType, send_pdu(a)
  PROVE  QueueInv'
<1>1. /\ answers' = Append(answers, a) /\ write_queue' = Append(write_queue, a)
      /\ write_in_progress' = TRUE /\ written' = written
  BY DEF send_pdu
<1>2. write_queue' \in Seq(AnswerType) /\ write_queue' # <<>> /\ written' \in Seq(AnswerType)
  BY <1>1 DEF QueueInv
<1>3. answers' = written' \o write_queue'
  <2>1. written \in Seq(AnswerType) /\ write_queue \in Seq(AnswerType)
    BY DEF QueueInv
  <2>2. Append(written \o write_queue, a) = written \o Append(write_queue, a)
    BY Zenon, <2>1, AppendConcat
  <2> QED BY Zenon, <1>1, <2>2 DEF QueueInv
<1>4. write_queue # <<>> => Head(write_queue') = Head(write_queue)
  BY <1>1 DEF QueueInv
<1>5. write_queue = <<>> => Head(write_queue') = a
  BY <1>1 DEF QueueInv
<1>6. CASE write_in_progress
  <2>1. UNCHANGED <<writing, buffer>>
    BY <1>6 DEF send_pdu
  <2> QED BY <1>1, <1>2, <1>3, <1>4, <2>1 DEF QueueInv, SameWrites
<1>7. CASE ~write_in_progress
  <2>1. writing' = TRUE /\ buffer' = a
    BY <1>7 DEF send_pdu, do_write
  <2>2. write_queue = <<>> /\ NoWrite(ready) /\ OneWrite(ready)
    BY <1>7 DEF QueueInv
  <2> QED BY <1>1, <1>2, <1>3, <1>5, <2>1, <2>2 DEF QueueInv, SameWrites
<1> QED BY <1>6, <1>7

\* A write has completed: its answer leaves the front of the queue.
LEMMA PopKeeps ==
  ASSUME QueueInv, ready \in Seq(Completion), pop_front
  PROVE  /\ write_queue' \in Seq(AnswerType) /\ written' \in Seq(AnswerType)
         /\ answers = written' \o write_queue' /\ write_queue' = Tail(write_queue)
         /\ ~writing /\ NoWrite(Tail(ready)) /\ Tail(ready) \in Seq(Completion)
         /\ write_in_progress
<1>1. ready # <<>> /\ Head(ready).h = "write"
  BY DEF pop_front, Turn
<1>2. NoWrite(Tail(ready)) /\ ~NoWrite(ready) /\ Tail(ready) \in Seq(Completion)
  BY <1>1, TailOfReady DEF QueueInv
<1>3. ~writing /\ write_in_progress /\ write_queue # <<>> /\ buffer = Head(write_queue)
  BY <1>2 DEF QueueInv
<1>4. write_queue' = Tail(write_queue) /\ written' = Append(written, buffer)
  BY DEF pop_front
<1>5. write_queue' \in Seq(AnswerType) /\ written' \in Seq(AnswerType)
  BY <1>3, <1>4 DEF QueueInv
<1>6. written \o write_queue = Append(written, Head(write_queue)) \o Tail(write_queue)
  BY <1>3 DEF QueueInv
<1> QED BY <1>2, <1>3, <1>4, <1>5, <1>6 DEF QueueInv

-----------------------------------------------------------------------------
(* The steps.                                                               *)

\* A read's completion, run and followed by a new read, leaves the writes.
LEMMA ReadDone ==
  ASSUME TypeInv, Turn("read"), do_read
  PROVE  SameWrites
<1>1. ready # <<>> /\ Head(ready).h = "read" /\ ready \in Seq(Completion)
  BY DEF Turn, TypeInv
<1>2. ready' = Tail(ready) \/ ready' = Append(Tail(ready), Failed("read"))
  BY DEF do_read
<1>3. Failed("read") \in Completion /\ Failed("read").h = "read"
  BY CompletionTypes
<1>4. /\ Tail(ready) \in Seq(Completion) /\ (OneWrite(ready) => OneWrite(Tail(ready)))
      /\ NoWrite(Tail(ready)) <=> NoWrite(ready)
  BY Zenon, <1>1, TailOfReady
<1>5. CASE ready' = Tail(ready)
  BY Zenon, <1>4, <1>5 DEF SameWrites
<1>6. CASE ready' = Append(Tail(ready), Failed("read"))
  BY Zenon, <1>3, <1>4, <1>6, AppendToReady DEF SameWrites
<1> QED BY <1>2, <1>5, <1>6

LEMMA CloseQueue ==
  ASSUME NEW q \in Seq(Completion), close(q)
  PROVE  /\ ready' \in Seq(Completion) /\ (OneWrite(q) => OneWrite(ready'))
         /\ NoWrite(ready') <=> NoWrite(q)
<1>1. Failed("read") \in Completion /\ Failed("read").h = "read"
  BY CompletionTypes
<1>2. ready' = q \/ ready' = Append(q, Failed("read"))
  BY DEF close
<1> QED BY Zenon, <1>1, <1>2, AppendToReady

LEMMA PduOfType ==
  ASSUME TypeInv, NEW full
  PROVE  PduOf(full) \in Nat
<1>1. CASE \E k \in DOMAIN stream : full = Bytes(k, stream[k])
  <2>1. PICK k \in DOMAIN stream : full = Bytes(k, stream[k])
    BY <1>1
  <2>2. k \in Nat /\ stream[k].len \in Nat
    <3>1. k \in Nat /\ stream[k] \in PduType
      BY DEF TypeInv
    <3> QED BY <3>1 DEF PduType
  <2>3. 1 \in 1 .. Larger(stream[k].len, HeaderLen)
    BY <2>2, InProcessAssumption DEF Larger
  <2>4. full[1] = <<k, 1>>
    BY <2>1, <2>3 DEF Bytes
  <2> QED BY <1>1, <2>2, <2>4 DEF PduOf
<1>2. CASE ~ \E k \in DOMAIN stream : full = Bytes(k, stream[k])
  BY <1>2 DEF PduOf
<1> QED BY <1>1, <1>2

\* A PDU is dispatched and answered.
LEMMA DispatchKeeps ==
  ASSUME IInv, NEW cmds, dispatch_pdu(cmds), NEW status \in Statuses, send_pdu(Answer(status))
  PROVE  IInv'
<1>1. Turn("read") /\ do_read /\ UNCHANGED <<stream, inbox>>
  BY DEF dispatch_pdu, peerVars
<1>2. SameWrites
  BY <1>1, ReadDone DEF IInv
<1>3. Answer(status) \in AnswerType
  BY DEF Answer, AnswerType, IInv, TypeInv
<1>4. QueueInv'
  BY <1>2, <1>3, SendKeeps DEF IInv
<1>5. dispatched' \in Seq(Nat)
  <2>1. dispatched' = Append(dispatched, PduOf(Taken(Head(ready).bytes)))
    BY DEF dispatch_pdu, take_pdu
  <2>2. PduOf(Taken(Head(ready).bytes)) \in Nat
    BY PduOfType DEF IInv
  <2> QED BY <2>1, <2>2 DEF IInv, TypeInv
<1> QED BY <1>1, <1>2, <1>4, <1>5 DEF IInv, TypeInv, SameWrites

LEMMA WriteKeeps ==
  ASSUME IInv, on_write \/ on_write_close
  PROVE  IInv'
<1>1. /\ pop_front /\ answers' = answers /\ UNCHANGED <<stream, dispatched>>
  BY DEF on_write, on_write_close, peerVars, framerVars
<1>2. /\ write_queue' \in Seq(AnswerType) /\ written' \in Seq(AnswerType)
      /\ answers = written' \o write_queue' /\ write_queue' = Tail(write_queue)
      /\ ~writing /\ NoWrite(Tail(ready)) /\ Tail(ready) \in Seq(Completion)
      /\ write_in_progress
  BY <1>1, PopKeeps DEF IInv, TypeInv
<1>3. OneWrite(Tail(ready))
  BY <1>2 DEF NoWrite, OneWrite
<1>4. CASE on_write_close
  <2>1. close(Tail(ready)) /\ UNCHANGED <<write_in_progress, writing>>
    BY <1>4 DEF on_write_close
  <2>2. inbox' \in Seq(ByteType)
    BY <2>1 DEF close
  <2> QED BY Zenon, <1>1, <1>2, <1>3, <2>1, <2>2, CloseQueue DEF IInv, TypeInv, QueueInv
<1>5. CASE on_write
  <2>1. ready' = Tail(ready) /\ inbox' = inbox
    BY <1>5 DEF on_write, peerVars
  <2>2. CASE Tail(write_queue) # <<>>
    <3>1. /\ writing' = TRUE /\ buffer' = Head(Tail(write_queue))
          /\ write_in_progress' = write_in_progress
      BY <1>5, <2>2 DEF on_write, do_write
    <3> QED BY <1>1, <1>2, <1>3, <2>1, <2>2, <3>1 DEF IInv, TypeInv, QueueInv
  <2>3. CASE Tail(write_queue) = <<>>
    <3>1. write_in_progress' = FALSE /\ writing' = writing
      BY <1>5, <2>3 DEF on_write
    <3> QED BY <1>1, <1>2, <1>3, <2>1, <2>3, <3>1 DEF IInv, TypeInv, QueueInv
  <2> QED BY <2>2, <2>3
<1> QED BY <1>4, <1>5

\* A failed read or write closes the socket; its write leaves the queue for good.
LEMMA ErrorKeeps ==
  ASSUME IInv, on_read_error \/ on_write_error
  PROVE  IInv'
<1>1. /\ ready # <<>> /\ close(Tail(ready)) /\ inbox' = <<>>
      /\ UNCHANGED <<stream, dispatched, queueVars>>
      /\ Head(ready).h \in {"read", "write"}
  BY DEF on_read_error, on_write_error, Turn, close, framerVars
<1>2. ready \in Seq(Completion) /\ Tail(ready) \in Seq(Completion)
  BY <1>1, TailOfReady DEF IInv, TypeInv
<1>3. /\ ready' \in Seq(Completion) /\ (OneWrite(Tail(ready)) => OneWrite(ready'))
      /\ NoWrite(ready') <=> NoWrite(Tail(ready))
  BY Zenon, <1>1, <1>2, CloseQueue
<1>4. OneWrite(Tail(ready)) /\ (NoWrite(ready) => NoWrite(Tail(ready)))
  BY <1>1, <1>2, TailOfReady DEF IInv, QueueInv
<1>5. QueueInv'
  BY <1>1, <1>3, <1>4 DEF IInv, QueueInv, queueVars
<1> QED BY <1>1, <1>3, <1>5 DEF IInv, TypeInv

LEMMA PeerKeeps ==
  ASSUME IInv, PeerClose \/ ReadSome \/ \E p \in Pdus : PeerSend(p)
  PROVE  IInv'
<1>1. CASE PeerClose
  <2>1. SameWrites /\ UNCHANGED <<queueVars, stream, inbox, dispatched, ready>>
    BY <1>1 DEF PeerClose, SameWrites, framerVars, IInv, TypeInv
  <2> QED BY <2>1, SameKeeps DEF IInv, TypeInv
<1>2. CASE ReadSome
  <2>1. UNCHANGED <<queueVars, stream, dispatched>>
    BY <1>2 DEF ReadSome, framerVars
  <2>2. \E c \in Completion : c.h = "read" /\ ready' = Append(ready, c)
    <3>1. CASE ready' = Append(ready, Failed("read"))
      BY <3>1, CompletionTypes
    <3>2. CASE \E n \in 1 .. Len(inbox) : ready' = Append(ready, Read(SubSeq(inbox, 1, n)))
      <4>1. PICK n \in 1 .. Len(inbox) : ready' = Append(ready, Read(SubSeq(inbox, 1, n)))
        BY <3>2
      <4>2. SubSeq(inbox, 1, n) \in Seq(ByteType)
        BY DEF IInv, TypeInv
      <4> QED BY Zenon, <4>1, <4>2, CompletionTypes
    <3> QED BY <1>2, <3>1, <3>2 DEF ReadSome
  <2>3. inbox' \in Seq(ByteType)
    <3>1. inbox \in Seq(ByteType)
      BY DEF IInv, TypeInv
    <3>2. \A n \in 1 .. Len(inbox) : SubSeq(inbox, n + 1, Len(inbox)) \in Seq(ByteType)
      BY <3>1
    <3> QED BY Zenon, <1>2, <3>1, <3>2 DEF ReadSome
  <2>4. SameWrites
    BY <2>2, AppendToReady DEF SameWrites, IInv, TypeInv
  <2> QED BY <2>1, <2>3, <2>4, SameKeeps DEF IInv, TypeInv, SameWrites
<1>3. ASSUME NEW p \in Pdus, PeerSend(p) PROVE IInv'
  <2>1. /\ stream' = Append(stream, p) /\ inbox' = inbox \o Bytes(Len(stream) + 1, p)
        /\ UNCHANGED <<queueVars, ready, dispatched>>
    BY <1>3 DEF PeerSend, framerVars
  <2>2. p \in PduType /\ Larger(p.len, HeaderLen) \in Nat
    BY InProcessAssumption DEF PduType, Larger
  <2>3. stream' \in Seq(PduType) /\ Len(stream) + 1 \in Nat
    BY <2>1, <2>2 DEF IInv, TypeInv
  <2>4. Bytes(Len(stream) + 1, p) \in Seq(ByteType)
    BY <2>2, <2>3 DEF Bytes, ByteType
  <2>5. inbox' \in Seq(ByteType)
    BY <2>1, <2>4 DEF IInv, TypeInv
  <2>6. SameWrites
    BY <2>1 DEF SameWrites, IInv, TypeInv
  <2> QED BY <2>1, <2>3, <2>5, <2>6, SameKeeps DEF IInv, TypeInv
<1> QED BY <1>1, <1>2, <1>3

\* The completion of the one write joins the queue.
LEMMA CompletesKeeps ==
  ASSUME IInv, WriteCompletes
  PROVE  IInv'
<1>1. /\ writing /\ writing' = FALSE
      /\ UNCHANGED <<stream, inbox, dispatched, write_queue, write_in_progress, buffer,
                     answers, written>>
  BY DEF WriteCompletes, peerVars, framerVars
<1>2. PICK c \in Completion : ready' = Append(ready, c)
  BY CompletionTypes DEF WriteCompletes
<1>3. NoWrite(ready) /\ write_in_progress /\ write_queue # <<>> /\ buffer = Head(write_queue)
  BY <1>1 DEF IInv, QueueInv
<1>4. ready' \in Seq(Completion) /\ OneWrite(ready')
  BY <1>2, <1>3, AppendToReady DEF IInv, TypeInv
<1> QED BY <1>1, <1>3, <1>4 DEF IInv, TypeInv, QueueInv

LEMMA Inductive ==
  ASSUME IInv, [Next]_vars
  PROVE  IInv'
<1>1. CASE on_read
  <2>1. Turn("read") /\ do_read /\ UNCHANGED <<stream, inbox, dispatched, queueVars>>
    BY <1>1 DEF on_read, peerVars, feed_bytes
  <2>2. SameWrites
    BY <2>1, ReadDone DEF IInv
  <2> QED BY <2>1, <2>2, SameKeeps DEF IInv, TypeInv, SameWrites
<1>2. CASE handle_bind
  BY <1>2, DispatchKeeps DEF handle_bind, build_bind_resp, Statuses
<1>3. CASE handle_unbind
  BY <1>3, DispatchKeeps DEF handle_unbind, Statuses
<1>4. CASE handle_enquire_link
  BY <1>4, DispatchKeeps DEF handle_enquire_link, Statuses
<1>5. CASE handle_unknown
  BY <1>5, DispatchKeeps DEF handle_unknown, Statuses
<1>6. CASE handle_bind_caught
  BY <1>6, DispatchKeeps DEF handle_bind_caught, Statuses
<1>7. CASE exception_leaves
  <2>1. /\ ready' = <<>> /\ inbox' = <<>> /\ writing' = FALSE
        /\ UNCHANGED <<stream, dispatched, write_queue, write_in_progress, answers, written>>
    BY <1>7 DEF exception_leaves, framerVars
  <2>2. OneWrite(<<>>) /\ NoWrite(<<>>)
    BY DEF OneWrite, NoWrite
  <2> QED BY <2>1, <2>2 DEF IInv, TypeInv, QueueInv
<1>8. CASE UNCHANGED vars
  <2>1. UNCHANGED <<stream, inbox, dispatched, ready, queueVars>>
    BY <1>8 DEF vars, peerVars, framerVars
  <2>2. SameWrites
    BY <2>1 DEF SameWrites, IInv, TypeInv
  <2> QED BY <2>1, <2>2, SameKeeps DEF IInv, TypeInv
<1> QED BY <1>1, <1>2, <1>3, <1>4, <1>5, <1>6, <1>7, <1>8, WriteKeeps, ErrorKeeps, PeerKeeps,
           CompletesKeeps DEF Next, StrandStep

LEMMA Always == Spec => []IInv
<1>1. Init => IInv
  BY DEF Init, IInv, TypeInv, QueueInv, NoWrite, OneWrite
<1> QED BY <1>1, Inductive, PTL DEF Spec

\* The handler never has two writes under way, and answers in the order of the
\* requests, whatever is read while a write is under way.
THEOREM WritesOneByOne == Spec => []WritesInOrder
<1>1. IInv => WritesInOrder
  BY DEF IInv, QueueInv, WritesInOrder, WritesQueued, NoWrite, OneWrite
<1> QED BY <1>1, Always, PTL

-----------------------------------------------------------------------------
(* The framer.                                                              *)

FramerInv ==
  /\ framer_state \in {"WAITING_HEADER", "WAITING_BODY"}
  /\ full_pdu \in Seq(ByteType) /\ hdr \in PduType
  /\ NeededNeverWraps

\* What feed_bytes takes is what is left to read, or less.
LEMMA TakenFits ==
  ASSUME FramerInv, NEW bytes \in Seq(ByteType)
  PROVE  /\ Taken(bytes) \in Seq(ByteType)
         /\ Len(full_pdu) <= Len(Taken(bytes))
         /\ Len(Taken(bytes)) <= Len(full_pdu) + bytes_needed
<1> DEFINE n == Smaller(Len(bytes), bytes_needed)
<1>1. bytes_needed \in Nat
  BY InProcessAssumption DEF FramerInv, NeededNeverWraps, bytes_needed, PduType
<1>2. n \in 0 .. Len(bytes) /\ n <= bytes_needed
  BY <1>1 DEF Smaller
<1> HIDE DEF n
<1>3. SubSeq(bytes, 1, n) \in Seq(ByteType) /\ Len(SubSeq(bytes, 1, n)) = n
  BY <1>2
<1>4. Taken(bytes) = full_pdu \o SubSeq(bytes, 1, n)
  BY DEF Taken, n
<1> QED BY <1>1, <1>2, <1>3, <1>4 DEF FramerInv

\* feed_bytes with a PDU that stays incomplete.
LEMMA FeedKeeps ==
  ASSUME TypeInv, FramerInv, NEW bytes \in Seq(ByteType), feed_bytes(bytes)
  PROVE  FramerInv'
<1> DEFINE full == Taken(bytes)
<1>1. /\ full \in Seq(ByteType) /\ Len(full_pdu) <= Len(full)
      /\ Len(full) <= Len(full_pdu) + bytes_needed /\ full_pdu' = full
  BY TakenFits DEF feed_bytes
<1>2. HeaderLen \in Nat /\ Len(full) \in Nat /\ Len(full_pdu) \in Nat /\ hdr.len \in Nat
  BY <1>1, InProcessAssumption DEF FramerInv, PduType
<1> HIDE DEF full
<1>3. CASE framer_state = "WAITING_HEADER" /\ Len(full) >= HeaderLen
  <2>1. parse_header(full) /\ framer_state' = IF hdr'.len >= HeaderLen THEN "WAITING_BODY"
                                                                     ELSE "WAITING_HEADER"
    BY Zenon, <1>3 DEF feed_bytes, full
  <2>2. hdr' \in PduType
    <3>1. \A k \in DOMAIN stream : stream[k] \in PduType
      BY DEF TypeInv
    <3> QED BY Zenon, <2>1, <3>1, InProcessAssumption DEF parse_header, FramerInv
  <2>3. hdr'.len \in Nat
    BY <2>2 DEF PduType
  <2>4. Len(full) = HeaderLen
    BY <1>1, <1>2, <1>3 DEF bytes_needed
  <2> QED BY <1>1, <1>2, <2>1, <2>2, <2>3, <2>4 DEF FramerInv, NeededNeverWraps, bytes_needed
<1>4. CASE ~(framer_state = "WAITING_HEADER" /\ Len(full) >= HeaderLen)
  <2>1. UNCHANGED <<hdr, framer_state>>
    BY <1>4 DEF feed_bytes, full
  <2> QED BY <1>1, <1>2, <2>1 DEF FramerInv, NeededNeverWraps, bytes_needed
<1> QED BY <1>3, <1>4

LEMMA FramerStep ==
  ASSUME TypeInv, FramerInv, [Next]_vars
  PROVE  FramerInv'
<1>1. CASE on_read
  <2>1. Head(ready) \in Completion
    BY <1>1, TailOfReady DEF on_read, Turn, TypeInv
  <2>2. Head(ready).bytes \in Seq(ByteType) /\ feed_bytes(Head(ready).bytes)
    BY <1>1, <2>1 DEF on_read, Completion
  <2> QED BY <2>2, FeedKeeps
<1>2. ASSUME NEW cmds, dispatch_pdu(cmds) PROVE FramerInv'
  <2>1. framer_state' = "WAITING_HEADER" /\ full_pdu' = <<>> /\ hdr' = NoHeader
    BY <1>2 DEF dispatch_pdu, take_pdu
  <2>2. NoHeader \in PduType /\ <<>> \in Seq(ByteType) /\ Len(<<>>) = 0
    BY DEF NoHeader, PduType, Commands
  <2> QED BY <2>1, <2>2, InProcessAssumption DEF FramerInv, NeededNeverWraps, bytes_needed
<1>3. ASSUME UNCHANGED <<framer_state, full_pdu, hdr>> PROVE FramerInv'
  BY <1>3 DEF FramerInv, NeededNeverWraps, bytes_needed
<1>4. CASE \/ on_read_error \/ on_write \/ on_write_close \/ on_write_error \/ exception_leaves
           \/ ReadSome \/ WriteCompletes \/ PeerClose \/ (\E p \in Pdus : PeerSend(p))
           \/ UNCHANGED vars
  BY <1>3, <1>4 DEF on_read_error, on_write, on_write_close, on_write_error, exception_leaves,
       ReadSome, WriteCompletes, PeerClose, PeerSend, vars, framerVars
<1>5. CASE handle_bind \/ handle_bind_caught \/ handle_unbind \/ handle_enquire_link \/ handle_unknown
  BY Zenon, <1>2, <1>5 DEF handle_bind, handle_bind_caught, handle_unbind, handle_enquire_link,
       handle_unknown
<1> QED BY Zenon, <1>1, <1>4, <1>5 DEF Next, StrandStep

\* The framer never asks for more bytes than its PDU has left, whatever the headers say
\* and however the bytes are split into reads, and completes no PDU without a header.
THEOREM FramerBounded == Spec => []NeededNeverWraps
<1>1. Init => FramerInv
  <2>1. NoHeader \in PduType
    BY DEF NoHeader, PduType, Commands
  <2> QED BY <2>1, InProcessAssumption DEF Init, FramerInv, NeededNeverWraps, bytes_needed
<1>2. IInv /\ FramerInv /\ [Next]_vars => FramerInv'
  BY Zenon, FramerStep DEF IInv
<1>3. FramerInv => NeededNeverWraps
  BY DEF FramerInv
<1> QED BY <1>1, <1>2, <1>3, Always, PTL DEF Spec
=============================================================================
