-------------------------- MODULE MessagingProofs --------------------------
(***************************************************************************)
(* Proofs about module Messaging, for any number of requesters, messages   *)
(* and faults, any use of the sockets and any length of the pipes.         *)
(***************************************************************************)
EXTENDS Messaging, SequenceTheorems, FiniteSetTheorems, TLAPS

-----------------------------------------------------------------------------
(***************************************************************************)
(* Pipes: what occurs in a sequence, and sequences without repetition.     *)
(***************************************************************************)
Occurs(m, s) == \E i \in 1..Len(s) : s[i] = m
Once(s) == \A i, j \in 1..Len(s) : s[i] = s[j] => i = j

LEMMA NothingInEmpty == Once(<<>>) /\ \A m : ~Occurs(m, <<>>)
BY DEF Once, Occurs

\* Taking the head of a pipe removes that message and no other.
LEMMA TailOccurs ==
  ASSUME NEW S, NEW s \in Seq(S), s # <<>>, Once(s)
  PROVE  /\ Head(s) \in S /\ Occurs(Head(s), s)
         /\ Tail(s) \in Seq(S) /\ Len(Tail(s)) = Len(s) - 1 /\ Once(Tail(s))
         /\ \A m : Occurs(m, Tail(s)) <=> (Occurs(m, s) /\ m # Head(s))
<1>1. /\ Head(s) \in S /\ Tail(s) \in Seq(S) /\ Len(Tail(s)) = Len(s) - 1
      /\ \A i \in 1 .. Len(Tail(s)) : Tail(s)[i] = s[i + 1]
      BY HeadTailProperties
<1>2. Len(s) \in Nat \ {0} /\ Head(s) = s[1]
      BY EmptySeq
<1>3. Occurs(Head(s), s)
      BY <1>2 DEF Occurs
<1>4. Once(Tail(s))
      BY <1>1, <1>2 DEF Once
<1>5. ASSUME NEW m, Occurs(m, Tail(s)) PROVE Occurs(m, s) /\ m # Head(s)
      BY <1>1, <1>2, <1>5 DEF Occurs, Once
<1>6. ASSUME NEW m, Occurs(m, s), m # Head(s) PROVE Occurs(m, Tail(s))
  <2>1. PICK i \in 1 .. Len(s) : s[i] = m
        BY <1>6 DEF Occurs
  <2>2. i # 1
        BY <2>1, <1>2, <1>6
  <2>3. i - 1 \in 1 .. Len(Tail(s)) /\ Tail(s)[i - 1] = m
        BY <2>1, <2>2, <1>1, <1>2
  <2>q. QED BY <2>3 DEF Occurs
<1>q. QED BY <1>1, <1>3, <1>4, <1>5, <1>6

\* A message that is appended to a pipe is in it, with what was there.
LEMMA AppendOccurs ==
  ASSUME NEW S, NEW s \in Seq(S), NEW e \in S
  PROVE  /\ Append(s, e) \in Seq(S) /\ Len(Append(s, e)) = Len(s) + 1
         /\ (Once(s) /\ ~Occurs(e, s)) => Once(Append(s, e))
         /\ \A m : Occurs(m, Append(s, e)) <=> (Occurs(m, s) \/ m = e)
<1>1. /\ Append(s, e) \in Seq(S) /\ Len(Append(s, e)) = Len(s) + 1
      /\ \A i \in 1 .. Len(s) : Append(s, e)[i] = s[i]
      /\ Append(s, e)[Len(s) + 1] = e
      BY AppendProperties
<1>2. Len(s) \in Nat
      BY LenProperties
<1>3. ASSUME Once(s), ~Occurs(e, s) PROVE Once(Append(s, e))
      BY <1>1, <1>2, <1>3 DEF Once, Occurs
<1>4. ASSUME NEW m, Occurs(m, Append(s, e)) PROVE Occurs(m, s) \/ m = e
      BY <1>1, <1>2, <1>4 DEF Occurs
<1>5. ASSUME NEW m, Occurs(m, s) \/ m = e PROVE Occurs(m, Append(s, e))
  <2>1. Len(s) + 1 \in 1 .. Len(Append(s, e))
        BY <1>1, <1>2
  <2>2. \A i \in 1 .. Len(s) : i \in 1 .. Len(Append(s, e))
        BY <1>1, <1>2
  <2>q. QED BY <1>1, <1>5, <2>1, <2>2 DEF Occurs
<1>q. QED BY <1>1, <1>3, <1>4, <1>5

-----------------------------------------------------------------------------
(***************************************************************************)
(* Operations: they differ, and there are no others.                       *)
(***************************************************************************)
LEMMA OpsDiffer ==
  /\ \A r \in Requests : /\ Ask(r) \in Ops /\ Await(r) \in Ops /\ Answer(r) \in Ops
                         /\ Ask(r) \in Sends /\ Answer(r) \in Sends
                         /\ Ask(r) \notin Recvs /\ Answer(r) \notin Recvs
                         /\ Await(r) \in Recvs /\ Await(r) \notin Sends
                         /\ Ask(r)[1] = "ask" /\ Ask(r)[2] = r
                         /\ Await(r)[1] = "await" /\ Await(r)[2] = r
                         /\ Answer(r)[1] = "answer" /\ Answer(r)[2] = r
  /\ \A k \in Rounds : /\ Listen(k) \in Ops /\ Listen(k) \in Recvs
                       /\ Listen(k) \notin Sends /\ Listen(k)[1] = "listen"
  /\ \A r, s \in Requests : /\ Ask(r) = Ask(s) => r = s
                            /\ Await(r) = Await(s) => r = s
                            /\ Answer(r) = Answer(s) => r = s
                            /\ Ask(r) # Await(s) /\ Ask(r) # Answer(s)
                            /\ Await(r) # Answer(s)
  /\ \A k, l \in Rounds : Listen(k) = Listen(l) => k = l
  /\ \A k \in Rounds, r \in Requests : Listen(k) \notin {Ask(r), Await(r), Answer(r)}
BY DEF Ask, Await, Answer, Listen, Ops, Sends, Recvs

LEMMA OpCases ==
  \A o \in Ops : \/ \E r \in Requests : o \in {Ask(r), Await(r), Answer(r)}
                 \/ \E k \in Rounds : o = Listen(k)
BY DEF Ask, Await, Answer, Listen, Ops, Sends, Recvs

LEMMA RoundsAreCounted ==
  /\ Cardinality(Requests) \in Nat
  /\ Rounds = 1 .. Cardinality(Requests) + 1
BY MessagingAssumption, FS_CardinalityType DEF Rounds

-----------------------------------------------------------------------------
(***************************************************************************)
(* The inductive invariant.                                                *)
(***************************************************************************)

\* The request, or the answer, that a loop has in its hands or has received.
HasRequest(k, r) == r \in {read[Listen(k)], result[Listen(k)]}
HasAnswer(s, a)  == a \in {read[Await(s)], result[Await(s)]}
Answered(r) == Sent \in {read[Answer(r)], result[Answer(r)]}
Looked == handling \cup rejected

\* What a loop has read and what its promise has, stage by stage.
LoopInv ==
  /\ \A o \in Ops : /\ stage[o] = "got" <=> read[o] # Null
                    /\ stage[o] = "done" => result[o] # Unset
                    /\ stage[o] = "idle" => result[o] = Unset
                    /\ result[o] \notin {Unset, Stopped, Failed} => stage[o] = "done"
  /\ \A r \in Requests :
       /\ \A o \in {Ask(r), Answer(r)} : /\ read[o] \in {Null, Sent, Failed}
                                         /\ result[o] \in {Unset, Sent, Failed}
       /\ read[Await(r)] \in Answers \cup {Null, Failed}
       /\ result[Await(r)] \in Answers \cup {Unset, Failed}
       /\ \A o \in {Ask(r), Await(r), Answer(r)} :
            result[o] # Unset => stage[o] = "done"
  /\ \A k \in Rounds : /\ read[Listen(k)] \in Requests \cup {Null, Failed}
                       /\ result[Listen(k)] \in Requests \cup {Unset, Stopped, Failed}

\* The order of the calls: send, then recv; reply, then the answer.
OrderInv ==
  \A r \in Requests :
    /\ stage[Await(r)] # "idle" => result[Ask(r)] = Sent
    /\ stage[Answer(r)] # "idle" => (r \in handled /\ pattern = "reply")
    /\ r \in handled => r \in handling
    /\ outcome[r] \in Answers => result[Await(r)] = outcome[r]

\* One loop listens at a time: the earlier rounds received a message each.
ListenInv ==
  \A k \in Rounds :
    /\ k > round => (stage[Listen(k)] = "idle" /\ k \notin taken)
    /\ k <= round => stage[Listen(k)] # "idle"
    /\ k \in taken => result[Listen(k)] # Unset
    /\ result[Listen(k)] # Unset => (stage[Listen(k)] = "done" \/ listener # Unset)
    /\ (k < round \/ (k = round /\ relisten = 1))
         => (k \in taken /\ result[Listen(k)] \in Requests)

\* A message was lost by the last loop, that of a replier that was stopped.
LostInv ==
  lost # {} => /\ listener # Unset /\ relisten = 0 /\ round > 0
               /\ \E r \in Requests : lost = {r}
               /\ stage[Listen(round)] = "done"
               /\ result[Listen(round)] \notin Requests

\* What is in a pipe is there once and nowhere else.
PipeInv ==
  \A q \in Requesters :
    /\ Once(requests[q]) /\ Once(answers[q])
    /\ \A r \in Requests : Occurs(r, requests[q]) =>
         /\ Owner[r] = q /\ Delivered(r)
         /\ r \notin Looked /\ r \notin lost
         /\ \A k \in Rounds : ~HasRequest(k, r)
    /\ \A a \in Answers : Occurs(a, answers[q]) =>
         /\ a = Frames(a.of) /\ Owner[a.of] = q /\ Answered(a.of)
         /\ \A s \in Requests : ~HasAnswer(s, a)

\* What a loop has, no other has.
HoldInv ==
  /\ \A k \in Rounds, r \in Requests : HasRequest(k, r) =>
       /\ Delivered(r) /\ r \notin lost
       /\ r \in Looked <=> (k \in taken /\ result[Listen(k)] = r)
       /\ \A l \in Rounds : HasRequest(l, r) => k = l
  /\ \A s \in Requests, a \in Answers : HasAnswer(s, a) =>
       /\ a = Frames(a.of) /\ Owner[a.of] = Owner[s] /\ Answered(a.of)
       /\ \A t \in Requests : HasAnswer(t, a) => s = t

\* A request is dropped, handled or lost, and none that was sent is missing.
EndInv ==
  /\ handling \cap rejected = {} /\ lost \cap Looked = {}
  /\ \A r \in Requests :
       /\ r \in Looked \cup lost => Delivered(r)
       /\ r \in Looked => \E k \in Rounds : k \in taken /\ result[Listen(k)] = r
       /\ (pattern = "reply" /\ Delivered(r)) =>
            \/ Occurs(r, requests[Owner[r]])
            \/ \E k \in Rounds : HasRequest(k, r)
            \/ r \in lost

\* A requester that waits for its answers has at most one message that is not
\* answered, and every answer on its way is that message's.
SerialInv ==
  pattern = "reply" => \A q \in Requesters \ hasty :
    /\ \A r, s \in Unanswered(q) : r = s
    /\ \A a \in Answers : Occurs(a, answers[q]) => a.of \in Unanswered(q)
    /\ \A s \in Requested(q), a \in Answers :
         /\ (HasAnswer(s, a) /\ outcome[s] \notin Answers) => a.of \in Unanswered(q)
         /\ outcome[s] = a => a.of = s

\* A message is in one place.
MessageInv == PipeInv /\ HoldInv /\ EndInv

TypeInv == TypeOK /\ LoopInv /\ OrderInv /\ ListenInv

IInv == TypeInv /\ MessageInv /\ LostInv /\ SerialInv

LEMMA Constants ==
  /\ setup \in Setups => /\ Owner \in [Requests -> Requesters]
                         /\ What \in [Requests -> Kinds]
                         /\ pattern \in {"reply", "publish"}
  /\ \A r \in Requests : /\ Owner[r] = setup.owner[r] /\ What[r] = setup.what[r]
                         /\ Frames(r).of = r
  /\ setup \in Setups => \A r \in Requests : Frames(r) \in Answers
BY MessagingAssumption DEF Setup, Owner, What, pattern, Frames, Answers

-----------------------------------------------------------------------------
(***************************************************************************)
(* What an operation of a socket does, by the kind of the operation.       *)
(***************************************************************************)
Put(o, where, value) ==
  stage' = [stage EXCEPT ![o] = where] /\ read' = [read EXCEPT ![o] = value]

Rest == <<setup, result, replier, lost, client>>

LEMMA ListenReceives ==
  ASSUME TypeOK, NEW k \in Rounds, recv(Listen(k))
  PROVE  /\ stage[Listen(k)] = "asked" /\ UNCHANGED <<Rest, answers, faults>>
         /\ \/ Put(Listen(k), "poll", Null) /\ UNCHANGED requests
            \/ \E q \in Requesters :
                 /\ requests[q] # <<>>
                 /\ Put(Listen(k), "got", Head(requests[q]))
                 /\ requests' = [requests EXCEPT ![q] = Tail(@)]
<1> DEFINE o == Listen(k)
<1>1. o[1] = "listen"
      BY OpsDiffer
<1>2. stage[o] = "asked" /\ UNCHANGED faults /\ RouterRecv(o)
      BY <1>1 DEF recv
<1>3. \A q \in Requesters : requests[q] # <<>> => Head(requests[q]) # Null
  <2>1. \A q \in Requesters : requests[q] # <<>> => Head(requests[q]) \in Requests
        BY HeadTailProperties DEF TypeOK
  <2>q. QED BY <2>1, SignalsAssumption DEF Messages
<1>q. QED BY <1>2, <1>3 DEF RouterRecv, Return, Put, Rest

LEMMA AwaitReceives ==
  ASSUME TypeOK, NEW r \in Requests, recv(Await(r))
  PROVE  /\ stage[Await(r)] = "asked" /\ UNCHANGED <<Rest, requests, faults>>
         /\ \/ Put(Await(r), "poll", Null) /\ UNCHANGED answers
            \/ /\ answers[Owner[r]] # <<>>
               /\ Put(Await(r), "got", Head(answers[Owner[r]]))
               /\ answers' = [answers EXCEPT ![Owner[r]] = Tail(@)]
<1> DEFINE o == Await(r)  q == Owner[r]
<1>1. o[1] # "listen" /\ o[2] = r
      BY OpsDiffer
<1>2. /\ stage[o] = "asked" /\ UNCHANGED <<requests, faults>>
      /\ Return(o, NextAnswer(q))
      /\ answers' = [answers EXCEPT ![q] = IF @ = <<>> THEN @ ELSE Tail(@)]
      BY <1>1 DEF recv
<1>3. q \in Requesters
      BY Constants DEF TypeOK
<1>4. CASE answers[q] = <<>>
  <2>1. UNCHANGED answers /\ NextAnswer(q) = Null
        BY <1>2, <1>3, <1>4 DEF TypeOK, NextAnswer
  <2>q. QED BY <1>2, <2>1 DEF Return, Put, Rest
<1>5. CASE answers[q] # <<>>
  <2>1. Head(answers[q]) \in Answers
        BY <1>3, <1>5, HeadTailProperties DEF TypeOK
  <2>2. NextAnswer(q) = Head(answers[q]) /\ Head(answers[q]) # Null
        BY <1>5, <2>1, SignalsAssumption DEF Messages, NextAnswer
  <2>q. QED BY <1>2, <1>5, <2>2 DEF Return, Put, Rest
<1>q. QED BY <1>4, <1>5

LEMMA AskSends ==
  ASSUME TypeOK, NEW r \in Requests, send(Ask(r))
  PROVE  /\ stage[Ask(r)] = "asked" /\ UNCHANGED <<Rest, answers, faults>>
         /\ \/ Put(Ask(r), "poll", Null) /\ UNCHANGED requests
            \/ pattern = "publish" /\ Put(Ask(r), "got", Sent) /\ UNCHANGED requests
            \/ /\ Len(requests[Owner[r]]) # RequestMark
               /\ Put(Ask(r), "got", Sent)
               /\ requests' = [requests EXCEPT ![Owner[r]] = Append(@, r)]
<1>1. Ask(r)[1] = "ask" /\ Ask(r)[2] = r
      BY OpsDiffer
<1>2. Sent # Null
      BY SignalsAssumption
<1>q. QED BY <1>1, <1>2 DEF send, Return, Put, Rest, Refuses, Drops, Full

LEMMA AnswerSends ==
  ASSUME TypeOK, NEW r \in Requests, send(Answer(r))
  PROVE  /\ stage[Answer(r)] = "asked" /\ UNCHANGED <<Rest, requests, faults>>
         /\ Put(Answer(r), "got", Sent)
         /\ \/ UNCHANGED answers
            \/ /\ Len(answers[Owner[r]]) # ResponseMark
               /\ answers' = [answers EXCEPT ![Owner[r]] = Append(@, Frames(r))]
<1>1. Answer(r)[1] = "answer" /\ Answer(r)[2] = r
      BY OpsDiffer
<1>2. Sent # Null
      BY SignalsAssumption
<1>q. QED BY <1>1, <1>2 DEF send, Return, Put, Rest, Refuses, Drops, Full

LEMMA OpThrows ==
  ASSUME NEW o \in Ops, Throw(o)
  PROVE  /\ stage[o] = "asked" /\ UNCHANGED <<Rest, requests, answers>>
         /\ Put(o, "got", Failed)
         /\ faults < MaxFaults /\ faults' = faults + 1
BY SignalsAssumption DEF Throw, Return, Put, Rest

-----------------------------------------------------------------------------
(***************************************************************************)
(* Steps that move no message.                                             *)
(***************************************************************************)
LEMMA MessagesStay ==
  ASSUME MessageInv,
         UNCHANGED <<setup, requests, answers, taken, handling, rejected, lost>>,
         \A k \in Rounds, r \in Requests :
           /\ read'[Listen(k)] = r <=> read[Listen(k)] = r
           /\ result'[Listen(k)] = r <=> result[Listen(k)] = r,
         \A s \in Requests, a \in Answers : HasAnswer(s, a)' <=> HasAnswer(s, a),
         \A r \in Requests : /\ Delivered(r) => Delivered(r)'
                             /\ (pattern = "reply" /\ Delivered(r)') => Delivered(r)
                             /\ Answered(r) => Answered(r)'
  PROVE  MessageInv'
<1>1. Owner' = Owner /\ What' = What /\ pattern' = pattern /\ Looked' = Looked
      BY DEF Owner, What, pattern, Looked
<1>2. \A r \in Requests : Frames(r)' = Frames(r)
      BY <1>1 DEF Frames
<1>3. \A k \in Rounds, r \in Requests : HasRequest(k, r)' <=> HasRequest(k, r)
      BY DEF HasRequest
<1>4. \A a \in Answers : a.of \in Requests
      BY DEF Answers
<1>5. PipeInv'
      BY <1>1, <1>2, <1>3, <1>4 DEF MessageInv, PipeInv
<1>6. HoldInv'
      BY <1>1, <1>2, <1>3, <1>4 DEF MessageInv, HoldInv
<1>7. EndInv'
      BY <1>1, <1>3 DEF MessageInv, EndInv
<1>q. QED BY <1>5, <1>6, <1>7 DEF MessageInv

LEMMA SerialStays ==
  ASSUME SerialInv, UNCHANGED <<setup, answers, outcome, hasty>>,
         \A r \in Requests : stage'[Ask(r)] = "idle" <=> stage[Ask(r)] = "idle",
         \A s \in Requests, a \in Answers : HasAnswer(s, a)' <=> HasAnswer(s, a)
  PROVE  SerialInv'
<1>1. Owner' = Owner /\ pattern' = pattern
      BY DEF Owner, pattern
<1>2. \A q : Requested(q)' = Requested(q) /\ Requested(q) \subseteq Requests
      BY <1>1 DEF Requested
<1>3. \A q : Unanswered(q)' = Unanswered(q)
      BY <1>2 DEF Unanswered
<1>q. QED BY <1>1, <1>2, <1>3 DEF SerialInv

-----------------------------------------------------------------------------
(***************************************************************************)
(* The loops of Socket.cpp.                                                *)
(***************************************************************************)

\* A loop that goes on keeps the order of the calls.
LEMMA OrderStays ==
  ASSUME TypeInv, UNCHANGED <<setup, handling, handled, outcome, listener, round, relisten, taken>>,
         \A o \in Ops : /\ stage'[o] = "idle" <=> stage[o] = "idle"
                        /\ stage[o] = "done" => stage'[o] = "done"
                        /\ result'[o] # Unset => (stage'[o] = "done" \/ result[o] # Unset)
                        /\ result[o] \notin {Unset, Stopped, Failed} => result'[o] = result[o]
                        /\ result[o] # Unset => result'[o] # Unset
  PROVE  OrderInv' /\ ListenInv'
<1>1. pattern' = pattern
      BY DEF pattern
<1>2. /\ Sent \notin {Unset, Stopped, Failed}
      /\ \A m \in Requests \cup Answers : m \notin {Unset, Stopped, Failed}
      BY SignalsAssumption DEF Messages
<1>3. OrderInv'
      BY <1>1, <1>2, OpsDiffer DEF TypeInv, OrderInv
<1>4. ListenInv'
      BY <1>2, OpsDiffer DEF TypeInv, ListenInv
<1>q. QED BY <1>3, <1>4

LEMMA ScheduleStep ==
  ASSUME IInv, NEW o \in Ops, Schedule(o)
  PROVE  IInv'
<1> USE DEF sockets, replier, client
<1>1. stage[o] = "poll" /\ read[o] = Null
      BY DEF IInv, TypeInv, LoopInv, Schedule
<1>2. TypeOK'
      BY DEF IInv, TypeInv, TypeOK, Schedule
<1>3. LoopInv'
      BY <1>1, OpsDiffer DEF IInv, TypeInv, TypeOK, LoopInv, Schedule
<1>4. \A p \in Ops : /\ stage'[p] = "idle" <=> stage[p] = "idle"
                     /\ stage[p] = "done" => stage'[p] = "done"
  <2>1. /\ \A p \in Ops \ {o} : stage'[p] = stage[p]
        /\ stage'[o] # "idle"
        BY DEF IInv, TypeInv, TypeOK, Schedule
  <2>2. stage[o] \notin {"idle", "done"}
        BY <1>1
  <2>q. QED BY <2>1, <2>2
<1>5. OrderInv' /\ ListenInv'
      BY <1>4, OrderStays DEF IInv, Schedule
<1>6. LostInv'
      BY DEF IInv, LostInv, TypeInv, TypeOK, Schedule
<1>7. MessageInv'
      BY MessagesStay DEF IInv, HasAnswer, Delivered, Answered, Schedule
<1>8. SerialInv'
      BY <1>4, SerialStays, OpsDiffer DEF IInv, HasAnswer, Schedule
<1>q. QED BY <1>2, <1>3, <1>5, <1>6, <1>7, <1>8 DEF IInv, TypeInv

\* What the actor of the socket can return to an operation.
Fits(o, value) ==
  /\ \A r \in Requests : /\ o \in {Ask(r), Answer(r)} => value \in {Null, Sent, Failed}
                         /\ o = Await(r) => value \in Answers \cup {Null, Failed}
  /\ \A k \in Rounds : o = Listen(k) => value \in Requests \cup {Null, Failed}

LEMMA ReturnType ==
  ASSUME IInv, NEW o \in Ops, stage[o] = "asked",
         NEW value, Fits(o, value), UNCHANGED Rest,
         Put(o, IF value = Null THEN "poll" ELSE "got", value)
  PROVE  /\ stage' \in [Ops -> {"idle", "poll", "asked", "got", "done"}]
         /\ read' \in [Ops -> Messages \cup {Null, Sent, Failed}]
         /\ LoopInv' /\ OrderInv' /\ ListenInv' /\ LostInv'
<1> USE DEF Rest, replier, client
<1>1. value \in Messages \cup {Null, Sent, Failed}
      BY OpCases DEF Fits, Messages
<1>2. /\ stage' \in [Ops -> {"idle", "poll", "asked", "got", "done"}]
      /\ read' \in [Ops -> Messages \cup {Null, Sent, Failed}]
      BY <1>1 DEF IInv, TypeInv, TypeOK, Put
<1>3. LoopInv'
  <2>1. \A p \in Ops : /\ stage'[p] = "got" <=> read'[p] # Null
                       /\ stage'[p] = "done" => result[p] # Unset
                       /\ stage'[p] = "idle" => result[p] = Unset
                       /\ result[p] \notin {Unset, Stopped, Failed} => stage'[p] = "done"
        BY DEF IInv, TypeInv, TypeOK, LoopInv, Put
  <2>2. ASSUME NEW r \in Requests
        PROVE  /\ \A p \in {Ask(r), Answer(r)} : read'[p] \in {Null, Sent, Failed}
               /\ read'[Await(r)] \in Answers \cup {Null, Failed}
               /\ \A p \in {Ask(r), Await(r), Answer(r)} :
                    result[p] # Unset => stage'[p] = "done"
        BY OpsDiffer DEF Fits, IInv, TypeInv, TypeOK, LoopInv, Put
  <2>3. \A k \in Rounds : read'[Listen(k)] \in Requests \cup {Null, Failed}
        BY OpsDiffer DEF Fits, IInv, TypeInv, TypeOK, LoopInv, Put
  <2>q. QED BY <2>1, <2>2, <2>3 DEF IInv, TypeInv, LoopInv
<1>4. OrderInv' /\ ListenInv'
  <2>1. /\ \A p \in Ops \ {o} : stage'[p] = stage[p]
        /\ stage'[o] # "idle"
        BY DEF IInv, TypeInv, TypeOK, Put
  <2>2. \A p \in Ops : /\ stage'[p] = "idle" <=> stage[p] = "idle"
                       /\ stage[p] = "done" => stage'[p] = "done"
        BY <2>1
  <2>q. QED BY <2>2, OrderStays DEF IInv
<1>5. LostInv'
      BY DEF IInv, LostInv, TypeInv, TypeOK, Put
<1>q. QED BY <1>2, <1>3, <1>4, <1>5

LEMMA ListenStep ==
  ASSUME IInv, NEW k \in Rounds, recv(Listen(k))
  PROVE  IInv'
<1> DEFINE o == Listen(k)
<1> USE DEF Rest, replier, client
<1>1. /\ stage[o] = "asked" /\ read[o] = Null /\ o \in Ops
      /\ UNCHANGED <<Rest, answers, faults>>
      BY ListenReceives, OpsDiffer DEF IInv, TypeInv, LoopInv
<1>2. /\ Owner' = Owner /\ pattern' = pattern /\ Looked' = Looked
      /\ \A r \in Requests : Frames(r)' = Frames(r)
      BY <1>1 DEF Owner, pattern, Looked, What, Frames
<1>3. /\ \A r \in Requests : /\ Delivered(r)' <=> Delivered(r)
                             /\ Answered(r)' <=> Answered(r)
      /\ \A s \in Requests : \A a : HasAnswer(s, a)' <=> HasAnswer(s, a)
      BY <1>1, ListenReceives, OpsDiffer
      DEF Put, Delivered, Answered, HasAnswer, IInv, TypeInv, TypeOK
<1>4. CASE Put(o, "poll", Null) /\ UNCHANGED requests
  <2>1. TypeInv' /\ LostInv'
        BY <1>1, <1>4, ReturnType, OpsDiffer DEF Fits, IInv, TypeInv, TypeOK
  <2>2. MessageInv'
    <3>1. \A l \in Rounds, r \in Requests : read'[Listen(l)] = r <=> read[Listen(l)] = r
          BY <1>1, <1>4, OpsDiffer DEF Put, IInv, TypeInv, TypeOK
    <3>q. QED BY <1>1, <1>3, <1>4, <3>1, MessagesStay DEF IInv
  <2>3. SerialInv'
    <3>1. \A r \in Requests : stage'[Ask(r)] = "idle" <=> stage[Ask(r)] = "idle"
          BY <1>4, OpsDiffer DEF Put, IInv, TypeInv, TypeOK
    <3>q. QED BY <1>1, <1>3, <3>1, SerialStays DEF IInv
  <2>q. QED BY <2>1, <2>2, <2>3 DEF IInv
<1>5. ASSUME NEW q \in Requesters, requests[q] # <<>>,
             Put(o, "got", Head(requests[q])),
             requests' = [requests EXCEPT ![q] = Tail(@)]
      PROVE  IInv'
  <2> DEFINE m == Head(requests[q])
  <2>1. /\ m \in Requests /\ Occurs(m, requests[q]) /\ Once(Tail(requests[q]))
        /\ Tail(requests[q]) \in Seq(Requests)
        /\ Len(Tail(requests[q])) = Len(requests[q]) - 1
        /\ \A r : Occurs(r, Tail(requests[q])) <=> (Occurs(r, requests[q]) /\ r # m)
        BY <1>5, TailOccurs DEF IInv, TypeInv, TypeOK, MessageInv, PipeInv
  <2>2. m # Null /\ Fits(o, m)
        BY <2>1, SignalsAssumption, OpsDiffer DEF Fits, Messages
  <2>3. TypeInv' /\ LostInv'
    <3>1. /\ stage' \in [Ops -> {"idle", "poll", "asked", "got", "done"}]
          /\ read' \in [Ops -> Messages \cup {Null, Sent, Failed}]
          /\ LoopInv' /\ OrderInv' /\ ListenInv' /\ LostInv'
          BY <1>1, <1>5, <2>2, ReturnType
    <3>2. /\ requests' \in [Requesters -> Seq(Requests)]
          /\ \A p \in Requesters : Len(requests'[p]) <= RequestMark
      <4>1. Len(requests[q]) \in Nat
            BY LenProperties DEF IInv, TypeInv, TypeOK
      <4>q. QED BY <1>5, <2>1, <4>1, MessagingAssumption DEF IInv, TypeInv, TypeOK
    <3>q. QED BY <1>1, <3>1, <3>2 DEF IInv, TypeInv, TypeOK
  <2>4. /\ Owner[m] = q /\ Delivered(m) /\ m \notin Looked /\ m \notin lost
        /\ \A l \in Rounds : ~HasRequest(l, m)
        BY <2>1 DEF IInv, MessageInv, PipeInv
  <2>5. \A l \in Rounds, r \in Requests :
          HasRequest(l, r)' <=> (HasRequest(l, r) \/ (l = k /\ r = m))
    <3>1. \A r \in Requests : r # Null
          BY SignalsAssumption DEF Messages
    <3>q. QED BY <1>1, <1>5, <3>1, OpsDiffer
          DEF HasRequest, Put, IInv, TypeInv, TypeOK
  <2>6. \A p \in Requesters, r \in Requests :
          Occurs(r, requests'[p]) <=> (Occurs(r, requests[p]) /\ ~(p = q /\ r = m))
        BY <1>5, <2>1 DEF IInv, TypeInv, TypeOK
  <2>7. PipeInv'
    <3>1. \A p \in Requesters : Once(requests'[p])
          BY <1>5, <2>1 DEF IInv, TypeInv, TypeOK, MessageInv, PipeInv
    <3>2. \A p \in Requesters, r \in Requests : Occurs(r, requests[p]) => Owner[r] = p
          BY DEF IInv, MessageInv, PipeInv
    <3>3. \A a \in Answers : a.of \in Requests
          BY DEF Answers
    <3>q. QED BY <1>1, <1>2, <1>3, <2>4, <2>5, <2>6, <3>1, <3>2, <3>3
          DEF IInv, MessageInv, PipeInv
  <2>8. HoldInv'
    <3>1. result[o] # m
          BY <2>4, <1>1 DEF HasRequest
    <3>2. \A a \in Answers : a.of \in Requests
          BY DEF Answers
    <3>q. QED BY <1>1, <1>2, <1>3, <2>4, <2>5, <3>1, <3>2 DEF IInv, MessageInv, HoldInv
  <2>9. EndInv'
    <3>1. \A r \in Requests : Owner[r] \in Requesters
          BY Constants DEF IInv, TypeInv, TypeOK
    <3>2. \A r \in Requests :
            (Occurs(r, requests[Owner[r]]) \/ \E l \in Rounds : HasRequest(l, r))
            => (Occurs(r, requests'[Owner[r]]) \/ \E l \in Rounds : HasRequest(l, r)')
          BY <2>5, <2>6, <3>1
    <3>q. QED BY <1>1, <1>2, <1>3, <2>1, <3>2 DEF IInv, MessageInv, EndInv
  <2>10. SerialInv'
    <3>1. \A r \in Requests : stage'[Ask(r)] = "idle" <=> stage[Ask(r)] = "idle"
          BY <1>5, OpsDiffer DEF Put, IInv, TypeInv, TypeOK
    <3>q. QED BY <1>1, <1>3, <3>1, SerialStays DEF IInv
  <2>q. QED BY <2>3, <2>7, <2>8, <2>9, <2>10 DEF IInv, MessageInv
<1>q. QED BY <1>4, <1>5, ListenReceives DEF IInv, TypeInv

LEMMA AwaitStep ==
  ASSUME IInv, NEW r \in Requests, recv(Await(r))
  PROVE  IInv'
<1> DEFINE o == Await(r)  q == Owner[r]
<1> USE DEF Rest, replier, client
<1>1. /\ stage[o] = "asked" /\ read[o] = Null /\ result[o] = Unset /\ o \in Ops
      /\ UNCHANGED <<Rest, requests, faults>> /\ q \in Requesters
      BY AwaitReceives, OpsDiffer, Constants DEF IInv, TypeInv, TypeOK, LoopInv
<1>2. /\ Owner' = Owner /\ pattern' = pattern /\ Looked' = Looked
      /\ \A s \in Requests : Frames(s)' = Frames(s)
      BY <1>1 DEF Owner, pattern, Looked, What, Frames
<1>3. /\ \A s \in Requests : /\ Delivered(s)' <=> Delivered(s)
                             /\ Answered(s)' <=> Answered(s)
      /\ \A k \in Rounds : read'[Listen(k)] = read[Listen(k)]
      /\ \A k \in Rounds : \A s : HasRequest(k, s)' <=> HasRequest(k, s)
      BY <1>1, AwaitReceives, OpsDiffer
      DEF Put, Delivered, Answered, HasRequest, IInv, TypeInv, TypeOK
<1>4. CASE Put(o, "poll", Null) /\ UNCHANGED answers
  <2>1. TypeInv' /\ LostInv'
    <3>1. Fits(o, Null)
          BY OpsDiffer DEF Fits
    <3>2. /\ stage' \in [Ops -> {"idle", "poll", "asked", "got", "done"}]
          /\ read' \in [Ops -> Messages \cup {Null, Sent, Failed}]
          /\ LoopInv' /\ OrderInv' /\ ListenInv' /\ LostInv'
          BY <1>1, <1>4, <3>1, ReturnType
    <3>q. QED BY <1>1, <1>4, <3>2 DEF IInv, TypeInv, TypeOK
  <2>2. \A s \in Requests, a \in Answers : HasAnswer(s, a)' <=> HasAnswer(s, a)
        BY <1>1, <1>4, OpsDiffer DEF Put, HasAnswer, IInv, TypeInv, TypeOK
  <2>3. MessageInv'
        BY <1>1, <1>3, <1>4, <2>2, MessagesStay DEF IInv
  <2>4. SerialInv'
    <3>1. \A s \in Requests : stage'[Ask(s)] = "idle" <=> stage[Ask(s)] = "idle"
          BY <1>4, OpsDiffer DEF Put, IInv, TypeInv, TypeOK
    <3>q. QED BY <1>1, <1>4, <2>2, <3>1, SerialStays DEF IInv
  <2>q. QED BY <2>1, <2>3, <2>4 DEF IInv
<1>5. CASE /\ answers[q] # <<>>
           /\ Put(o, "got", Head(answers[q]))
           /\ answers' = [answers EXCEPT ![q] = Tail(@)]
  <2> DEFINE m == Head(answers[q])
  <2>1. /\ m \in Answers /\ Occurs(m, answers[q]) /\ Once(Tail(answers[q]))
        /\ Tail(answers[q]) \in Seq(Answers)
        /\ Len(Tail(answers[q])) = Len(answers[q]) - 1
        /\ \A a : Occurs(a, Tail(answers[q])) <=> (Occurs(a, answers[q]) /\ a # m)
        BY <1>1, <1>5, TailOccurs DEF IInv, TypeInv, TypeOK, MessageInv, PipeInv
  <2>2. m # Null /\ Fits(o, m)
        BY <2>1, SignalsAssumption, OpsDiffer DEF Fits, Messages
  <2>3. TypeInv' /\ LostInv'
    <3>1. /\ stage' \in [Ops -> {"idle", "poll", "asked", "got", "done"}]
          /\ read' \in [Ops -> Messages \cup {Null, Sent, Failed}]
          /\ LoopInv' /\ OrderInv' /\ ListenInv' /\ LostInv'
          BY <1>1, <1>5, <2>2, ReturnType
    <3>2. /\ answers' \in [Requesters -> Seq(Answers)]
          /\ \A p \in Requesters : Len(answers'[p]) <= ResponseMark
      <4>1. Len(answers[q]) \in Nat
            BY <1>1, LenProperties DEF IInv, TypeInv, TypeOK
      <4>q. QED BY <1>1, <1>5, <2>1, <4>1, MessagingAssumption DEF IInv, TypeInv, TypeOK
    <3>q. QED BY <1>1, <3>1, <3>2 DEF IInv, TypeInv, TypeOK
  <2>4. /\ m = Frames(m.of) /\ Owner[m.of] = q /\ Answered(m.of)
        /\ \A s \in Requests : ~HasAnswer(s, m)
        BY <1>1, <2>1 DEF IInv, MessageInv, PipeInv
  <2>5. \A s \in Requests, a \in Answers :
          HasAnswer(s, a)' <=> (HasAnswer(s, a) \/ (s = r /\ a = m))
    <3>1. \A a \in Answers : a # Null
          BY SignalsAssumption DEF Messages
    <3>q. QED BY <1>1, <1>5, <3>1, OpsDiffer DEF HasAnswer, Put, IInv, TypeInv, TypeOK
  <2>6. \A p \in Requesters, a \in Answers :
          Occurs(a, answers'[p]) <=> (Occurs(a, answers[p]) /\ ~(p = q /\ a = m))
        BY <1>1, <1>5, <2>1 DEF IInv, TypeInv, TypeOK
  <2>7. PipeInv'
    <3>1. \A p \in Requesters : Once(answers'[p])
          BY <1>1, <1>5, <2>1 DEF IInv, TypeInv, TypeOK, MessageInv, PipeInv
    <3>2. \A p \in Requesters, a \in Answers : Occurs(a, answers[p]) => Owner[a.of] = p
          BY DEF IInv, MessageInv, PipeInv
    <3>3. \A a \in Answers : a.of \in Requests
          BY DEF Answers
    <3>q. QED BY <1>1, <1>2, <1>3, <2>4, <2>5, <2>6, <3>1, <3>2, <3>3
          DEF IInv, MessageInv, PipeInv
  <2>8. HoldInv'
    <3>1. \A a \in Answers : a.of \in Requests
          BY DEF Answers
    <3>2. \A a \in Answers : HasAnswer(r, a) => FALSE
          BY <1>1, SignalsAssumption DEF HasAnswer, Messages
    <3>q. QED BY <1>1, <1>2, <1>3, <2>1, <2>4, <2>5, <3>1, <3>2
          DEF IInv, MessageInv, HoldInv
  <2>9. EndInv'
        BY <1>1, <1>2, <1>3 DEF IInv, MessageInv, EndInv
  <2>10. SerialInv'
    <3>1. \A s \in Requests : stage'[Ask(s)] = "idle" <=> stage[Ask(s)] = "idle"
          BY <1>5, OpsDiffer DEF Put, IInv, TypeInv, TypeOK
    <3>2. /\ \A p : Requested(p)' = Requested(p)
          /\ \A p : Unanswered(p)' = Unanswered(p)
          BY <1>1, <1>2, <3>1 DEF Unanswered, Requested
    <3>3. \A s \in Requests, a \in Answers : outcome[s] = a => outcome[s] \in Answers
          OBVIOUS
    <3>4. \A p : \A s \in Requested(p) : s \in Requests /\ Owner[s] = p
          BY DEF Requested
    <3>q. QED BY <1>1, <1>2, <2>1, <2>5, <2>6, <3>2, <3>4 DEF IInv, SerialInv
  <2>q. QED BY <2>3, <2>7, <2>8, <2>9, <2>10 DEF IInv, MessageInv
<1>q. QED BY <1>4, <1>5, AwaitReceives DEF IInv, TypeInv

LEMMA AskStep ==
  ASSUME IInv, NEW r \in Requests, send(Ask(r))
  PROVE  IInv'
<1> DEFINE o == Ask(r)  q == Owner[r]
<1> USE DEF Rest, replier, client
<1>1. /\ stage[o] = "asked" /\ read[o] = Null /\ result[o] = Unset /\ o \in Ops
      /\ UNCHANGED <<Rest, answers, faults>> /\ q \in Requesters
      BY AskSends, OpsDiffer, Constants DEF IInv, TypeInv, TypeOK, LoopInv
<1>2. /\ Owner' = Owner /\ pattern' = pattern /\ Looked' = Looked
      /\ \A s \in Requests : Frames(s)' = Frames(s)
      BY <1>1 DEF Owner, pattern, Looked, What, Frames
<1>3. /\ \A s \in Requests : /\ s # r => (Delivered(s)' <=> Delivered(s))
                             /\ Answered(s)' <=> Answered(s)
      /\ \A s \in Requests : stage'[Ask(s)] = "idle" <=> stage[Ask(s)] = "idle"
      /\ \A k \in Rounds : read'[Listen(k)] = read[Listen(k)]
      /\ \A k \in Rounds : \A s : HasRequest(k, s)' <=> HasRequest(k, s)
      /\ \A s \in Requests : \A a : HasAnswer(s, a)' <=> HasAnswer(s, a)
  <2>1. \E where, value : Put(o, where, value)
        BY AskSends DEF IInv, TypeInv
  <2>2. /\ \A p \in Ops \ {o} : stage'[p] = stage[p] /\ read'[p] = read[p]
        /\ result' = result /\ stage'[o] # "idle"
        BY <1>1, AskSends, <2>1 DEF Put, IInv, TypeInv, TypeOK
  <2>q. QED BY <1>1, <2>2, OpsDiffer DEF Delivered, Answered, HasRequest, HasAnswer
<1>4. ~Delivered(r)
      BY <1>1, SignalsAssumption DEF Delivered
<1>5. SerialInv'
      BY <1>1, <1>3, SerialStays DEF IInv
<1>6. ASSUME NEW value \in {Null, Sent},
             Put(o, IF value = Null THEN "poll" ELSE "got", value)
      PROVE  /\ stage' \in [Ops -> {"idle", "poll", "asked", "got", "done"}]
             /\ read' \in [Ops -> Messages \cup {Null, Sent, Failed}]
             /\ LoopInv' /\ OrderInv' /\ ListenInv' /\ LostInv'
  <2>1. Fits(o, value)
        BY OpsDiffer DEF Fits
  <2>q. QED BY <1>1, <1>6, <2>1, ReturnType
<1>7. Sent # Null
      BY SignalsAssumption
<1>8. CASE /\ \/ Put(o, "poll", Null)
              \/ pattern = "publish" /\ Put(o, "got", Sent)
           /\ UNCHANGED requests
  <2>1. TypeInv' /\ LostInv'
        BY <1>1, <1>6, <1>7, <1>8 DEF IInv, TypeInv, TypeOK
  <2>2. pattern = "reply" => ~Delivered(r)'
        BY <1>1, <1>7, <1>8, SignalsAssumption DEF Put, Delivered, IInv, TypeInv, TypeOK
  <2>3. MessageInv'
        BY <1>1, <1>3, <1>4, <1>8, <2>2, MessagesStay DEF IInv
  <2>q. QED BY <1>5, <2>1, <2>3 DEF IInv
<1>9. CASE /\ Len(requests[q]) # RequestMark
           /\ Put(o, "got", Sent)
           /\ requests' = [requests EXCEPT ![q] = Append(@, r)]
  <2>1. /\ Append(requests[q], r) \in Seq(Requests)
        /\ Len(Append(requests[q], r)) = Len(requests[q]) + 1
        /\ ~Occurs(r, requests[q]) => Once(Append(requests[q], r))
        /\ \A s : Occurs(s, Append(requests[q], r)) <=> (Occurs(s, requests[q]) \/ s = r)
        BY <1>1, AppendOccurs DEF IInv, TypeInv, TypeOK, MessageInv, PipeInv
  <2>2. TypeInv' /\ LostInv'
    <3>1. /\ stage' \in [Ops -> {"idle", "poll", "asked", "got", "done"}]
          /\ read' \in [Ops -> Messages \cup {Null, Sent, Failed}]
          /\ LoopInv' /\ OrderInv' /\ ListenInv' /\ LostInv'
          BY <1>6, <1>7, <1>9
    <3>2. /\ requests' \in [Requesters -> Seq(Requests)]
          /\ \A p \in Requesters : Len(requests'[p]) <= RequestMark
      <4>1. Len(requests[q]) \in Nat
            BY <1>1, LenProperties DEF IInv, TypeInv, TypeOK
      <4>q. QED BY <1>1, <1>9, <2>1, <4>1, MessagingAssumption DEF IInv, TypeInv, TypeOK
    <3>q. QED BY <1>1, <3>1, <3>2 DEF IInv, TypeInv, TypeOK
  <2>3. Delivered(r)'
        BY <1>1, <1>9 DEF Put, Delivered, IInv, TypeInv, TypeOK
  <2>4. \A p \in Requesters, s \in Requests :
          Occurs(s, requests'[p]) <=> (Occurs(s, requests[p]) \/ (p = q /\ s = r))
        BY <1>1, <1>9, <2>1 DEF IInv, TypeInv, TypeOK
  <2>5. /\ r \notin Looked /\ r \notin lost
        /\ \A k \in Rounds : ~HasRequest(k, r)
        /\ \A p \in Requesters : ~Occurs(r, requests[p])
        BY <1>4 DEF IInv, MessageInv, PipeInv, HoldInv, EndInv
  <2>6. PipeInv'
    <3>1. \A p \in Requesters : Once(requests'[p])
          BY <1>1, <1>9, <2>1, <2>5 DEF IInv, TypeInv, TypeOK, MessageInv, PipeInv
    <3>2. \A a \in Answers : a.of \in Requests
          BY DEF Answers
    <3>q. QED BY <1>1, <1>2, <1>3, <2>3, <2>4, <2>5, <3>1, <3>2
          DEF IInv, MessageInv, PipeInv
  <2>7. HoldInv'
    <3>1. \A a \in Answers : a.of \in Requests
          BY DEF Answers
    <3>q. QED BY <1>1, <1>2, <1>3, <2>3, <3>1 DEF IInv, MessageInv, HoldInv
  <2>8. EndInv'
    <3>1. \A s \in Requests : Owner[s] \in Requesters
          BY Constants DEF IInv, TypeInv, TypeOK
    <3>q. QED BY <1>1, <1>2, <1>3, <2>3, <2>4, <3>1 DEF IInv, MessageInv, EndInv
  <2>q. QED BY <1>5, <2>2, <2>6, <2>7, <2>8 DEF IInv, MessageInv
<1>q. QED BY <1>1, <1>8, <1>9, AskSends DEF IInv, TypeInv

LEMMA AnswerStep ==
  ASSUME IInv, NEW r \in Requests, send(Answer(r))
  PROVE  IInv'
<1> DEFINE o == Answer(r)  q == Owner[r]  m == Frames(r)
<1> USE DEF Rest, replier, client
<1>1. /\ stage[o] = "asked" /\ read[o] = Null /\ result[o] = Unset /\ o \in Ops
      /\ UNCHANGED <<Rest, requests, faults>> /\ q \in Requesters
      /\ Put(o, "got", Sent) /\ Sent # Null
      /\ r \in handled /\ r \in handling /\ pattern = "reply"
  <2>1. /\ o \in Ops /\ q \in Requesters /\ Sent # Null
        BY OpsDiffer, Constants, SignalsAssumption DEF IInv, TypeInv, TypeOK
  <2>2. /\ stage[o] = "asked" /\ UNCHANGED <<Rest, requests, faults>>
        /\ Put(o, "got", Sent)
        BY AnswerSends DEF IInv, TypeInv
  <2>q. QED BY <2>1, <2>2 DEF IInv, TypeInv, LoopInv, OrderInv
<1>2. /\ Owner' = Owner /\ pattern' = pattern /\ Looked' = Looked
      /\ \A s \in Requests : Frames(s)' = Frames(s)
      BY <1>1 DEF Owner, pattern, Looked, What, Frames
<1>3. /\ \A s \in Requests : /\ Delivered(s)' <=> Delivered(s)
                             /\ s # r => (Answered(s)' <=> Answered(s))
      /\ Answered(r)' /\ ~Answered(r)
      /\ \A s \in Requests : stage'[Ask(s)] = "idle" <=> stage[Ask(s)] = "idle"
      /\ \A k \in Rounds : read'[Listen(k)] = read[Listen(k)]
      /\ \A k \in Rounds : \A s : HasRequest(k, s)' <=> HasRequest(k, s)
      /\ \A s \in Requests : \A a : HasAnswer(s, a)' <=> HasAnswer(s, a)
  <2>1. /\ \A p \in Ops \ {o} : stage'[p] = stage[p] /\ read'[p] = read[p]
        /\ read'[o] = Sent /\ result' = result
        BY <1>1 DEF Put, IInv, TypeInv, TypeOK
  <2>2. ~Answered(r)
        BY <1>1, SignalsAssumption DEF Answered
  <2>q. QED BY <2>1, <2>2, OpsDiffer DEF Delivered, Answered, HasRequest, HasAnswer
<1>4. /\ stage' \in [Ops -> {"idle", "poll", "asked", "got", "done"}]
      /\ read' \in [Ops -> Messages \cup {Null, Sent, Failed}]
      /\ LoopInv' /\ OrderInv' /\ ListenInv' /\ LostInv'
  <2>1. Fits(o, Sent)
        BY OpsDiffer DEF Fits
  <2>q. QED BY <1>1, <2>1, ReturnType
<1>5. CASE UNCHANGED answers
  <2>1. TypeInv'
        BY <1>1, <1>4, <1>5 DEF IInv, TypeInv, TypeOK
  <2>2. MessageInv'
        BY <1>1, <1>3, <1>5, MessagesStay DEF IInv
  <2>3. SerialInv'
        BY <1>1, <1>3, <1>5, SerialStays DEF IInv
  <2>q. QED BY <1>4, <2>1, <2>2, <2>3 DEF IInv
<1>6. CASE /\ Len(answers[q]) # ResponseMark
           /\ answers' = [answers EXCEPT ![q] = Append(@, m)]
  <2>1. /\ m \in Answers /\ m.of = r
        /\ Append(answers[q], m) \in Seq(Answers)
        /\ Len(Append(answers[q], m)) = Len(answers[q]) + 1
        /\ ~Occurs(m, answers[q]) => Once(Append(answers[q], m))
        /\ \A a : Occurs(a, Append(answers[q], m)) <=> (Occurs(a, answers[q]) \/ a = m)
    <3>1. m \in Answers /\ m.of = r
          BY Constants DEF IInv, TypeInv, TypeOK
    <3>q. QED BY <1>1, <3>1, AppendOccurs DEF IInv, TypeInv, TypeOK, MessageInv, PipeInv
  <2>2. TypeInv'
    <3>1. /\ answers' \in [Requesters -> Seq(Answers)]
          /\ \A p \in Requesters : Len(answers'[p]) <= ResponseMark
      <4>1. Len(answers[q]) \in Nat
            BY <1>1, LenProperties DEF IInv, TypeInv, TypeOK
      <4>q. QED BY <1>1, <1>6, <2>1, <4>1, MessagingAssumption DEF IInv, TypeInv, TypeOK
    <3>q. QED BY <1>1, <1>4, <3>1 DEF IInv, TypeInv, TypeOK
  <2>3. \A p \in Requesters, a \in Answers :
          Occurs(a, answers'[p]) <=> (Occurs(a, answers[p]) \/ (p = q /\ a = m))
        BY <1>1, <1>6, <2>1 DEF IInv, TypeInv, TypeOK
  <2>4. /\ \A s \in Requests : ~HasAnswer(s, m)
        /\ \A p \in Requesters : ~Occurs(m, answers[p])
        BY <1>3, <2>1 DEF IInv, MessageInv, PipeInv, HoldInv
  <2>5. PipeInv'
    <3>1. \A p \in Requesters : Once(answers'[p])
          BY <1>1, <1>6, <2>1, <2>4 DEF IInv, TypeInv, TypeOK, MessageInv, PipeInv
    <3>2. \A a \in Answers : a.of \in Requests
          BY DEF Answers
    <3>q. QED BY <1>1, <1>2, <1>3, <2>1, <2>3, <2>4, <3>1, <3>2
          DEF IInv, MessageInv, PipeInv
  <2>6. HoldInv'
    <3>1. \A a \in Answers : a.of \in Requests
          BY DEF Answers
    <3>q. QED BY <1>1, <1>2, <1>3, <3>1 DEF IInv, MessageInv, HoldInv
  <2>7. EndInv'
        BY <1>1, <1>2, <1>3 DEF IInv, MessageInv, EndInv
  <2>8. SerialInv'
    <3>1. /\ \A p : Requested(p)' = Requested(p)
          /\ \A p : Unanswered(p)' = Unanswered(p)
          BY <1>1, <1>2, <1>3 DEF Unanswered, Requested
    <3>2. stage[Ask(r)] # "idle"
      <4>1. Delivered(r)
            BY <1>1 DEF IInv, MessageInv, EndInv, Looked
      <4>q. QED BY <4>1, OpsDiffer, SignalsAssumption
            DEF Delivered, IInv, TypeInv, LoopInv
    <3>3. q \notin hasty => r \in Unanswered(q)
      <4>1. ASSUME q \notin hasty, outcome[r] \in Answers PROVE FALSE
        <5>1. outcome[r].of = r
              BY <1>1, <4>1 DEF IInv, SerialInv, Requested
        <5>2. HasAnswer(r, outcome[r])
              BY <4>1 DEF HasAnswer, IInv, TypeInv, OrderInv
        <5>q. QED BY <1>3, <4>1, <5>1, <5>2 DEF IInv, MessageInv, HoldInv
      <4>q. QED BY <3>2, <4>1 DEF Unanswered, Requested
    <3>4. \A p \in Requesters \ hasty, a \in Answers :
            Occurs(a, answers'[p]) => a.of \in Unanswered(p)
      <4>1. \A p \in Requesters \ hasty, a \in Answers :
              Occurs(a, answers[p]) => a.of \in Unanswered(p)
            BY <1>1 DEF IInv, SerialInv
      <4>q. QED BY <2>1, <2>3, <3>3, <4>1
    <3>5. \A p : \A s \in Requested(p) : s \in Requests
          BY DEF Requested
    <3>q. QED BY <1>1, <1>2, <1>3, <3>1, <3>4, <3>5 DEF IInv, SerialInv
  <2>q. QED BY <1>4, <2>2, <2>5, <2>6, <2>7, <2>8 DEF IInv, MessageInv
<1>q. QED BY <1>5, <1>6, AnswerSends DEF IInv, TypeInv

LEMMA ThrowStep ==
  ASSUME IInv, NEW o \in Ops, Throw(o)
  PROVE  IInv'
<1> USE DEF Rest, replier, client
<1>1. /\ stage[o] = "asked" /\ read[o] = Null
      /\ UNCHANGED <<Rest, requests, answers>>
      /\ Put(o, "got", Failed) /\ Failed # Null
      /\ faults < MaxFaults /\ faults' = faults + 1
      BY OpThrows, SignalsAssumption DEF IInv, TypeInv, LoopInv
<1>2. TypeInv' /\ LostInv'
  <2>1. Fits(o, Failed)
        BY DEF Fits
  <2>2. /\ stage' \in [Ops -> {"idle", "poll", "asked", "got", "done"}]
        /\ read' \in [Ops -> Messages \cup {Null, Sent, Failed}]
        /\ LoopInv' /\ OrderInv' /\ ListenInv' /\ LostInv'
        BY <1>1, <2>1, ReturnType
  <2>3. faults' \in 0 .. MaxFaults
        BY <1>1, MessagingAssumption DEF IInv, TypeInv, TypeOK
  <2>q. QED BY <1>1, <2>2, <2>3 DEF IInv, TypeInv, TypeOK
<1>3. /\ \A p \in Ops \ {o} : stage'[p] = stage[p] /\ read'[p] = read[p]
      /\ read'[o] = Failed /\ stage'[o] = "got"
      BY <1>1 DEF Put, IInv, TypeInv, TypeOK
<1>4. \A m \in Messages \cup {Sent} : \A p \in Ops : read'[p] = m <=> read[p] = m
      BY <1>1, <1>3, SignalsAssumption
<1>5. \A s \in Requests, a \in Answers : HasAnswer(s, a)' <=> HasAnswer(s, a)
      BY <1>1, <1>4, OpsDiffer DEF HasAnswer, Messages
<1>6. MessageInv'
  <2>1. \A s \in Requests : (Delivered(s)' <=> Delivered(s)) /\ (Answered(s)' <=> Answered(s))
        BY <1>1, <1>4, OpsDiffer DEF Delivered, Answered
  <2>2. \A k \in Rounds, s \in Requests : read'[Listen(k)] = s <=> read[Listen(k)] = s
        BY <1>4, OpsDiffer DEF Messages
  <2>q. QED BY <1>1, <1>5, <2>1, <2>2, MessagesStay DEF IInv
<1>7. SerialInv'
  <2>1. \A s \in Requests : stage'[Ask(s)] = "idle" <=> stage[Ask(s)] = "idle"
        BY <1>1, <1>3, OpsDiffer
  <2>q. QED BY <1>1, <1>5, <2>1, SerialStays DEF IInv
<1>q. QED BY <1>2, <1>6, <1>7 DEF IInv

\* The callback of a loop that has a message for a promise that was set before:
\* the message is lost, as long as the loop is that of a recv of the listener.
LEMMA CallbackStep ==
  ASSUME IInv, NEW o \in Ops, Callback(o)
  PROVE  IInv'
<1> USE DEF replier, client, sockets
<1>1. /\ stage[o] = "got" /\ read[o] # Null
      /\ \A p \in Ops \ {o} : /\ stage'[p] = stage[p] /\ read'[p] = read[p]
                              /\ result'[p] = result[p]
      /\ stage'[o] = "done" /\ read'[o] = Null
      /\ result'[o] = (IF result[o] = Unset THEN read[o] ELSE result[o])
      /\ lost' = IF result[o] = Unset THEN lost ELSE lost \cup ({read[o]} \cap Requests)
      /\ UNCHANGED <<setup, requests, answers, faults, listener, round, relisten,
                     taken, handling, handled, rejected, outcome, hasty>>
      BY DEF Callback, IInv, TypeInv, TypeOK, LoopInv
<1>2. /\ Owner' = Owner /\ pattern' = pattern /\ Looked' = Looked
      /\ \A s \in Requests : Frames(s)' = Frames(s)
      BY <1>1 DEF Owner, pattern, Looked, What, Frames
<1>3. read[o] \in Messages \cup {Sent, Failed} /\ read[o] # Unset /\ result'[o] # Unset
      BY <1>1, SignalsAssumption DEF IInv, TypeInv, TypeOK
<1>4. /\ stage' \in [Ops -> {"idle", "poll", "asked", "got", "done"}]
      /\ read' \in [Ops -> Messages \cup {Null, Sent, Failed}]
      /\ result' \in [Ops -> Messages \cup {Unset, Sent, Stopped, Failed}]
      /\ lost' \subseteq Requests
      BY <1>3 DEF Callback, IInv, TypeInv, TypeOK
<1>5. TypeOK'
      BY <1>1, <1>4 DEF IInv, TypeInv, TypeOK
<1>6. LoopInv'
  <2>1. \A p \in Ops : /\ stage'[p] = "got" <=> read'[p] # Null
                       /\ stage'[p] = "done" => result'[p] # Unset
                       /\ stage'[p] = "idle" => result'[p] = Unset
                       /\ result'[p] \notin {Unset, Stopped, Failed} => stage'[p] = "done"
        BY <1>1, <1>3 DEF IInv, TypeInv, LoopInv
  <2>2. ASSUME NEW r \in Requests
        PROVE  /\ \A p \in {Ask(r), Answer(r)} : /\ read'[p] \in {Null, Sent, Failed}
                                                 /\ result'[p] \in {Unset, Sent, Failed}
               /\ read'[Await(r)] \in Answers \cup {Null, Failed}
               /\ result'[Await(r)] \in Answers \cup {Unset, Failed}
               /\ \A p \in {Ask(r), Await(r), Answer(r)} :
                    result'[p] # Unset => stage'[p] = "done"
        BY <1>1, OpsDiffer DEF IInv, TypeInv, LoopInv
  <2>3. \A k \in Rounds : /\ read'[Listen(k)] \in Requests \cup {Null, Failed}
                          /\ result'[Listen(k)] \in Requests \cup {Unset, Stopped, Failed}
        BY <1>1, OpsDiffer DEF IInv, TypeInv, LoopInv
  <2>q. QED BY <2>1, <2>2, <2>3 DEF LoopInv
<1>7. OrderInv' /\ ListenInv'
      BY <1>1, OrderStays DEF IInv
<1>8. \A r \in Requests : stage'[Ask(r)] = "idle" <=> stage[Ask(r)] = "idle"
      BY <1>1, OpsDiffer
<1>9. CASE result[o] = Unset
  <2>1. lost' = lost
        BY <1>1, <1>9
  <2>2. \A m \in Messages \cup {Sent}, p \in Ops :
          m \in {read'[p], result'[p]} <=> m \in {read[p], result[p]}
        BY <1>1, <1>9, SignalsAssumption
  <2>3. /\ \A s \in Requests : (Delivered(s)' <=> Delivered(s)) /\ (Answered(s)' <=> Answered(s))
        /\ \A k \in Rounds, s \in Requests : HasRequest(k, s)' <=> HasRequest(k, s)
        /\ \A s \in Requests, a \in Answers : HasAnswer(s, a)' <=> HasAnswer(s, a)
        BY <2>2, OpsDiffer DEF Delivered, Answered, HasRequest, HasAnswer, Messages
  <2>4. LostInv'
    <3>1. round > 0 => Listen(round) \in Ops
          BY RoundsAreCounted, OpsDiffer DEF IInv, TypeInv, TypeOK
    <3>q. QED BY <1>1, <2>1, <3>1 DEF IInv, LostInv
  <2>5. PipeInv'
    <3>1. \A a \in Answers : a.of \in Requests
          BY DEF Answers
    <3>q. QED BY <1>1, <1>2, <2>1, <2>3, <3>1 DEF IInv, MessageInv, PipeInv
  <2>6. \A k \in Rounds : k \in taken => result'[Listen(k)] = result[Listen(k)]
        BY <1>1, <1>9, OpsDiffer DEF IInv, TypeInv, ListenInv
  <2>7. HoldInv'
    <3>1. \A a \in Answers : a.of \in Requests
          BY DEF Answers
    <3>q. QED BY <1>1, <1>2, <2>1, <2>3, <2>6, <3>1 DEF IInv, MessageInv, HoldInv
  <2>8. EndInv'
        BY <1>1, <1>2, <2>1, <2>3, <2>6 DEF IInv, MessageInv, EndInv
  <2>9. SerialInv'
        BY <1>1, <1>8, <2>3, SerialStays DEF IInv
  <2>q. QED BY <1>5, <1>6, <1>7, <2>4, <2>5, <2>7, <2>8, <2>9 DEF IInv, TypeInv, MessageInv
<1>10. CASE result[o] # Unset
  <2>1. PICK k \in Rounds : o = Listen(k)
        BY <1>1, <1>10, OpCases DEF IInv, TypeInv, LoopInv
  <2>2. /\ result' = result /\ result[o] \in {Stopped, Failed} /\ listener # Unset
        /\ k = round /\ relisten = 0 /\ read[o] \in Requests \cup {Failed}
    <3>1. result[o] \in {Stopped, Failed} /\ read[o] \in Requests \cup {Failed}
          BY <1>1, <1>10, <2>1 DEF IInv, TypeInv, LoopInv
    <3>2. result[Listen(k)] \notin Requests
          BY <2>1, <3>1, SignalsAssumption DEF Messages
    <3>3. k \in Nat /\ round \in Nat /\ relisten \in {0, 1}
          BY RoundsAreCounted DEF IInv, TypeInv, TypeOK
    <3>4. listener # Unset /\ k = round /\ relisten = 0
          BY <1>1, <1>10, <2>1, <3>2, <3>3 DEF IInv, TypeInv, ListenInv
    <3>5. result' = result
          BY <1>1, <1>10 DEF Callback, IInv, TypeInv, TypeOK
    <3>q. QED BY <3>1, <3>4, <3>5
  <2>3. lost = {}
        BY <1>1, <2>1, <2>2 DEF IInv, LostInv
  <2>4. k > 0
        BY RoundsAreCounted
  <2>5. /\ \A s \in Requests : (Delivered(s)' <=> Delivered(s)) /\ (Answered(s)' <=> Answered(s))
        /\ \A s \in Requests, a \in Answers : HasAnswer(s, a)' <=> HasAnswer(s, a)
        BY <1>1, <2>1, <2>2, OpsDiffer DEF Delivered, Answered, HasAnswer
  <2>6. \A l \in Rounds, s \in Requests :
          HasRequest(l, s)' <=> (HasRequest(l, s) /\ ~(l = k /\ s = read[o]))
    <3>1. \A s \in Requests : s \notin {Null, Failed, Stopped}
          BY SignalsAssumption DEF Messages
    <3>q. QED BY <1>1, <2>1, <2>2, <3>1, OpsDiffer DEF HasRequest
  <2>7. SerialInv'
        BY <1>1, <1>8, <2>5, SerialStays DEF IInv
  <2>8. LostInv'
    <3>1. result[Listen(round)] \notin Requests
          BY <2>1, <2>2, SignalsAssumption DEF Messages
    <3>2. lost' # {} => lost' = {read[o]} /\ read[o] \in Requests
          BY <1>1, <1>10, <2>3
    <3>q. QED BY <1>1, <2>1, <2>2, <2>4, <3>1, <3>2 DEF LostInv
  <2>9. CASE read[o] = Failed
    <3>1. lost' = lost
          BY <1>1, <2>9, SignalsAssumption DEF Messages
    <3>2. \A l \in Rounds, s \in Requests : read'[Listen(l)] = s <=> read[Listen(l)] = s
          BY <1>1, <2>1, <2>9, OpsDiffer, SignalsAssumption DEF Messages
    <3>q. QED BY <1>1, <1>5, <1>6, <1>7, <2>2, <2>5, <2>7, <2>8, <3>1, <3>2, MessagesStay
          DEF IInv, TypeInv
  <2>10. CASE read[o] \in Requests
    <3> DEFINE m == read[o]
    <3>1. lost' = {m} /\ HasRequest(k, m)
          BY <1>1, <1>10, <2>1, <2>3, <2>10 DEF HasRequest
    <3>2. /\ Delivered(m) /\ m \notin Looked
          /\ \A l \in Rounds : HasRequest(l, m) => l = k
      <4>1. result[Listen(k)] # m
            BY <2>1, <2>2, <2>10, SignalsAssumption DEF Messages
      <4>q. QED BY <2>10, <3>1, <4>1 DEF IInv, MessageInv, HoldInv
    <3>3. \A p \in Requesters : ~Occurs(m, requests[p])
          BY <2>10, <3>1 DEF IInv, MessageInv, PipeInv
    <3>4. PipeInv'
      <4>1. \A a \in Answers : a.of \in Requests
            BY DEF Answers
      <4>q. QED BY <1>1, <1>2, <2>5, <2>6, <3>1, <3>3, <4>1 DEF IInv, MessageInv, PipeInv
    <3>5. HoldInv'
      <4>1. \A a \in Answers : a.of \in Requests
            BY DEF Answers
      <4>q. QED BY <1>1, <1>2, <2>2, <2>5, <2>6, <3>1, <3>2, <4>1 DEF IInv, MessageInv, HoldInv
    <3>6. EndInv'
          BY <1>1, <1>2, <2>2, <2>3, <2>5, <2>6, <3>1, <3>2 DEF IInv, MessageInv, EndInv
    <3>q. QED BY <1>5, <1>6, <1>7, <2>7, <2>8, <3>4, <3>5, <3>6 DEF IInv, TypeInv, MessageInv
  <2>q. QED BY <2>2, <2>9, <2>10
<1>q. QED BY <1>9, <1>10

-----------------------------------------------------------------------------
(***************************************************************************)
(* Requesters and publishers.                                              *)
(***************************************************************************)

\* A loop that begins: its promise has no result and it has read nothing.
LEMMA LoopBegins ==
  ASSUME TypeOK, LoopInv, NEW o \in Ops, stage[o] = "idle",
         stage' = [stage EXCEPT ![o] = "poll"], UNCHANGED <<read, result>>
  PROVE  /\ LoopInv' /\ stage' \in [Ops -> {"idle", "poll", "asked", "got", "done"}]
         /\ \A p \in Ops \ {o} : stage'[p] = stage[p]
BY OpsDiffer DEF TypeOK, LoopInv

LEMMA MessagesRest ==
  ASSUME MessageInv,
         UNCHANGED <<setup, requests, answers, read, result, taken, handling, rejected, lost>>
  PROVE  /\ MessageInv'
         /\ Owner' = Owner /\ pattern' = pattern
         /\ \A s \in Requests, a \in Answers : HasAnswer(s, a)' <=> HasAnswer(s, a)
BY MessagesStay DEF HasAnswer, Delivered, Answered, Owner, pattern

LEMMA RequesterSendStep ==
  ASSUME IInv, NEW r \in Requests, RequesterSend(r)
  PROVE  IInv'
<1> DEFINE q == Owner[r]
<1> USE DEF sockets, replier, loops
<1>1. /\ pattern = "reply" /\ stage[Ask(r)] = "idle" /\ outcome[r] = Unset
      /\ UNCHANGED <<setup, sockets, read, result, replier, lost>>
      /\ \/ /\ outcome' = [outcome EXCEPT ![r] = Failed]
            /\ UNCHANGED <<stage, hasty>>
         \/ /\ stage' = [stage EXCEPT ![Ask(r)] = "poll"]
            /\ hasty' = IF Unanswered(q) = {} THEN hasty ELSE hasty \cup {q}
            /\ UNCHANGED outcome
      BY DEF RequesterSend
<1>2. q \in Requesters /\ Ask(r) \in Ops
      BY Constants, OpsDiffer DEF IInv, TypeInv, TypeOK
<1>3. /\ MessageInv' /\ Owner' = Owner /\ pattern' = pattern
      /\ \A s \in Requests, a \in Answers : HasAnswer(s, a)' <=> HasAnswer(s, a)
      BY <1>1, MessagesRest DEF IInv
<1>4. \A p : Requested(p)' = Requested(p) /\ Requested(p) \subseteq Requests
      BY <1>3 DEF Requested
<1>5. CASE /\ outcome' = [outcome EXCEPT ![r] = Failed]
           /\ UNCHANGED <<stage, hasty>>
  <2>1. Failed \notin Answers /\ Unset \notin Answers
        BY SignalsAssumption DEF Messages
  <2>2. TypeInv'
    <3>1. TypeOK' /\ LoopInv' /\ ListenInv'
          BY <1>1, <1>5 DEF IInv, TypeInv, TypeOK, LoopInv, ListenInv
    <3>2. OrderInv'
          BY <1>1, <1>3, <1>5, <2>1 DEF IInv, TypeInv, TypeOK, OrderInv
    <3>q. QED BY <3>1, <3>2 DEF TypeInv
  <2>3. LostInv'
        BY <1>1, <1>5 DEF IInv, LostInv
  <2>4. \A s \in Requests, a \in Answers :
          /\ outcome'[s] \in Answers <=> outcome[s] \in Answers
          /\ outcome'[s] = a <=> outcome[s] = a
        BY <1>1, <1>5, <2>1 DEF IInv, TypeInv, TypeOK
  <2>5. \A p : Unanswered(p)' = Unanswered(p)
        BY <1>4, <1>5, <2>4 DEF Unanswered
  <2>6. SerialInv'
        BY <1>1, <1>3, <1>4, <1>5, <2>4, <2>5 DEF IInv, SerialInv
  <2>q. QED BY <1>3, <2>2, <2>3, <2>6 DEF IInv
<1>6. CASE /\ stage' = [stage EXCEPT ![Ask(r)] = "poll"]
           /\ hasty' = IF Unanswered(q) = {} THEN hasty ELSE hasty \cup {q}
           /\ UNCHANGED outcome
  <2>1. /\ LoopInv' /\ stage' \in [Ops -> {"idle", "poll", "asked", "got", "done"}]
        /\ \A p \in Ops \ {Ask(r)} : stage'[p] = stage[p]
        BY <1>1, <1>2, <1>6, LoopBegins DEF IInv, TypeInv
  <2>2. /\ \A k \in Rounds : stage'[Listen(k)] = stage[Listen(k)]
        /\ \A s \in Requests : /\ stage'[Await(s)] = stage[Await(s)]
                               /\ stage'[Answer(s)] = stage[Answer(s)]
                               /\ s # r => stage'[Ask(s)] = stage[Ask(s)]
        BY <2>1, OpsDiffer
  <2>3. TypeInv'
    <3>1. TypeOK' /\ ListenInv'
          BY <1>1, <1>2, <1>6, <2>1, <2>2 DEF IInv, TypeInv, TypeOK, ListenInv
    <3>2. OrderInv'
          BY <1>1, <1>3, <1>6, <2>2 DEF IInv, TypeInv, OrderInv
    <3>q. QED BY <2>1, <3>1, <3>2 DEF TypeInv
  <2>4. LostInv'
    <3>1. round > 0 => round \in Rounds
          BY RoundsAreCounted DEF IInv, TypeInv, TypeOK
    <3>q. QED BY <1>1, <2>2, <3>1 DEF IInv, LostInv
  <2>5. \A p : p # q => Unanswered(p)' = Unanswered(p)
        BY <1>4, <1>6, <2>2 DEF Unanswered, Requested
  <2>6. SerialInv'
    <3>1. SUFFICES ASSUME NEW p \in Requesters, p \notin hasty'
          PROVE  /\ \A t, s \in Unanswered(p)' : t = s
                 /\ \A a \in Answers : Occurs(a, answers[p]) => a.of \in Unanswered(p)'
                 /\ \A s \in Requested(p), a \in Answers :
                      /\ (HasAnswer(s, a) /\ outcome[s] \notin Answers)
                           => a.of \in Unanswered(p)'
                      /\ outcome[s] = a => a.of = s
          BY <1>1, <1>3, <1>4, <1>6 DEF SerialInv
    <3>2. p \notin hasty
          BY <1>6, <3>1
    <3>3. CASE p = q
      <4>1. Unanswered(p) = {}
            BY <1>6, <3>1, <3>3
      <4>2. \A s \in Unanswered(p)' : s = r
            BY <1>4, <1>6, <2>2, <3>3, <4>1 DEF Unanswered
      <4>q. QED BY <1>1, <3>2, <4>1, <4>2 DEF IInv, SerialInv
    <3>q. QED BY <1>1, <2>5, <3>2, <3>3 DEF IInv, SerialInv
  <2>q. QED BY <1>3, <2>3, <2>4, <2>6 DEF IInv
<1>q. QED BY <1>1, <1>5, <1>6

LEMMA ThenRecvStep ==
  ASSUME IInv, NEW r \in Requests, ThenRecv(r)
  PROVE  IInv'
<1> USE DEF sockets, replier
<1>1. /\ stage[Await(r)] = "idle" /\ outcome[r] = Unset
      /\ UNCHANGED <<setup, sockets, read, result, replier, lost, hasty>>
      /\ \/ /\ result[Ask(r)] = Sent
            /\ stage' = [stage EXCEPT ![Await(r)] = "poll"]
            /\ UNCHANGED outcome
         \/ /\ outcome' = [outcome EXCEPT ![r] = Failed]
            /\ UNCHANGED stage
      BY DEF ThenRecv
<1>2. /\ MessageInv' /\ Owner' = Owner /\ pattern' = pattern
      /\ \A s \in Requests, a \in Answers : HasAnswer(s, a)' <=> HasAnswer(s, a)
      BY <1>1, MessagesRest DEF IInv
<1>3. Failed \notin Answers /\ Unset \notin Answers
      BY SignalsAssumption DEF Messages
<1>4. CASE /\ result[Ask(r)] = Sent
           /\ stage' = [stage EXCEPT ![Await(r)] = "poll"]
           /\ UNCHANGED outcome
  <2>1. /\ LoopInv' /\ stage' \in [Ops -> {"idle", "poll", "asked", "got", "done"}]
        /\ \A p \in Ops \ {Await(r)} : stage'[p] = stage[p]
        BY <1>1, <1>4, LoopBegins, OpsDiffer DEF IInv, TypeInv
  <2>2. /\ \A k \in Rounds : stage'[Listen(k)] = stage[Listen(k)]
        /\ \A s \in Requests : /\ stage'[Ask(s)] = stage[Ask(s)]
                               /\ stage'[Answer(s)] = stage[Answer(s)]
                               /\ s # r => stage'[Await(s)] = stage[Await(s)]
        BY <2>1, OpsDiffer
  <2>3. TypeInv'
    <3>1. TypeOK' /\ ListenInv'
          BY <1>1, <1>4, <2>1, <2>2 DEF IInv, TypeInv, TypeOK, ListenInv
    <3>2. OrderInv'
          BY <1>1, <1>2, <1>4, <2>2 DEF IInv, TypeInv, OrderInv
    <3>q. QED BY <2>1, <3>1, <3>2 DEF TypeInv
  <2>4. LostInv'
    <3>1. round > 0 => round \in Rounds
          BY RoundsAreCounted DEF IInv, TypeInv, TypeOK
    <3>q. QED BY <1>1, <2>2, <3>1 DEF IInv, LostInv
  <2>5. SerialInv'
        BY <1>1, <1>2, <1>4, <2>2, SerialStays DEF IInv
  <2>q. QED BY <1>2, <2>3, <2>4, <2>5 DEF IInv
<1>5. CASE /\ outcome' = [outcome EXCEPT ![r] = Failed]
           /\ UNCHANGED stage
  <2>1. TypeInv'
    <3>1. TypeOK' /\ LoopInv' /\ ListenInv'
          BY <1>1, <1>5 DEF IInv, TypeInv, TypeOK, LoopInv, ListenInv
    <3>2. OrderInv'
          BY <1>1, <1>2, <1>3, <1>5 DEF IInv, TypeInv, TypeOK, OrderInv
    <3>q. QED BY <3>1, <3>2 DEF TypeInv
  <2>2. LostInv'
        BY <1>1, <1>5 DEF IInv, LostInv
  <2>3. \A p : Requested(p)' = Requested(p) /\ Requested(p) \subseteq Requests
        BY <1>2 DEF Requested
  <2>4. \A s \in Requests, a \in Answers :
          /\ outcome'[s] \in Answers <=> outcome[s] \in Answers
          /\ outcome'[s] = a <=> outcome[s] = a
        BY <1>1, <1>3, <1>5 DEF IInv, TypeInv, TypeOK
  <2>5. \A p : Unanswered(p)' = Unanswered(p)
        BY <1>5, <2>3, <2>4 DEF Unanswered
  <2>6. SerialInv'
        BY <1>1, <1>2, <2>3, <2>4, <2>5 DEF IInv, SerialInv
  <2>q. QED BY <1>2, <2>1, <2>2, <2>6 DEF IInv
<1>q. QED BY <1>1, <1>4, <1>5

\* The answer that arrives at a requester that waits is the one of the message
\* it waits for: there is no other on its way.
LEMMA ThenUnpackStep ==
  ASSUME IInv, NEW r \in Requests, ThenUnpack(r)
  PROVE  IInv'
<1> DEFINE q == Owner[r]  m == result[Await(r)]
<1> USE DEF sockets, replier, loops
<1>1. /\ m # Unset /\ outcome[r] = Unset
      /\ outcome' = [outcome EXCEPT ![r] = m]
      /\ UNCHANGED <<setup, sockets, stage, read, result, replier, lost, hasty>>
      BY DEF ThenUnpack
<1>2. /\ MessageInv' /\ Owner' = Owner /\ pattern' = pattern
      /\ \A s \in Requests, a \in Answers : HasAnswer(s, a)' <=> HasAnswer(s, a)
      BY <1>1, MessagesRest DEF IInv
<1>3. /\ Failed \notin Answers /\ Unset \notin Answers
      /\ m \in Answers \cup {Failed} /\ outcome \in [Requests -> Answers \cup {Unset, Failed}]
      BY <1>1, SignalsAssumption DEF Messages, IInv, TypeInv, TypeOK, LoopInv
<1>4. TypeInv'
  <2>1. TypeOK' /\ LoopInv' /\ ListenInv'
        BY <1>1, <1>3 DEF IInv, TypeInv, TypeOK, LoopInv, ListenInv
  <2>2. OrderInv'
        BY <1>1, <1>2, <1>3 DEF IInv, TypeInv, OrderInv
  <2>q. QED BY <2>1, <2>2 DEF TypeInv
<1>5. LostInv'
      BY <1>1 DEF IInv, LostInv
<1>6. /\ \A p : Requested(p)' = Requested(p) /\ Requested(p) \subseteq Requests
      /\ \A s \in Requests \ {r} : outcome'[s] = outcome[s]
      /\ outcome'[r] = m /\ q \in Requesters
      BY <1>1, <1>2, <1>3, Constants DEF Requested, IInv, TypeInv, TypeOK
<1>7. CASE m = Failed
  <2>1. \A s \in Requests, a \in Answers :
          /\ outcome'[s] \in Answers <=> outcome[s] \in Answers
          /\ outcome'[s] = a <=> outcome[s] = a
        BY <1>1, <1>3, <1>6, <1>7
  <2>2. \A p : Unanswered(p)' = Unanswered(p)
        BY <1>1, <1>6, <2>1 DEF Unanswered
  <2>3. SerialInv'
        BY <1>1, <1>2, <1>6, <2>1, <2>2 DEF IInv, SerialInv
  <2>q. QED BY <1>2, <1>4, <1>5, <2>3 DEF IInv
<1>8. CASE m \in Answers
  <2>1. HasAnswer(r, m) /\ r \in Requested(q) /\ outcome[r] \notin Answers
        BY <1>1, <1>3 DEF HasAnswer, Requested
  <2>2. r \in Unanswered(q)
    <3>1. stage[Await(r)] # "idle"
          BY <1>1, OpsDiffer DEF IInv, TypeInv, LoopInv
    <3>2. result[Ask(r)] # Unset
          BY <3>1, SignalsAssumption DEF IInv, TypeInv, OrderInv
    <3>3. stage[Ask(r)] # "idle"
          BY <3>2, OpsDiffer DEF IInv, TypeInv, LoopInv
    <3>q. QED BY <2>1, <3>3 DEF Unanswered
  <2>3. m = Frames(m.of) /\ m.of \in Requests
        BY <1>8, <2>1 DEF Answers, IInv, MessageInv, HoldInv
  <2>4. \A p : p # q => Unanswered(p)' = Unanswered(p)
        BY <1>1, <1>6 DEF Unanswered, Requested
  <2>5. SerialInv'
    <3>1. SUFFICES ASSUME pattern = "reply", NEW p \in Requesters \ hasty
          PROVE  /\ \A t, s \in Unanswered(p)' : t = s
                 /\ \A a \in Answers : Occurs(a, answers[p]) => a.of \in Unanswered(p)'
                 /\ \A s \in Requested(p), a \in Answers :
                      /\ (HasAnswer(s, a) /\ outcome'[s] \notin Answers)
                           => a.of \in Unanswered(p)'
                      /\ outcome'[s] = a => a.of = s
          BY <1>1, <1>2, <1>6 DEF SerialInv
    <3>2. /\ \A t, s \in Unanswered(p) : t = s
          /\ \A a \in Answers : Occurs(a, answers[p]) => a.of \in Unanswered(p)
          /\ \A s \in Requested(p), a \in Answers :
               /\ (HasAnswer(s, a) /\ outcome[s] \notin Answers) => a.of \in Unanswered(p)
               /\ outcome[s] = a => a.of = s
          BY <3>1 DEF IInv, SerialInv
    <3>3. CASE p = q
      <4>1. m.of = r
            BY <1>8, <2>1, <2>2, <3>2, <3>3
      <4>2. \A t, s \in Unanswered(p)' : t = s
        <5>1. Unanswered(p)' \subseteq Unanswered(p)
              BY <1>1, <1>6, <1>8 DEF Unanswered
        <5>q. QED BY <3>2, <5>1
      <4>3. ASSUME NEW a \in Answers, Occurs(a, answers[p]) PROVE FALSE
        <5>1. a.of = r /\ a = Frames(a.of)
              BY <2>2, <3>2, <3>3, <4>3 DEF IInv, MessageInv, PipeInv
        <5>q. QED BY <1>8, <2>1, <2>3, <4>1, <4>3, <5>1 DEF IInv, MessageInv, PipeInv
      <4>4. ASSUME NEW s \in Requested(p), NEW a \in Answers,
                   HasAnswer(s, a), outcome'[s] \notin Answers
            PROVE  FALSE
        <5>1. s # r /\ s \in Requests /\ outcome[s] \notin Answers
              BY <1>6, <1>8, <4>4
        <5>2. a.of = r
              BY <2>2, <3>2, <3>3, <4>4, <5>1
        <5>3. a = m
              BY <2>3, <4>1, <4>4, <5>1, <5>2 DEF IInv, MessageInv, HoldInv
        <5>q. QED BY <1>8, <2>1, <4>4, <5>1, <5>3 DEF IInv, MessageInv, HoldInv
      <4>5. ASSUME NEW s \in Requested(p), NEW a \in Answers, outcome'[s] = a
            PROVE  a.of = s
            BY <1>6, <3>2, <4>1, <4>5
      <4>q. QED BY <4>2, <4>3, <4>4, <4>5
    <3>4. CASE p # q
      <4>1. \A s \in Requested(p) : outcome'[s] = outcome[s]
            BY <1>6, <3>4 DEF Requested
      <4>q. QED BY <2>4, <3>2, <3>4, <4>1
    <3>q. QED BY <3>3, <3>4
  <2>q. QED BY <1>2, <1>4, <1>5, <2>5 DEF IInv
<1>q. QED BY <1>3, <1>7, <1>8

LEMMA PublishStep ==
  ASSUME IInv, NEW r \in Requests, Publish(r)
  PROVE  IInv'
<1> USE DEF sockets, replier
<1>1. /\ pattern = "publish" /\ stage[Ask(r)] = "idle" /\ outcome[r] = Unset
      /\ UNCHANGED <<setup, sockets, read, result, replier, lost, hasty>>
      /\ \/ /\ outcome' = [outcome EXCEPT ![r] = Failed]
            /\ UNCHANGED stage
         \/ /\ stage' = [stage EXCEPT ![Ask(r)] = "poll"]
            /\ UNCHANGED outcome
      BY DEF Publish
<1>2. /\ MessageInv' /\ Owner' = Owner /\ pattern' = pattern
      BY <1>1, MessagesRest DEF IInv
<1>3. SerialInv'
      BY <1>1, <1>2 DEF SerialInv
<1>4. CASE /\ outcome' = [outcome EXCEPT ![r] = Failed]
           /\ UNCHANGED stage
  <2>1. TypeOK' /\ LoopInv' /\ ListenInv' /\ LostInv'
        BY <1>1, <1>4 DEF IInv, TypeInv, TypeOK, LoopInv, ListenInv, LostInv
  <2>2. OrderInv'
    <3>1. Failed \notin Answers
          BY SignalsAssumption DEF Messages
    <3>q. QED BY <1>1, <1>2, <1>4, <3>1 DEF IInv, TypeInv, TypeOK, OrderInv
  <2>q. QED BY <1>2, <1>3, <2>1, <2>2 DEF IInv, TypeInv
<1>5. CASE /\ stage' = [stage EXCEPT ![Ask(r)] = "poll"]
           /\ UNCHANGED outcome
  <2>1. /\ LoopInv' /\ stage' \in [Ops -> {"idle", "poll", "asked", "got", "done"}]
        /\ \A p \in Ops \ {Ask(r)} : stage'[p] = stage[p]
        BY <1>1, <1>5, LoopBegins, OpsDiffer DEF IInv, TypeInv
  <2>2. /\ \A k \in Rounds : stage'[Listen(k)] = stage[Listen(k)]
        /\ \A s \in Requests : /\ stage'[Await(s)] = stage[Await(s)]
                               /\ stage'[Answer(s)] = stage[Answer(s)]
        BY <2>1, OpsDiffer
  <2>3. TypeOK' /\ ListenInv'
        BY <1>1, <1>5, <2>1, <2>2 DEF IInv, TypeInv, TypeOK, ListenInv
  <2>4. OrderInv'
        BY <1>1, <1>2, <1>5, <2>2 DEF IInv, TypeInv, OrderInv
  <2>5. LostInv'
    <3>1. round > 0 => round \in Rounds
          BY RoundsAreCounted DEF IInv, TypeInv, TypeOK
    <3>q. QED BY <1>1, <2>2, <3>1 DEF IInv, LostInv
  <2>q. QED BY <1>2, <1>3, <2>1, <2>3, <2>4, <2>5 DEF IInv, TypeInv
<1>q. QED BY <1>1, <1>4, <1>5

-----------------------------------------------------------------------------
(***************************************************************************)
(* Repliers and subscribers.                                               *)
(***************************************************************************)

\* There are no more rounds than messages, and one: every round but the last
\* received a message, and no two the same.
LEMMA RoundsAreEnough ==
  ASSUME IInv, relisten = 1
  PROVE  round + 1 \in Rounds
<1>1. /\ round \in Nat /\ Rounds = 1 .. Cardinality(Requests) + 1
      /\ Cardinality(Requests) \in Nat /\ round <= Cardinality(Requests) + 1
      BY RoundsAreCounted DEF IInv, TypeInv, TypeOK
<1>2. \A k \in 1 .. round : k \in Rounds /\ result[Listen(k)] \in Requests
      BY <1>1 DEF IInv, TypeInv, ListenInv
<1> DEFINE received == [k \in 1 .. round |-> result[Listen(k)]]
<1>3. received \in Injection(1 .. round, Requests)
  <2>1. received \in [1 .. round -> Requests]
        BY <1>2
  <2>2. ASSUME NEW k \in 1 .. round, NEW l \in 1 .. round, received[k] = received[l]
        PROVE  k = l
    <3>1. HasRequest(k, result[Listen(k)]) /\ HasRequest(l, result[Listen(k)])
          BY <2>2 DEF HasRequest
    <3>q. QED BY <1>2, <3>1 DEF IInv, MessageInv, HoldInv
  <2>q. QED BY <2>1, <2>2 DEF Injection, IsInjective
<1>4. Cardinality(1 .. round) <= Cardinality(Requests)
      BY <1>3, FS_Injection, MessagingAssumption
<1>5. Cardinality(1 .. round) = round
      BY <1>1, FS_Interval
<1>q. QED BY <1>1, <1>4, <1>5

LEMMA ScheduleListenStep ==
  ASSUME IInv, ScheduleListen
  PROVE  IInv'
<1> USE DEF sockets, replier, client
<1>1. /\ relisten = 1 /\ relisten' = 0
      /\ UNCHANGED <<setup, sockets, read, result, listener, taken, handling,
                     handled, rejected, lost, client>>
      /\ \/ UNCHANGED <<stage, round>>
         \/ /\ round' = round + 1
            /\ stage' = [stage EXCEPT ![Listen(round + 1)] = "poll"]
      BY DEF ScheduleListen, IInv, TypeInv, TypeOK
<1>2. /\ MessageInv' /\ Owner' = Owner /\ pattern' = pattern
      /\ \A s \in Requests, a \in Answers : HasAnswer(s, a)' <=> HasAnswer(s, a)
      BY <1>1, MessagesRest DEF IInv
<1>3. lost' = {} /\ LostInv'
      BY <1>1 DEF IInv, LostInv
<1>4. CASE UNCHANGED <<stage, round>>
  <2>1. TypeOK' /\ LoopInv' /\ ListenInv'
        BY <1>1, <1>4 DEF IInv, TypeInv, TypeOK, LoopInv, ListenInv
  <2>2. OrderInv'
        BY <1>1, <1>2, <1>4 DEF IInv, TypeInv, OrderInv
  <2>3. SerialInv'
        BY <1>1, <1>2, <1>4, SerialStays DEF IInv
  <2>q. QED BY <1>2, <1>3, <2>1, <2>2, <2>3 DEF IInv, TypeInv
<1>5. CASE /\ round' = round + 1
           /\ stage' = [stage EXCEPT ![Listen(round + 1)] = "poll"]
  <2> DEFINE k == round + 1
  <2>1. /\ k \in Rounds /\ round \in Nat /\ \A l \in Rounds : l \in Nat
        /\ k \in 0 .. Cardinality(Requests) + 1
        BY <1>1, RoundsAreEnough, RoundsAreCounted DEF IInv, TypeInv, TypeOK
  <2>2. stage[Listen(k)] = "idle"
        BY <2>1 DEF IInv, TypeInv, ListenInv
  <2>3. /\ LoopInv' /\ stage' \in [Ops -> {"idle", "poll", "asked", "got", "done"}]
        /\ \A p \in Ops \ {Listen(k)} : stage'[p] = stage[p]
        BY <1>1, <1>5, <2>1, <2>2, LoopBegins, OpsDiffer DEF IInv, TypeInv
  <2>4. /\ \A l \in Rounds \ {k} : stage'[Listen(l)] = stage[Listen(l)]
        /\ \A s \in Requests : /\ stage'[Ask(s)] = stage[Ask(s)]
                               /\ stage'[Await(s)] = stage[Await(s)]
                               /\ stage'[Answer(s)] = stage[Answer(s)]
        /\ stage'[Listen(k)] = "poll"
        BY <1>5, <2>1, <2>3, OpsDiffer DEF IInv, TypeInv, TypeOK
  <2>5. TypeOK'
        BY <1>1, <1>5, <2>1, <2>3 DEF IInv, TypeInv, TypeOK
  <2>6. ListenInv'
    <3>1. ASSUME NEW l \in Rounds
          PROVE  /\ l > round' => (stage'[Listen(l)] = "idle" /\ l \notin taken)
                 /\ l <= round' => stage'[Listen(l)] # "idle"
                 /\ l < round' => (l \in taken /\ result[Listen(l)] \in Requests)
      <4>1. CASE l = k
            BY <1>5, <2>1, <2>4, <4>1
      <4>2. CASE l # k
            BY <1>1, <1>5, <2>1, <2>4, <4>2 DEF IInv, TypeInv, ListenInv
      <4>q. QED BY <4>1, <4>2
    <3>2. \A l \in Rounds : result[Listen(l)] # Unset =>
            (stage'[Listen(l)] = "done" \/ listener # Unset)
          BY <2>1, <2>2, <2>4, OpsDiffer DEF IInv, TypeInv, LoopInv, ListenInv
    <3>q. QED BY <1>1, <3>1, <3>2 DEF IInv, TypeInv, ListenInv
  <2>7. OrderInv'
        BY <1>1, <1>2, <2>4 DEF IInv, TypeInv, OrderInv
  <2>8. SerialInv'
        BY <1>1, <1>2, <2>4, SerialStays DEF IInv
  <2>q. QED BY <1>2, <1>3, <2>3, <2>5, <2>6, <2>7, <2>8 DEF IInv, TypeInv
<1>q. QED BY <1>1, <1>4, <1>5

LEMMA StopStep ==
  ASSUME IInv, Stop
  PROVE  IInv'
<1> USE DEF Stop, sockets, loops, replier, client
<1>1. MessageInv' /\ Owner' = Owner /\ pattern' = pattern
      BY MessagesRest DEF IInv
<1>2. Stopped # Unset
      BY SignalsAssumption
<1>3. TypeOK' /\ LoopInv' /\ ListenInv' /\ LostInv'
      BY <1>2 DEF IInv, TypeInv, TypeOK, LoopInv, ListenInv, LostInv
<1>4. OrderInv'
      BY <1>1 DEF IInv, TypeInv, OrderInv
<1>5. SerialInv'
      BY SerialStays DEF IInv, HasAnswer
<1>q. QED BY <1>1, <1>3, <1>4, <1>5 DEF IInv, TypeInv

LEMMA AdoptStep ==
  ASSUME IInv, NEW k \in Rounds, Adopt(k)
  PROVE  IInv'
<1> DEFINE o == Listen(k)
<1> USE DEF sockets, replier, client
<1>1. /\ k <= round /\ listener \in {Stopped, Failed} /\ result[o] = Unset /\ o \in Ops
      /\ UNCHANGED <<setup, sockets, stage, read, replier, lost, client>>
      /\ result' = [result EXCEPT ![o] = listener]
      BY OpsDiffer DEF Adopt, IInv, TypeInv, TypeOK
<1>2. /\ result'[o] = listener /\ \A p \in Ops \ {o} : result'[p] = result[p]
      /\ result' \in [Ops -> Messages \cup {Unset, Sent, Stopped, Failed}]
      BY <1>1 DEF IInv, TypeInv, TypeOK
<1>3. /\ listener \notin Messages \cup {Unset, Sent} /\ Unset \notin Messages \cup {Sent}
      BY <1>1, SignalsAssumption
<1>4. stage[o] # "idle"
      BY <1>1 DEF IInv, TypeInv, ListenInv
<1>5. /\ \A p \in Ops : \A m \in Messages \cup {Sent} : result'[p] = m <=> result[p] = m
      /\ \A r \in Requests : /\ result'[Ask(r)] = result[Ask(r)]
                             /\ result'[Await(r)] = result[Await(r)]
                             /\ result'[Answer(r)] = result[Answer(r)]
      BY <1>1, <1>2, <1>3, OpsDiffer
<1>6. TypeOK'
      BY <1>1, <1>2 DEF IInv, TypeInv, TypeOK
<1>7. LoopInv'
  <2>1. \A p \in Ops : /\ stage[p] = "done" => result'[p] # Unset
                       /\ stage[p] = "idle" => result'[p] = Unset
                       /\ result'[p] \notin {Unset, Stopped, Failed} => stage[p] = "done"
        BY <1>1, <1>2, <1>3, <1>4 DEF IInv, TypeInv, LoopInv
  <2>2. \A l \in Rounds : result'[Listen(l)] \in Requests \cup {Unset, Stopped, Failed}
        BY <1>1, <1>2, OpsDiffer DEF IInv, TypeInv, LoopInv
  <2>q. QED BY <1>1, <1>5, <2>1, <2>2 DEF IInv, TypeInv, LoopInv
<1>8. \A l \in Rounds : /\ result[Listen(l)] # Unset => result'[Listen(l)] # Unset
                        /\ result'[Listen(l)] \in Requests <=> result[Listen(l)] \in Requests
      BY <1>1, <1>2, <1>3, OpsDiffer DEF Messages
<1>9. ListenInv'
      BY <1>1, <1>3, <1>8 DEF IInv, TypeInv, ListenInv
<1>10. Owner' = Owner /\ pattern' = pattern
      BY <1>1 DEF Owner, pattern
<1>11. OrderInv'
      BY <1>1, <1>5, <1>10 DEF IInv, TypeInv, OrderInv
<1>12. LostInv'
  <2>1. round > 0 => round \in Rounds
        BY RoundsAreCounted DEF IInv, TypeInv, TypeOK
  <2>q. QED BY <1>1, <1>8, <2>1 DEF IInv, LostInv
<1>13. \A s \in Requests, a \in Answers : HasAnswer(s, a)' <=> HasAnswer(s, a)
      BY <1>1, <1>5 DEF HasAnswer
<1>14. MessageInv'
  <2>1. \A s \in Requests : (Delivered(s)' <=> Delivered(s)) /\ (Answered(s)' <=> Answered(s))
        BY <1>1, <1>5 DEF Delivered, Answered
  <2>2. \A l \in Rounds, s \in Requests : result'[Listen(l)] = s <=> result[Listen(l)] = s
        BY <1>5, OpsDiffer DEF Messages
  <2>q. QED BY <1>1, <1>13, <2>1, <2>2, MessagesStay DEF IInv
<1>15. SerialInv'
      BY <1>1, <1>13, SerialStays DEF IInv
<1>q. QED BY <1>6, <1>7, <1>9, <1>11, <1>12, <1>14, <1>15 DEF IInv, TypeInv

LEMMA ThenReplyStep ==
  ASSUME IInv, NEW k \in Rounds, ThenReply(k)
  PROVE  IInv'
<1> DEFINE m == result[Listen(k)]
<1> USE DEF sockets, loops, client
<1>1. /\ k <= round /\ k \notin taken /\ m # Unset /\ taken' = taken \cup {k}
      /\ UNCHANGED <<setup, sockets, loops, round, handled, lost, client>>
      BY DEF ThenReply
<1>2. /\ k = round /\ relisten = 0 /\ \A l \in Rounds : l \in Nat
      /\ round \in Nat
      BY <1>1, RoundsAreCounted DEF IInv, TypeInv, TypeOK, ListenInv
<1>3. /\ Owner' = Owner /\ pattern' = pattern
      /\ \A s \in Requests : Frames(s)' = Frames(s)
      /\ \A a \in Answers : a.of \in Requests
      BY <1>1 DEF Owner, pattern, What, Frames, Answers
<1>4. /\ \A s \in Requests : /\ Delivered(s)' <=> Delivered(s)
                             /\ Answered(s)' <=> Answered(s)
      /\ \A l \in Rounds, s \in Requests : HasRequest(l, s)' <=> HasRequest(l, s)
      /\ \A s \in Requests, a \in Answers : HasAnswer(s, a)' <=> HasAnswer(s, a)
      BY <1>1 DEF Delivered, Answered, HasRequest, HasAnswer
<1>5. LoopInv'
      BY <1>1 DEF IInv, TypeInv, LoopInv
<1>6. SerialInv'
      BY <1>1, <1>4, SerialStays DEF IInv
<1>7. CASE m \in Requests
  <2>1. /\ relisten' = 1 /\ UNCHANGED listener
        /\ \/ rejected' = rejected \cup {m} /\ UNCHANGED handling
           \/ handling' = handling \cup {m} /\ UNCHANGED rejected
        BY <1>2, <1>7 DEF ThenReply, Understand
  <2>2. Looked' = Looked \cup {m}
        BY <2>1 DEF Looked
  <2>3. HasRequest(k, m)
        BY DEF HasRequest
  <2>4. /\ Delivered(m) /\ m \notin lost /\ m \notin Looked
        /\ \A l \in Rounds : HasRequest(l, m) => l = k
        /\ \A p \in Requesters : ~Occurs(m, requests[p])
        BY <1>1, <1>7, <2>3 DEF IInv, MessageInv, HoldInv, PipeInv
  <2>5. TypeOK'
        BY <1>1, <1>7, <2>1 DEF IInv, TypeInv, TypeOK
  <2>6. OrderInv'
        BY <1>1, <1>3, <2>1 DEF IInv, TypeInv, OrderInv
  <2>7. ListenInv'
        BY <1>1, <1>2, <1>7, <2>1 DEF IInv, TypeInv, ListenInv
  <2>8. LostInv'
        BY <1>1, <1>2, <1>7 DEF IInv, LostInv
  <2>9. PipeInv'
        BY <1>1, <1>3, <1>4, <2>2, <2>4 DEF IInv, MessageInv, PipeInv
  <2>10. HoldInv'
    <3>1. ASSUME NEW l \in Rounds, NEW s \in Requests, HasRequest(l, s)
          PROVE  s \in Looked' <=> (l \in taken' /\ result[Listen(l)] = s)
      <4>1. s \in Looked <=> (l \in taken /\ result[Listen(l)] = s)
            BY <3>1 DEF IInv, MessageInv, HoldInv
      <4>2. CASE s = m
            BY <1>1, <2>2, <2>4, <3>1, <4>2
      <4>3. CASE s # m
            BY <1>1, <2>2, <4>1, <4>3
      <4>q. QED BY <4>2, <4>3
    <3>q. QED BY <1>1, <1>3, <1>4, <3>1 DEF IInv, MessageInv, HoldInv
  <2>11. EndInv'
    <3>1. handling' \cap rejected' = {} /\ lost \cap Looked' = {}
          BY <2>1, <2>2, <2>4 DEF Looked, IInv, MessageInv, EndInv
    <3>q. QED BY <1>1, <1>3, <1>4, <2>2, <2>4, <3>1 DEF IInv, MessageInv, EndInv
  <2>q. QED BY <1>5, <1>6, <2>5, <2>6, <2>7, <2>8, <2>9, <2>10, <2>11
        DEF IInv, TypeInv, MessageInv
<1>8. CASE m \notin Requests
  <2>1. /\ listener' \in {listener, Failed} /\ (listener # Unset => listener' # Unset)
        /\ UNCHANGED <<relisten, handling, rejected>> /\ Looked' = Looked
        BY <1>8 DEF ThenReply, Looked
  <2>2. TypeOK'
        BY <1>1, <2>1 DEF IInv, TypeInv, TypeOK
  <2>3. OrderInv'
        BY <1>1, <1>3, <2>1 DEF IInv, TypeInv, OrderInv
  <2>4. ListenInv'
        BY <1>1, <2>1 DEF IInv, TypeInv, ListenInv
  <2>5. LostInv'
        BY <1>1, <2>1 DEF IInv, LostInv
  <2>6. PipeInv'
        BY <1>1, <1>3, <1>4, <2>1 DEF IInv, MessageInv, PipeInv
  <2>7. \A s \in Requests, l \in Rounds :
          (l \in taken' /\ result[Listen(l)] = s) <=> (l \in taken /\ result[Listen(l)] = s)
        BY <1>1, <1>8
  <2>8. HoldInv'
        BY <1>1, <1>3, <1>4, <2>1, <2>7 DEF IInv, MessageInv, HoldInv
  <2>9. EndInv'
        BY <1>1, <1>3, <1>4, <2>1, <2>7 DEF IInv, MessageInv, EndInv
  <2>q. QED BY <1>5, <1>6, <2>2, <2>3, <2>4, <2>5, <2>6, <2>8, <2>9
        DEF IInv, TypeInv, MessageInv
<1>q. QED BY <1>7, <1>8

LEMMA HandledStep ==
  ASSUME IInv, NEW r \in Requests, Handled(r)
  PROVE  IInv'
<1> USE DEF sockets, client
<1>1. /\ r \in handling /\ r \notin handled /\ handled' = handled \cup {r}
      /\ UNCHANGED <<setup, sockets, read, result, listener, round, relisten,
                     taken, handling, rejected, lost, client>>
      /\ \/ UNCHANGED stage
         \/ pattern = "reply" /\ stage' = [stage EXCEPT ![Answer(r)] = "poll"]
  <2>1. Answer(r) \in Ops /\ stage \in [Ops -> {"idle", "poll", "asked", "got", "done"}]
        BY OpsDiffer DEF IInv, TypeInv, TypeOK
  <2>2. [stage EXCEPT ![Answer(r)] = @] = stage
        BY <2>1
  <2>q. QED BY <2>2 DEF Handled
<1>2. /\ MessageInv' /\ Owner' = Owner /\ pattern' = pattern
      /\ \A s \in Requests, a \in Answers : HasAnswer(s, a)' <=> HasAnswer(s, a)
      BY <1>1, MessagesRest DEF IInv
<1>3. stage[Answer(r)] = "idle"
      BY <1>1 DEF IInv, TypeInv, OrderInv
<1>4. /\ LoopInv' /\ stage' \in [Ops -> {"idle", "poll", "asked", "got", "done"}]
      /\ \A p \in Ops \ {Answer(r)} : stage'[p] = stage[p]
  <2>1. CASE UNCHANGED stage
        BY <1>1, <2>1 DEF IInv, TypeInv, TypeOK, LoopInv
  <2>2. CASE stage' = [stage EXCEPT ![Answer(r)] = "poll"]
        BY <1>1, <1>3, <2>2, LoopBegins, OpsDiffer DEF IInv, TypeInv
  <2>q. QED BY <1>1, <2>1, <2>2
<1>5. /\ \A k \in Rounds : stage'[Listen(k)] = stage[Listen(k)]
      /\ \A s \in Requests : /\ stage'[Ask(s)] = stage[Ask(s)]
                             /\ stage'[Await(s)] = stage[Await(s)]
                             /\ s # r => stage'[Answer(s)] = stage[Answer(s)]
      BY <1>4, OpsDiffer
<1>6. TypeOK' /\ ListenInv'
      BY <1>1, <1>4, <1>5 DEF IInv, TypeInv, TypeOK, ListenInv
<1>7. OrderInv'
      BY <1>1, <1>2, <1>3, <1>5 DEF IInv, TypeInv, OrderInv
<1>8. LostInv'
  <2>1. round > 0 => round \in Rounds
        BY RoundsAreCounted DEF IInv, TypeInv, TypeOK
  <2>q. QED BY <1>1, <1>5, <2>1 DEF IInv, LostInv
<1>9. SerialInv'
      BY <1>1, <1>2, <1>5, SerialStays DEF IInv
<1>q. QED BY <1>2, <1>4, <1>6, <1>7, <1>8, <1>9 DEF IInv, TypeInv

-----------------------------------------------------------------------------
(***************************************************************************)
(* The invariant holds.                                                    *)
(***************************************************************************)
LEMMA Initially == Init => IInv
<1> SUFFICES ASSUME Init PROVE IInv
    OBVIOUS
<1> USE DEF Init
<1>1. /\ \A o \in Ops : stage[o] = "idle" /\ read[o] = Null /\ result[o] = Unset
      /\ \A r \in Requests : outcome[r] = Unset
      /\ \A q \in Requesters : requests[q] = <<>> /\ answers[q] = <<>>
      OBVIOUS
<1>2. \A m \in Messages \cup {Sent} : m # Null /\ m # Unset
      BY SignalsAssumption
<1>3. Null # Unset /\ Failed # Null
      BY SignalsAssumption
<1>4. TypeOK
  <2>1. 0 \in 0 .. Cardinality(Requests) + 1 /\ 0 \in 0 .. MaxFaults
        BY RoundsAreCounted, MessagingAssumption
  <2>2. <<>> \in Seq(Requests) /\ <<>> \in Seq(Answers) /\ Len(<<>>) = 0
        OBVIOUS
  <2>3. \A q \in Requesters : Len(requests[q]) <= RequestMark /\ Len(answers[q]) <= ResponseMark
        BY <1>1, <2>2, MessagingAssumption
  <2>4. /\ requests \in [Requesters -> Seq(Requests)]
        /\ answers \in [Requesters -> Seq(Answers)]
        BY <2>2
  <2>q. QED BY <2>1, <2>3, <2>4 DEF TypeOK
<1>5. LoopInv
      BY <1>1, <1>3, OpsDiffer DEF LoopInv
<1>6. OrderInv
      BY <1>1, <1>2, OpsDiffer DEF OrderInv, Messages
<1>7. ListenInv
      BY <1>1, OpsDiffer, RoundsAreCounted DEF ListenInv
<1>8. /\ \A k \in Rounds, r \in Requests : ~HasRequest(k, r)
      /\ \A s \in Requests, a \in Answers : ~HasAnswer(s, a)
      /\ \A r \in Requests : ~Delivered(r)
      BY <1>1, <1>2, OpsDiffer DEF HasRequest, HasAnswer, Delivered, Messages
<1>9. MessageInv
      BY <1>1, <1>8, NothingInEmpty DEF MessageInv, PipeInv, HoldInv, EndInv, Looked
<1>10. LostInv
      BY DEF LostInv
<1>11. SerialInv
  <2>1. \A q : Unanswered(q) = {}
        BY <1>1, OpsDiffer DEF Unanswered, Requested
  <2>2. \A q : Requested(q) \subseteq Requests
        BY DEF Requested
  <2>q. QED BY <1>1, <1>2, <1>8, <2>1, <2>2, NothingInEmpty DEF SerialInv, Messages
<1>q. QED BY <1>4, <1>5, <1>6, <1>7, <1>9, <1>10, <1>11 DEF IInv, TypeInv

LEMMA NothingHappens ==
  ASSUME IInv, UNCHANGED vars
  PROVE  IInv'
<1> USE DEF vars, sockets, loops, replier, client
<1>1. MessageInv' /\ Owner' = Owner /\ pattern' = pattern
      BY MessagesRest DEF IInv
<1>2. TypeOK' /\ LoopInv' /\ ListenInv' /\ LostInv'
      BY DEF IInv, TypeInv, TypeOK, LoopInv, ListenInv, LostInv
<1>3. OrderInv'
      BY <1>1 DEF IInv, TypeInv, OrderInv
<1>4. SerialInv'
      BY SerialStays DEF IInv, HasAnswer
<1>q. QED BY <1>1, <1>2, <1>3, <1>4 DEF IInv, TypeInv

LEMMA Inductive == IInv /\ [Next]_vars => IInv'
<1> SUFFICES ASSUME IInv, [Next]_vars PROVE IInv'
    OBVIOUS
<1>1. ASSUME NEW o \in Ops, Step(o) \/ Throw(o) PROVE IInv'
  <2>1. CASE Schedule(o)
        BY <2>1, ScheduleStep
  <2>2. CASE recv(o)
    <3>1. o \in Recvs
          BY <2>2 DEF recv
    <3>2. \/ \E r \in Requests : o = Await(r)
          \/ \E k \in Rounds : o = Listen(k)
          BY <3>1, OpCases, OpsDiffer
    <3>q. QED BY <2>2, <3>2, ListenStep, AwaitStep
  <2>3. CASE send(o)
    <3>1. o \in Sends
          BY <2>3 DEF send
    <3>2. \E r \in Requests : o = Ask(r) \/ o = Answer(r)
          BY <3>1, OpCases, OpsDiffer
    <3>q. QED BY <2>3, <3>2, AskStep, AnswerStep
  <2>4. CASE Callback(o)
        BY <2>4, CallbackStep
  <2>5. CASE Throw(o)
        BY <2>5, ThrowStep
  <2>q. QED BY <1>1, <2>1, <2>2, <2>3, <2>4, <2>5 DEF Step
<1>2. ASSUME NEW r \in Requests,
             \/ RequesterSend(r) \/ Publish(r)
             \/ ThenRecv(r) \/ ThenUnpack(r) \/ Handled(r)
      PROVE  IInv'
      BY <1>2, RequesterSendStep, PublishStep, ThenRecvStep, ThenUnpackStep, HandledStep
<1>3. CASE ScheduleListen \/ Stop
      BY <1>3, ScheduleListenStep, StopStep
<1>4. ASSUME NEW k \in Rounds, Adopt(k) \/ ThenReply(k) PROVE IInv'
      BY <1>4, AdoptStep, ThenReplyStep
<1>5. CASE UNCHANGED vars
      BY <1>5, NothingHappens
<1>q. QED BY <1>1, <1>2, <1>3, <1>4, <1>5 DEF Next

LEMMA Invariance == Spec => []IInv
BY Initially, Inductive, PTL DEF Spec

-----------------------------------------------------------------------------
(***************************************************************************)
(* What follows from it.                                                   *)
(***************************************************************************)

\* Every variable keeps its type: the pipes stay within their marks, and a replier
\* receives no more often than there are messages, and once.
\* (src/traeger/socket/Socket.cpp, Context.cpp, Replier.cpp)
THEOREM Typing == Spec => []TypeOK
<1>1. IInv => TypeOK
      BY DEF IInv, TypeInv
<1>q. QED BY <1>1, Invariance, PTL

LEMMA OnePlace ==
  ASSUME IInv, NEW r \in Requests, NEW x \in Places(r), NEW y \in Places(r)
  PROVE  x = y
<1> DEFINE s == requests[Owner[r]]
           Pipe == {"pipe"} \X {i \in DOMAIN s : s[i] = r}
           Read == {"read"} \X {k \in Rounds : read[Listen(k)] = r}
           Received == {"received"} \X {k \in Rounds \ taken : result[Listen(k)] = r}
           End == {end \in {<<"handling", handling>>, <<"rejected", rejected>>,
                            <<"lost", lost>>} : r \in end[2]}
<1>1. Places(r) = Pipe \cup Read \cup Received \cup End
      BY DEF Places
<1>2. Owner[r] \in Requesters /\ DOMAIN s = 1 .. Len(s)
  <2>1. Owner[r] \in Requesters
        BY Constants DEF IInv, TypeInv, TypeOK
  <2>q. QED BY <2>1, LenProperties DEF IInv, TypeInv, TypeOK
<1>3. \A p \in Pipe : Occurs(r, s)
      BY <1>2 DEF Occurs
<1>4. \A p \in Pipe, t \in Pipe : p = t
      BY <1>2 DEF Once, IInv, MessageInv, PipeInv
<1>5. \A p \in Read \cup Received :
        p[2] \in Rounds /\ HasRequest(p[2], r) /\ r \notin Looked /\ r \notin lost
  <2>1. ASSUME NEW p \in Read
        PROVE  p[2] \in Rounds /\ HasRequest(p[2], r) /\ ~(result[Listen(p[2])] = r)
    <3>1. p[2] \in Rounds /\ read[Listen(p[2])] = r
          OBVIOUS
    <3>2. r \notin {Null, Unset, Stopped, Failed}
          BY SignalsAssumption DEF Messages
    <3>q. QED BY <3>1, <3>2, OpsDiffer DEF HasRequest, IInv, TypeInv, LoopInv
  <2>2. ASSUME NEW p \in Received
        PROVE  p[2] \in Rounds /\ HasRequest(p[2], r) /\ p[2] \notin taken
        BY DEF HasRequest
  <2>q. QED BY <2>1, <2>2 DEF IInv, MessageInv, HoldInv
<1>6. \A p \in Read \cup Received, t \in Read \cup Received : p[2] = t[2]
      BY <1>5 DEF IInv, MessageInv, HoldInv
<1>7. \A p \in Read, t \in Received : FALSE
  <2>1. ASSUME NEW p \in Read, NEW t \in Received PROVE FALSE
    <3>1. read[Listen(p[2])] = r /\ result[Listen(p[2])] = r /\ p[2] \in Rounds
          BY <1>6
    <3>2. r \notin {Null, Unset, Stopped, Failed}
          BY SignalsAssumption DEF Messages
    <3>q. QED BY <3>1, <3>2, OpsDiffer DEF IInv, TypeInv, LoopInv
  <2>q. QED BY <2>1
<1>8. \A p \in End : r \in Looked \cup lost
      BY DEF Looked
<1>9. \A p \in End, t \in End : p = t
      BY DEF Looked, IInv, MessageInv, EndInv
<1>10. \A p \in Pipe : r \notin Looked /\ r \notin lost /\ \A k \in Rounds : ~HasRequest(k, r)
      BY <1>2, <1>3 DEF IInv, MessageInv, PipeInv
<1>11. \A p \in Read, t \in Read : p = t
      BY <1>6
<1>12. \A p \in Received, t \in Received : p = t
      BY <1>6
<1> HIDE DEF Pipe, Read, Received, End
<1>q. QED BY <1>1, <1>4, <1>5, <1>7, <1>8, <1>9, <1>10, <1>11, <1>12

LEMMA SomePlace ==
  ASSUME IInv, NEW r \in Requests
  PROVE  /\ (pattern = "reply" /\ Delivered(r)) => Places(r) # {}
         /\ Places(r) # {} => Delivered(r)
<1> DEFINE s == requests[Owner[r]]
           Pipe == {"pipe"} \X {i \in DOMAIN s : s[i] = r}
           Read == {"read"} \X {k \in Rounds : read[Listen(k)] = r}
           Received == {"received"} \X {k \in Rounds \ taken : result[Listen(k)] = r}
           End == {end \in {<<"handling", handling>>, <<"rejected", rejected>>,
                            <<"lost", lost>>} : r \in end[2]}
<1>1. Places(r) = Pipe \cup Read \cup Received \cup End
      BY DEF Places
<1>2. Owner[r] \in Requesters /\ DOMAIN s = 1 .. Len(s)
  <2>1. Owner[r] \in Requesters
        BY Constants DEF IInv, TypeInv, TypeOK
  <2>q. QED BY <2>1, LenProperties DEF IInv, TypeInv, TypeOK
<1>3. Occurs(r, s) <=> Pipe # {}
  <2>1. ASSUME NEW i \in 1 .. Len(s), s[i] = r PROVE <<"pipe", i>> \in Pipe
        BY <1>2, <2>1
  <2>2. ASSUME NEW p \in Pipe PROVE p[2] \in 1 .. Len(s) /\ s[p[2]] = r
        BY <1>2
  <2>q. QED BY <2>1, <2>2 DEF Occurs
<1>4. (\E k \in Rounds : read[Listen(k)] = r) <=> Read # {}
  <2>1. ASSUME NEW k \in Rounds, read[Listen(k)] = r PROVE <<"read", k>> \in Read
        BY <2>1
  <2>2. ASSUME NEW p \in Read PROVE p[2] \in Rounds /\ read[Listen(p[2])] = r
        OBVIOUS
  <2>q. QED BY <2>1, <2>2
<1>5. (\E k \in Rounds \ taken : result[Listen(k)] = r) <=> Received # {}
  <2>1. ASSUME NEW k \in Rounds \ taken, result[Listen(k)] = r
        PROVE  <<"received", k>> \in Received
        BY <2>1
  <2>2. ASSUME NEW p \in Received PROVE p[2] \in Rounds \ taken /\ result[Listen(p[2])] = r
        OBVIOUS
  <2>q. QED BY <2>1, <2>2
<1>6. r \in Looked \cup lost <=> End # {}
  <2>1. /\ r \in handling => <<"handling", handling>> \in End
        /\ r \in rejected => <<"rejected", rejected>> \in End
        /\ r \in lost => <<"lost", lost>> \in End
        OBVIOUS
  <2>2. ASSUME NEW p \in End PROVE r \in Looked \cup lost
        BY DEF Looked
  <2>q. QED BY <2>1, <2>2 DEF Looked
<1> HIDE DEF Pipe, Read, Received, End
<1>7. Places(r) # {} <=> \/ Occurs(r, s) \/ r \in Looked \cup lost
                         \/ \E k \in Rounds : read[Listen(k)] = r
                         \/ \E k \in Rounds \ taken : result[Listen(k)] = r
      BY <1>1, <1>3, <1>4, <1>5, <1>6
<1>8. ASSUME NEW k \in Rounds, HasRequest(k, r) PROVE Places(r) # {}
  <2>1. CASE result[Listen(k)] = r /\ k \in taken
        BY <1>7, <1>8, <2>1 DEF IInv, MessageInv, HoldInv
  <2>q. QED BY <1>7, <1>8, <2>1 DEF HasRequest
<1>9. (pattern = "reply" /\ Delivered(r)) => Places(r) # {}
      BY <1>7, <1>8 DEF IInv, MessageInv, EndInv
<1>10. ASSUME Places(r) # {} PROVE Delivered(r)
  <2>1. \/ Occurs(r, s) \/ r \in Looked \cup lost
        \/ \E k \in Rounds : HasRequest(k, r)
        BY <1>7, <1>10 DEF HasRequest
  <2>q. QED BY <1>2, <2>1 DEF IInv, MessageInv, PipeInv, HoldInv, EndInv
<1>q. QED BY <1>9, <1>10

\* No message is handled twice or dropped between the loops of a replier, and only
\* one that is being stopped, or that failed, loses one.
\* (src/traeger/socket/Socket.cpp schedule_recv, Replier.cpp schedule_reply)
THEOREM MessagesMoveOnce == Spec => []EachMessageOnce
<1>1. ASSUME IInv, NEW r \in Requests PROVE Cardinality(Places(r)) <= 1
  <2>1. CASE Places(r) = {}
        BY <2>1, FS_EmptySet
  <2>2. ASSUME NEW x \in Places(r) PROVE Cardinality(Places(r)) = 1
    <3>1. Places(r) = {x}
          BY <1>1, OnePlace
    <3>q. QED BY <3>1, FS_Singleton
  <2>q. QED BY <2>1, <2>2
<1>2. ASSUME IInv PROVE lost # {} => (listener # Unset /\ Cardinality(lost) = 1)
      BY <1>2, FS_Singleton DEF IInv, LostInv
<1>3. IInv => EachMessageOnce
      BY <1>1, <1>2, SomePlace DEF EachMessageOnce
<1>q. QED BY <1>3, Invariance, PTL

\* An answer that completes a message is the result of a request of that requester
\* which was handled, and it completes no other.
\* (src/traeger/socket/Requester.cpp send, Replier.cpp reply)
THEOREM AnswersOnce == Spec => []AnswersAreResults
<1>1. ASSUME IInv, NEW r \in Requests, outcome[r] \in Answers
      PROVE  /\ outcome[r].of \in handled /\ Owner[outcome[r].of] = Owner[r]
             /\ outcome[r].body = "value" <=> What[outcome[r].of] = "value"
             /\ \A s \in Requests \ {r} : outcome[s] # outcome[r]
  <2> DEFINE a == outcome[r]
  <2>1. HasAnswer(r, a)
        BY <1>1 DEF HasAnswer, IInv, TypeInv, OrderInv
  <2>2. /\ a = Frames(a.of) /\ Owner[a.of] = Owner[r] /\ Answered(a.of) /\ a.of \in Requests
        BY <1>1, <2>1 DEF IInv, MessageInv, HoldInv, Answers
  <2>3. stage[Answer(a.of)] # "idle"
    <3>1. Sent # Null /\ Sent # Unset
          BY SignalsAssumption
    <3>q. QED BY <1>1, <2>2, <3>1, OpsDiffer DEF Answered, IInv, TypeInv, LoopInv
  <2>4. a.of \in handled
        BY <1>1, <2>2, <2>3 DEF IInv, TypeInv, OrderInv
  <2>5. a.body = "value" <=> What[a.of] = "value"
        BY <2>2 DEF Frames
  <2>6. ASSUME NEW s \in Requests \ {r}, outcome[s] = a PROVE FALSE
    <3>1. HasAnswer(s, a)
          BY <1>1, <2>6 DEF HasAnswer, IInv, TypeInv, OrderInv
    <3>q. QED BY <1>1, <2>1, <2>6, <3>1 DEF IInv, MessageInv, HoldInv
  <2>q. QED BY <2>2, <2>4, <2>5, <2>6
<1>2. IInv => AnswersAreResults
      BY <1>1 DEF AnswersAreResults
<1>q. QED BY <1>2, Invariance, PTL

\* A requester that waits for each answer before it sends again gets its own.
\* (src/traeger/socket/Requester.cpp send)
THEOREM WaitersGetTheirs == Spec => []SerialAnswersAreOwn
<1>1. ASSUME IInv, NEW r \in Requests, outcome[r] \in Answers, Owner[r] \notin hasty
      PROVE  outcome[r].of = r
  <2>1. HasAnswer(r, outcome[r])
        BY <1>1 DEF HasAnswer, IInv, TypeInv, OrderInv
  <2>2. Answered(outcome[r].of) /\ outcome[r].of \in Requests
        BY <1>1, <2>1 DEF IInv, MessageInv, HoldInv, Answers
  <2>3. stage[Answer(outcome[r].of)] # "idle"
    <3>1. Sent # Null /\ Sent # Unset
          BY SignalsAssumption
    <3>q. QED BY <1>1, <2>2, <3>1, OpsDiffer DEF Answered, IInv, TypeInv, LoopInv
  <2>4. pattern = "reply"
        BY <1>1, <2>2, <2>3 DEF IInv, TypeInv, OrderInv
  <2>5. Owner[r] \in Requesters /\ r \in Requested(Owner[r])
        BY <1>1, Constants DEF Requested, IInv, TypeInv, TypeOK
  <2>q. QED BY <1>1, <2>4, <2>5 DEF IInv, SerialInv
<1>2. IInv => SerialAnswersAreOwn
      BY <1>1 DEF SerialAnswersAreOwn
<1>q. QED BY <1>2, Invariance, PTL

=============================================================================
