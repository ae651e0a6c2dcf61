----------------------------- MODULE Messaging -----------------------------
(***************************************************************************)
(* Messages over ZeroMQ sockets (src/traeger/socket).  A socket is an      *)
(* actor with two writers, recv and send, that never block: Socket::recv   *)
(* and Socket::send ask it again every 10 ms until it did something, and   *)
(* then set the promise they returned.  A requester sends a message and    *)
(* then receives an answer; a replier receives messages for ever, has the  *)
(* mailbox of an actor handle each and sends back its result; a subscriber *)
(* receives what a publisher sends.  Repliers and subscribers stop when    *)
(* somebody sets the promise that reply() or listen() returned.            *)
(*                                                                         *)
(* Schedulers, actors and promises are what their modules promise: a job   *)
(* that is scheduled is executed once, a promise is set once and then its  *)
(* callback is called.  The wires are ZeroMQ's: FIFO pipes of bounded      *)
(* length between each requester and the replier; multipart messages are   *)
(* sent and received whole.                                                *)
(***************************************************************************)
EXTENDS Naturals, Sequences, FiniteSets

CONSTANTS Requests,    (* the messages: requests, or what is published       *)
          Requesters,  (* requesters, or publishers                          *)
          Setups,      (* what to check: see Setup                           *)
          RequestMark, ResponseMark,   (* high water marks of the pipes      *)
          MaxFaults,   (* how many calls of ZeroMQ throw                     *)
          Unset, Null, Sent, Stopped, Failed

(***************************************************************************)
(* value and error: the actor returns a value, or an error (also: it has   *)
(* no method of that name, or its value cannot be encoded).  undefined: it *)
(* returns the Undefined result.  malformed: wrong number of frames, no    *)
(* such format, not decodable, or not a list.  unencodable: arguments that *)
(* the requester cannot encode.                                            *)
(***************************************************************************)
Kinds == {"value", "error", "undefined", "malformed", "unencodable"}

\* What the sockets are used for, who sends each message and what becomes of it.
Setup == [pattern : {"reply", "publish"}, owner : [Requests -> Requesters],
          what : [Requests -> Kinds]]

\* An answer: whose it is, and whether its error frame is empty.
Answers  == [of : Requests, body : {"value", "error"}]
Messages == Requests \cup Answers

ASSUME MessagingAssumption ==
  /\ IsFiniteSet(Requests)
  /\ Setups \subseteq Setup
  /\ RequestMark \in Nat \ {0} /\ ResponseMark \in Nat \ {0}
  /\ MaxFaults \in Nat

\* Messages and the signals that stand for no message are told apart.
ASSUME SignalsAssumption ==
  /\ Unset \notin {Null, Sent, Stopped, Failed}
  /\ Null \notin {Sent, Stopped, Failed}
  /\ Sent \notin {Stopped, Failed}
  /\ Stopped # Failed
  /\ Messages \cap {Unset, Null, Sent, Stopped, Failed} = {}
  /\ Requests \cap Answers = {}

(***************************************************************************)
(* Operations: one call of Socket::send or Socket::recv each, that is one  *)
(* socket_closure.  The k-th recv of the replier or subscriber is          *)
(* Listen(k): each receives one message, so one more than messages exist   *)
(* will do.                                                                *)
(***************************************************************************)
Ask(r)    == <<"ask", r>>        (* Requester::send, Publisher::publish      *)
Await(r)  == <<"await", r>>      (* the dealer's recv after it               *)
Answer(r) == <<"answer", r>>     (* the router's send                        *)
Listen(k) == <<"listen", k>>

Rounds == 1 .. Cardinality(Requests) + 1
Sends  == {"ask", "answer"} \X Requests
Recvs  == ({"await"} \X Requests) \cup ({"listen"} \X Rounds)
Ops    == Sends \cup Recvs

VARIABLES
  setup,      (* one of Setups                                               *)
  requests,   (* the pipe from each requester or publisher                   *)
  answers,    (* the pipe to each requester                                  *)
  stage,      (* where the loop of an operation is                           *)
  read,       (* what the actor of the socket returned to it                 *)
  result,     (* the promise of the operation                                *)
  listener,   (* the promise of reply() or listen()                          *)
  round,      (* how many times the listener called recv                     *)
  relisten,   (* how many calls of schedule_reply or schedule_listen wait    *)
  taken,      (* the rounds whose then() or fail() callback was called       *)
  handling,   (* requests in the actor, or callbacks that are being called   *)
  handled,    (* those that have been                                        *)
  rejected,   (* those that were not understood                              *)
  lost,       (* those that were received for a promise already set          *)
  outcome,    (* the promise of Requester::send                              *)
  hasty,      (* requesters that sent before their last message was answered *)
  faults      (* how many calls of ZeroMQ threw                              *)

sockets == <<requests, answers, faults>>
loops   == <<stage, read, result>>
replier == <<listener, round, relisten, taken, handling, handled, rejected>>
client  == <<outcome, hasty>>
vars == <<setup, sockets, loops, replier, lost, client>>

pattern  == setup.pattern
Owner[r \in Requests] == setup.owner[r]
What[r \in Requests]  == setup.what[r]
Requested(q) == {r \in Requests : Owner[r] = q}

Listened == {Listen(k) : k \in 1 .. round}

TypeOK ==
  /\ setup \in Setups
  /\ requests \in [Requesters -> Seq(Requests)]
  /\ answers \in [Requesters -> Seq(Answers)]
  /\ \A q \in Requesters : /\ Len(requests[q]) <= RequestMark
                           /\ Len(answers[q]) <= ResponseMark
  /\ stage \in [Ops -> {"idle", "poll", "asked", "got", "done"}]
  /\ read \in [Ops -> Messages \cup {Null, Sent, Failed}]
  /\ result \in [Ops -> Messages \cup {Unset, Sent, Stopped, Failed}]
  /\ listener \in {Unset, Stopped, Failed}
  /\ round \in 0 .. Cardinality(Requests) + 1 /\ relisten \in {0, 1}
  /\ taken \subseteq Rounds
  /\ handling \cup handled \cup rejected \cup lost \subseteq Requests
  /\ outcome \in [Requests -> Answers \cup {Unset, Failed}]
  /\ hasty \subseteq Requesters
  /\ faults \in 0 .. MaxFaults

Init ==
  /\ setup \in Setups
  /\ requests = [q \in Requesters |-> <<>>]
  /\ answers = [q \in Requesters |-> <<>>]
  /\ stage = [o \in Ops |-> "idle"]
  /\ read = [o \in Ops |-> Null]
  /\ result = [o \in Ops |-> Unset]
  /\ listener = Unset /\ round = 0 /\ relisten = 1 /\ taken = {}
  /\ handling = {} /\ handled = {} /\ rejected = {} /\ lost = {}
  /\ outcome = [r \in Requests |-> Unset]
  /\ hasty = {}
  /\ faults = 0

-----------------------------------------------------------------------------
(***************************************************************************)
(* Socket.cpp and the actor of Context.cpp.                                *)
(***************************************************************************)

\* Mutant: the loop does not look whether its promise is already set.
Schedule_Always(o) ==
  /\ stage[o] = "poll"
  /\ stage' = [stage EXCEPT ![o] = "asked"]
  /\ UNCHANGED <<setup, sockets, read, result, replier, lost, client>>

\* schedule_recv, schedule_send: the loop ends when its promise has a result,
\* else it sends a message to the actor of the socket.
Schedule(o) ==
  /\ stage[o] = "poll"
  /\ stage' = [stage EXCEPT ![o] = IF result[o] # Unset THEN "done" ELSE "asked"]
  /\ UNCHANGED <<setup, sockets, read, result, replier, lost, client>>

\* The actor returns a value.  The callback after Null only schedules the loop
\* again in 10 ms, and is part of this step.
Return(o, value) ==
  /\ stage' = [stage EXCEPT ![o] = IF value = Null THEN "poll" ELSE "got"]
  /\ read' = [read EXCEPT ![o] = value]
  /\ UNCHANGED <<setup, result, replier, lost, client>>

NextAnswer(q) == IF answers[q] = <<>> THEN Null ELSE Head(answers[q])

\* The router takes from any of its pipes.
RouterRecv(o) ==
  /\ UNCHANGED answers
  /\ \/ /\ \A q \in Requesters : requests[q] = <<>>
        /\ Return(o, Null)
        /\ UNCHANGED requests
     \/ \E q \in Requesters :
          /\ requests[q] # <<>>
          /\ Return(o, Head(requests[q]))
          /\ requests' = [requests EXCEPT ![q] = Tail(@)]

\* Mutant: an answer that is read stays in the pipe.
recv_Peek(o) ==
  /\ stage[o] = "asked" /\ o \in Recvs
  /\ UNCHANGED faults
  /\ IF o[1] = "listen" THEN RouterRecv(o)
     ELSE Return(o, NextAnswer(Owner[o[2]])) /\ UNCHANGED <<requests, answers>>

\* recv(): the next message, or Null when there is none.
recv(o) ==
  /\ stage[o] = "asked" /\ o \in Recvs
  /\ UNCHANGED faults
  /\ IF o[1] = "listen" THEN RouterRecv(o)
     ELSE LET q == Owner[o[2]] IN
          /\ Return(o, NextAnswer(q))
          /\ answers' = [answers EXCEPT ![q] = IF @ = <<>> THEN @ ELSE Tail(@)]
          /\ UNCHANGED requests

\* What becomes of a message given to a full socket (external): a dealer refuses
\* it, a router drops it; a publisher also drops what nobody has subscribed to.
Full(o) ==
  IF o[1] = "ask" THEN Len(requests[Owner[o[2]]]) = RequestMark
                  ELSE Len(answers[Owner[o[2]]]) = ResponseMark
Refuses(o) == o[1] = "ask" /\ pattern = "reply" /\ Full(o)
Drops(o)   == \/ o[1] = "answer" /\ Full(o)
              \/ o[1] = "ask" /\ pattern = "publish"

\* Mutant: the error goes into the frame of the response.
Frames_OneFrame(r) == [of |-> r, body |-> "value"]

\* The frames of an answer: an empty response tells that there is an error.
Frames(r) == [of |-> r, body |-> IF What[r] = "value" THEN "value" ELSE "error"]

\* send(): the frames go to the pipe; Null when the socket refuses them.
send(o) ==
  /\ stage[o] = "asked" /\ o \in Sends
  /\ UNCHANGED faults
  /\ Return(o, IF Refuses(o) THEN Null ELSE Sent)
  /\ \/ /\ Refuses(o) \/ Drops(o)
        /\ UNCHANGED <<requests, answers>>
     \/ /\ ~Full(o) /\ o[1] = "ask"
        /\ requests' = [requests EXCEPT ![Owner[o[2]]] = Append(@, o[2])]
        /\ UNCHANGED answers
     \/ /\ ~Full(o) /\ o[1] = "answer"
        /\ answers' = [answers EXCEPT ![Owner[o[2]]] = Append(@, Frames(o[2]))]
        /\ UNCHANGED requests

\* ZeroMQ throws: the actor returns an Error.
Throw(o) ==
  /\ stage[o] = "asked"
  /\ faults < MaxFaults
  /\ faults' = faults + 1
  /\ UNCHANGED <<requests, answers>>
  /\ Return(o, Failed)

\* Mutant: the last result counts.
Callback_Last(o) ==
  /\ stage[o] = "got"
  /\ stage' = [stage EXCEPT ![o] = "done"]
  /\ read' = [read EXCEPT ![o] = Null]
  /\ result' = [result EXCEPT ![o] = read[o]]
  /\ UNCHANGED <<setup, sockets, replier, lost, client>>

\* The callbacks of schedule_recv and schedule_send set the promise, unless
\* somebody has set it before.
Callback(o) ==
  /\ stage[o] = "got"
  /\ stage' = [stage EXCEPT ![o] = "done"]
  /\ read' = [read EXCEPT ![o] = Null]
  /\ result' = [result EXCEPT ![o] = IF @ = Unset THEN read[o] ELSE @]
  /\ lost' = IF result[o] = Unset THEN lost ELSE lost \cup ({read[o]} \cap Requests)
  /\ UNCHANGED <<setup, sockets, replier, client>>

-----------------------------------------------------------------------------
(***************************************************************************)
(* Requester.cpp and Publisher.cpp.                                        *)
(***************************************************************************)
Unanswered(q) ==
  {r \in Requested(q) : stage[Ask(r)] # "idle" /\ outcome[r] \notin Answers}

\* send() of the requester's mailbox: arguments that cannot be encoded make an
\* Error, else the frames are sent.
RequesterSend(r) ==
  LET q == Owner[r] IN
  /\ pattern = "reply"
  /\ stage[Ask(r)] = "idle" /\ outcome[r] = Unset
  /\ IF What[r] = "unencodable"
     THEN /\ outcome' = [outcome EXCEPT ![r] = Failed]
          /\ UNCHANGED <<stage, hasty>>
     ELSE /\ stage' = [stage EXCEPT ![Ask(r)] = "poll"]
          /\ hasty' = IF Unanswered(q) = {} THEN hasty ELSE hasty \cup {q}
          /\ UNCHANGED outcome
  /\ UNCHANGED <<setup, sockets, read, result, replier, lost>>

\* The callback after send: the dealer receives.  An Error goes to the promise
\* that Requester::send returned.
ThenRecv(r) ==
  /\ pattern = "reply" /\ stage[Await(r)] = "idle" /\ outcome[r] = Unset
  /\ \/ /\ result[Ask(r)] = Sent
        /\ stage' = [stage EXCEPT ![Await(r)] = "poll"]
        /\ UNCHANGED outcome
     \/ /\ result[Ask(r)] = Failed
        /\ outcome' = [outcome EXCEPT ![r] = Failed]
        /\ UNCHANGED stage
  /\ UNCHANGED <<setup, sockets, read, result, replier, lost, hasty>>

\* The callback after recv: the answer that was received, whosever it is.
ThenUnpack(r) ==
  /\ result[Await(r)] # Unset /\ outcome[r] = Unset
  /\ outcome' = [outcome EXCEPT ![r] = result[Await(r)]]
  /\ UNCHANGED <<setup, sockets, loops, replier, lost, hasty>>

\* publish(): like a request, without an answer.
Publish(r) ==
  /\ pattern = "publish"
  /\ stage[Ask(r)] = "idle" /\ outcome[r] = Unset
  /\ IF What[r] = "unencodable"
     THEN outcome' = [outcome EXCEPT ![r] = Failed] /\ UNCHANGED stage
     ELSE stage' = [stage EXCEPT ![Ask(r)] = "poll"] /\ UNCHANGED outcome
  /\ UNCHANGED <<setup, sockets, read, result, replier, lost, hasty>>

-----------------------------------------------------------------------------
(***************************************************************************)
(* Replier.cpp and Subscriber.cpp, whose loops are alike.                  *)
(***************************************************************************)

\* schedule_reply, schedule_listen: nothing when the promise of reply() has a
\* result, else one more recv, whose promise follows it.
ScheduleListen ==
  /\ relisten > 0
  /\ relisten' = relisten - 1
  /\ IF listener # Unset THEN UNCHANGED <<stage, round>>
     ELSE /\ round' = round + 1
          /\ stage' = [stage EXCEPT ![Listen(round + 1)] = "poll"]
  /\ UNCHANGED <<setup, sockets, read, result, listener, taken, handling,
                 handled, rejected, lost, client>>

\* Somebody sets the promise that reply() or listen() returned.
Stop ==
  /\ listener = Unset
  /\ listener' = Stopped
  /\ UNCHANGED <<setup, sockets, loops, round, relisten, taken, handling,
                 handled, rejected, lost, client>>

\* set_result_from_promise: the promise of a recv gets the result of the promise
\* it follows, unless it has one.
Adopt(k) ==
  /\ k <= round /\ listener # Unset /\ result[Listen(k)] = Unset
  /\ result' = [result EXCEPT ![Listen(k)] = listener]
  /\ UNCHANGED <<setup, sockets, stage, read, replier, lost, client>>

\* reply() and listen() of a message: one that is not understood is dropped, the
\* others go to the actor's mailbox or to the callback of the subscriber.
Understand(r) ==
  IF What[r] = "malformed"
  THEN rejected' = rejected \cup {r} /\ UNCHANGED handling
  ELSE handling' = handling \cup {r} /\ UNCHANGED rejected

\* Mutant: the replier listens again only after a message it understood.
ThenReply_Understood(k) ==
  LET message == result[Listen(k)] IN
  /\ k <= round /\ k \notin taken /\ message # Unset
  /\ taken' = taken \cup {k}
  /\ IF message \in Requests
     THEN /\ relisten' = relisten + (IF What[message] = "malformed" THEN 0 ELSE 1)
          /\ Understand(message)
          /\ UNCHANGED listener
     ELSE /\ listener' = IF message = Failed /\ listener = Unset THEN Failed
                                                              ELSE listener
          /\ UNCHANGED <<relisten, handling, rejected>>
  /\ UNCHANGED <<setup, sockets, loops, round, handled, lost, client>>

\* The callbacks of a recv of the replier: the next call of schedule_reply is
\* scheduled and the message is replied to; an Error ends reply(); another value
\* ends the loop.
ThenReply(k) ==
  LET message == result[Listen(k)] IN
  /\ k <= round /\ k \notin taken /\ message # Unset
  /\ taken' = taken \cup {k}
  /\ IF message \in Requests
     THEN /\ relisten' = relisten + 1
          /\ Understand(message)
          /\ UNCHANGED listener
     ELSE /\ listener' = IF message = Failed /\ listener = Unset THEN Failed
                                                              ELSE listener
          /\ UNCHANGED <<relisten, handling, rejected>>
  /\ UNCHANGED <<setup, sockets, loops, round, handled, lost, client>>

\* The actor has a result for a request and the router sends it; the Undefined
\* result calls no callback.  The callback of a subscriber returns.
Handled(r) ==
  /\ r \in handling /\ r \notin handled
  /\ handled' = handled \cup {r}
  /\ stage' = [stage EXCEPT ![Answer(r)] =
                 IF pattern = "reply" /\ What[r] # "undefined" THEN "poll" ELSE @]
  /\ UNCHANGED <<setup, sockets, read, result, listener, round, relisten,
                 taken, handling, rejected, lost, client>>

-----------------------------------------------------------------------------
Step(o) == Schedule(o) \/ recv(o) \/ send(o) \/ Callback(o)

Next ==
  \/ \E o \in Ops : Step(o) \/ Throw(o)
  \/ \E r \in Requests : \/ RequesterSend(r) \/ Publish(r)
                         \/ ThenRecv(r) \/ ThenUnpack(r) \/ Handled(r)
  \/ ScheduleListen \/ Stop
  \/ \E k \in Rounds : Adopt(k) \/ ThenReply(k)

Spec == Init /\ [][Next]_vars

(***************************************************************************)
(* What the code schedules is executed and an actor handles its messages.  *)
(* Nothing makes a client send, or somebody stop a replier.                *)
(***************************************************************************)
Fairness ==
  /\ \A o \in Ops : WF_vars(Step(o) \/ Throw(o))
  /\ \A r \in Requests : WF_vars(ThenRecv(r) \/ ThenUnpack(r) \/ Handled(r))
  /\ \A k \in Rounds : WF_vars(Adopt(k) \/ ThenReply(k))
  /\ WF_vars(ScheduleListen)

FairSpec == Spec /\ Fairness

-----------------------------------------------------------------------------
(***************************************************************************)
(* Properties.                                                             *)
(***************************************************************************)
Delivered(r) == Sent \in {read[Ask(r)], result[Ask(r)]}

\* The places where a message is: in a pipe, in the hands of a loop, received and
\* not yet looked at, or what became of it.
Places(r) ==
  ({"pipe"} \X {i \in DOMAIN requests[Owner[r]] : requests[Owner[r]][i] = r})
  \cup ({"read"} \X {k \in Rounds : read[Listen(k)] = r})
  \cup ({"received"} \X {k \in Rounds \ taken : result[Listen(k)] = r})
  \cup {end \in {<<"handling", handling>>, <<"rejected", rejected>>, <<"lost", lost>>} :
           r \in end[2]}

\* A request that was sent is in exactly one place, a publication in one at most,
\* so that none is handled twice or dropped between the loops of a replier; only a
\* replier that is being stopped, or that failed, loses one, and no more than one.
EachMessageOnce ==
  /\ \A r \in Requests :
       /\ Cardinality(Places(r)) <= 1
       /\ (pattern = "reply" /\ Delivered(r)) => Places(r) # {}
       /\ Places(r) # {} => Delivered(r)
  /\ lost # {} => (listener # Unset /\ Cardinality(lost) = 1)

\* An answer that completes a message is the result of a request of the same
\* requester that was handled, and no answer completes two messages.
AnswersAreResults ==
  \A r \in Requests : outcome[r] \in Answers =>
    /\ outcome[r].of \in handled /\ Owner[outcome[r].of] = Owner[r]
    /\ outcome[r].body = "value" <=> What[outcome[r].of] = "value"
    /\ \A s \in Requests \ {r} : outcome[s] # outcome[r]

\* A requester that waits for each answer before it sends again gets the answer
\* of its own message: nothing is left over from an earlier one.
SerialAnswersAreOwn ==
  \A r \in Requests :
    (outcome[r] \in Answers /\ Owner[r] \notin hasty) => outcome[r].of = r

\* README.md: the callback of the promise that sending a message returned gets
\* "the value returned by the message".
AnswersAreOwn ==
  \A r \in Requests : outcome[r] \in Answers => outcome[r].of = r

Answerable(q) == \A r \in Requested(q) : What[r] \notin {"undefined", "malformed"}

\* Messages that were sent and wait for an answer, and answers that the router sent
\* and that are in no pipe, no loop and no promise: those it dropped.
Waiting(q) == {r \in Requested(q) : stage[Ask(r)] # "idle" /\ outcome[r] = Unset}
Dropped(q) ==
  {r \in Requested(q) :
     /\ Sent \in {read[Answer(r)], result[Answer(r)]}
     /\ \A i \in DOMAIN answers[q] : answers[q][i] # Frames(r)
     /\ \A s \in Requested(q) : Frames(r) \notin {read[Await(s)], result[Await(s)]}}

\* While the replier runs and ZeroMQ does not throw, a requester whose messages are
\* understood and have results ends up waiting for as many messages as the router
\* dropped of its answers at the high water mark, about which nobody hears; and
\* none is dropped of a requester that waits for each answer before it sends again.
EveryRequestAnswered ==
  \A q \in Requesters : (pattern = "reply" /\ Answerable(q)) =>
    []<>(\/ listener # Unset \/ faults > 0
         \/ /\ Cardinality(Waiting(q)) = Cardinality(Dropped(q))
            /\ Dropped(q) # {} => q \in hasty)

\* Setting the promise of reply() or listen() ends the loops of the replier or of
\* the subscriber for good, whatever they are doing.
StopEndsListening ==
  listener # Unset ~> [](relisten = 0 /\ \A o \in Listened : stage[o] = "done")

=============================================================================
