------------------------------- MODULE Queue -------------------------------
(***************************************************************************)
(* traeger::Queue (src/traeger/actor/Queue.cpp): values that go from the   *)
(* threads that push them to the threads that pop them, until it is closed.*)
(* A critical section of the mutex is one action; a blocking pop() that    *)
(* finds nothing is two, going to sleep and resuming.                      *)
(***************************************************************************)
EXTENDS Naturals, Sequences, FiniteSets, Functions

CONSTANTS Consumers, Values

ASSUME QueueAssumption == IsFiniteSet(Consumers)

VARIABLES
  queue,    (* queue_                                                        *)
  closed,   (* closed_                                                       *)
  pc,       (* a consumer calls pop() until it returns nullopt:              *)
            (* "ready" to call, "waiting", "woken", or "done"                *)
  taken,    (* what each consumer got out of pop(), in order                 *)
  drained,  (* what pop(List) took out, in order                             *)
  pushed,   (* history: what push() accepted, in order                       *)
  refused   (* the values that push() refused                                *)

vars == <<queue, closed, pc, taken, drained, pushed, refused>>

TypeOK ==
  /\ queue \in Seq(Values) /\ drained \in Seq(Values) /\ pushed \in Seq(Values)
  /\ closed \in BOOLEAN
  /\ pc \in [Consumers -> {"ready", "waiting", "woken", "done"}]
  /\ taken \in [Consumers -> Seq(Values)]
  /\ refused \in SUBSET Values

Init ==
  /\ queue = <<>> /\ drained = <<>> /\ pushed = <<>>
  /\ closed = FALSE
  /\ pc = [c \in Consumers |-> "ready"]
  /\ taken = [c \in Consumers |-> <<>>]
  /\ refused = {}

Waiting == {c \in Consumers : pc[c] = "waiting"}

notify_one ==
  IF Waiting = {} THEN {pc} ELSE {[pc EXCEPT ![c] = "woken"] : c \in Waiting}

\* Mutant: closed_ is not looked at.
push_Always(v) ==
  /\ v \notin Range(pushed) \cup refused
  /\ queue' = Append(queue, v) /\ pushed' = Append(pushed, v)
  /\ pc' \in notify_one
  /\ UNCHANGED <<closed, taken, drained, refused>>

\* Mutant: only a consumer that finds the queue empty can be asleep.
push_NotifyFirst(v) ==
  /\ v \notin Range(pushed) \cup refused
  /\ \/ /\ ~closed
        /\ queue' = Append(queue, v) /\ pushed' = Append(pushed, v)
        /\ pc' \in IF queue = <<>> THEN notify_one ELSE {pc}
        /\ UNCHANGED refused
     \/ /\ closed
        /\ refused' = refused \cup {v}
        /\ UNCHANGED <<queue, pushed, pc>>
  /\ UNCHANGED <<closed, taken, drained>>

push(v) ==
  /\ v \notin Range(pushed) \cup refused
  /\ \/ /\ ~closed
        /\ queue' = Append(queue, v) /\ pushed' = Append(pushed, v)
        /\ pc' \in notify_one
        /\ UNCHANGED refused
     \/ /\ closed
        /\ refused' = refused \cup {v}
        /\ UNCHANGED <<queue, pushed, pc>>
  /\ UNCHANGED <<closed, taken, drained>>

(***************************************************************************)
(* pop()                                                                   *)
(***************************************************************************)
InPop(c) == pc[c] \in {"ready", "woken"}

PopWait(c) ==
  /\ InPop(c) /\ ~closed /\ queue = <<>>
  /\ pc' = [pc EXCEPT ![c] = "waiting"]
  /\ UNCHANGED <<queue, closed, taken, drained, pushed, refused>>

\* Mutant: the last value is taken.
PopValue_Last(c) ==
  /\ InPop(c) /\ queue # <<>>
  /\ taken' = [taken EXCEPT ![c] = Append(@, queue[Len(queue)])]
  /\ queue' = SubSeq(queue, 1, Len(queue) - 1)
  /\ pc' = [pc EXCEPT ![c] = "ready"]
  /\ UNCHANGED <<closed, drained, pushed, refused>>

PopValue(c) ==
  /\ InPop(c) /\ queue # <<>>
  /\ taken' = [taken EXCEPT ![c] = Append(@, Head(queue))]
  /\ queue' = Tail(queue)
  /\ pc' = [pc EXCEPT ![c] = "ready"]
  /\ UNCHANGED <<closed, drained, pushed, refused>>

\* closed and empty: nullopt, the consumer's loop ends
PopNothing(c) ==
  /\ InPop(c) /\ closed /\ queue = <<>>
  /\ pc' = [pc EXCEPT ![c] = "done"]
  /\ UNCHANGED <<queue, closed, taken, drained, pushed, refused>>

SpuriousWakeup(c) ==
  /\ pc[c] = "waiting"
  /\ pc' = [pc EXCEPT ![c] = "woken"]
  /\ UNCHANGED <<queue, closed, taken, drained, pushed, refused>>

\* Mutant: the values go into the list as one element.
pop_list_Nested ==
  /\ queue # <<>>
  /\ drained' = Append(drained, queue)
  /\ queue' = <<>>
  /\ UNCHANGED <<closed, pc, taken, pushed, refused>>

\* pop(List): everything there is, without waiting
pop_list ==
  /\ queue # <<>>
  /\ drained' = drained \o queue
  /\ queue' = <<>>
  /\ UNCHANGED <<closed, pc, taken, pushed, refused>>

\* Mutant: close() tells nobody.
close_Silent ==
  /\ closed' = TRUE
  /\ UNCHANGED <<queue, pc, taken, drained, pushed, refused>>

close ==
  /\ closed' = TRUE
  /\ pc' \in notify_one
  /\ UNCHANGED <<queue, taken, drained, pushed, refused>>

pop(c) == PopWait(c) \/ PopValue(c) \/ PopNothing(c)

Next ==
  \/ \E v \in Values : push(v)
  \/ \E c \in Consumers : pop(c) \/ SpuriousWakeup(c)
  \/ pop_list \/ close

Spec == Init /\ [][Next]_vars

\* Consumers that are not asleep call pop(), nobody has to push or to close.
FairSpec == Spec /\ \A c \in Consumers : WF_vars(pop(c))

-----------------------------------------------------------------------------
\* Nobody sleeps beside a value that no one comes for: a consumer is asleep only
\* if there are as many consumers on their way to the queue as there are values.
\* A consumer that was not asleep may take the value another was woken for.
NoLostWakeup ==
  Waiting # {} =>
    Len(queue) <= Cardinality({c \in Consumers : pc[c] \in {"ready", "woken"}})

\* Each value that was accepted is in one place: with one of the consumers, with
\* pop(List), or in the queue; and each of them sees the order of the pushes.
InOrder(s) ==
  \A i, j \in DOMAIN s : i < j =>
    \E k, l \in DOMAIN pushed : k < l /\ s[i] = pushed[k] /\ s[j] = pushed[l]

DeliveredInOrder ==
  /\ InOrder(queue) /\ InOrder(drained)
  /\ \A c \in Consumers : InOrder(taken[c])
  /\ Len(pushed) = Len(queue) + Len(drained)
                     + Cardinality({p \in Consumers \X DOMAIN pushed :
                                      p[2] \in DOMAIN taken[p[1]]})

Ended == \E c \in Consumers : pc[c] = "done"

\* Once a consumer has seen the end of the queue there is no value to come.
EndIsFinal == [][Ended => queue' = <<>>]_vars

\* Once the queue is closed some consumer's loop ends.
CloseEndsOne == closed ~> Ended

\* The loop of each consumer ends.
CloseEnds == \A c \in Consumers : closed ~> (pc[c] = "done")
=============================================================================
