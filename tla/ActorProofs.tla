---------------------------- MODULE ActorProofs ----------------------------
(***************************************************************************)
(* Proofs about module StatelessActor, for any number of threads, senders, *)
(* messages and methods.                                                   *)
(***************************************************************************)
EXTENDS StatelessActor, FiniteSetTheorems, SequenceTheorems, TLAPS

\* A thread that holds execution_mutex_ executes a task of the queue.
HoldersHaveTasks == \A t \in Holders : task[t] \in Tasks

TypeInv == TypeOK /\ HoldersHaveTasks

LEMMA TypeInit == Init => TypeInv
  BY ActorAssumption, EmptySeq DEF Init, TypeInv, TypeOK, HoldersHaveTasks, Holders

LEMMA HeadAndTail ==
  ASSUME NEW S, NEW s \in Seq(S), s # <<>>
  PROVE  Head(s) \in S /\ Tail(s) \in Seq(S) /\ Len(Tail(s)) = Len(s) - 1
  OBVIOUS

LEMMA TypeStep == TypeInv /\ [Next]_vars => TypeInv'
<1> SUFFICES ASSUME TypeInv, [Next]_vars PROVE TypeInv'
  OBVIOUS
<1> USE DEF actor
<1>1. ASSUME NEW name \in Names, NEW concurrency \in Kinds, define(name, concurrency)
      PROVE  TypeInv'
  BY <1>1 DEF define, TypeInv, TypeOK, HoldersHaveTasks, Holders
<1>2. CASE take_mailbox
  BY <1>2 DEF take_mailbox, TypeInv, TypeOK, HoldersHaveTasks, Holders
<1>3. ASSUME NEW s \in Senders, NEW m \in Messages, NEW name \in Names, push(s, m, name)
      PROVE  TypeInv'
  <2> DEFINE new == [msg |-> m, kind |-> mailbox[name]]
  <2>1. new \in Tasks
    BY <1>3 DEF push, TypeInv, TypeOK, Tasks
  <2>2. Append(tasks, new) \in Seq(Tasks) /\ Append(received, new) \in Seq(Tasks)
    BY <2>1, AppendProperties DEF TypeInv, TypeOK
  <2> QED
    BY <1>3, <2>2 DEF push, TypeInv, TypeOK, HoldersHaveTasks, Holders
<1>4. ASSUME NEW s \in Senders, NEW m \in Messages, NEW name \in Names,
             no_such_method(s, m, name)
      PROVE  TypeInv'
  BY <1>4 DEF no_such_method, TypeInv, TypeOK, HoldersHaveTasks, Holders
<1>5. ASSUME NEW s \in Senders, ScheduleSent(s) PROVE TypeInv'
  BY <1>5 DEF ScheduleSent, schedule_next, TypeInv, TypeOK, HoldersHaveTasks, Holders
<1>6. ASSUME NEW t \in Threads, StartDrainer(t) PROVE TypeInv'
  BY <1>6 DEF StartDrainer, Goto, TypeInv, TypeOK, HoldersHaveTasks, Holders
<1>7. ASSUME NEW t \in Threads, TakeTask(t) PROVE TypeInv'
  <2>1. Head(tasks) \in Tasks /\ Tail(tasks) \in Seq(Tasks)
    BY <1>7, HeadAndTail DEF TakeTask, Ready, TypeInv, TypeOK
  <2>2. HoldersHaveTasks'
    BY <1>7, <2>1 DEF TakeTask, Goto, TypeInv, TypeOK, HoldersHaveTasks, Holders
  <2> QED
    BY <1>7, <2>1, <2>2 DEF TakeTask, Goto, TypeInv, TypeOK
<1>8. ASSUME NEW t \in Threads, NoTaskTaken(t) PROVE TypeInv'
  BY <1>8 DEF NoTaskTaken, Goto, TypeInv, TypeOK, HoldersHaveTasks, Holders
<1>9. ASSUME NEW t \in Threads, Execute(t) PROVE TypeInv'
  <2>1. task[t] \in Tasks
    BY <1>9 DEF Execute, TypeInv, HoldersHaveTasks, Holders
  <2>2. Append(loaded[t], task[t].msg) \in Seq(Messages)
    BY <2>1, AppendProperties DEF Tasks, TypeInv, TypeOK
  <2>3. applied' \in Seq(Messages)
    BY <1>9, <2>2 DEF Execute, TypeInv, TypeOK
  <2>4. answer' \in [Messages -> Seq(Messages) \cup {NoAnswer, Error}]
    BY <1>9, <2>3 DEF Execute, TypeInv, TypeOK
  <2>5. HoldersHaveTasks'
    BY <1>9 DEF Execute, Goto, TypeInv, TypeOK, HoldersHaveTasks, Holders
  <2> QED
    BY <1>9, <2>3, <2>4, <2>5 DEF Execute, Goto, TypeInv, TypeOK
<1>10. ASSUME NEW t \in Threads, Unlock(t) PROVE TypeInv'
  <2>1. loaded' \in [Threads -> Seq(Messages)]
    BY <1>10, EmptySeq DEF Unlock, TypeInv, TypeOK
  <2> QED
    BY <1>10, <2>1 DEF Unlock, Goto, TypeInv, TypeOK, HoldersHaveTasks, Holders
<1>11. ASSUME NEW t \in Threads, EndDrainer(t) PROVE TypeInv'
  BY <1>11 DEF EndDrainer, schedule_next, Goto, TypeInv, TypeOK, HoldersHaveTasks,
     Holders
<1>12. CASE UNCHANGED vars
  BY <1>12 DEF vars, TypeInv, TypeOK, HoldersHaveTasks, Holders
<1> QED
  BY <1>1, <1>2, <1>3, <1>4, <1>5, <1>6, <1>7, <1>8, <1>9, <1>10, <1>11, <1>12
     DEF Next, send, Worker

\* The variables keep to their types, in particular a drainer is only started
\* when one is scheduled and the state of the actor is made of messages.
THEOREM Typing == Spec => []TypeOK
<1>1. TypeInv => TypeOK
  BY DEF TypeInv
<1> QED
  BY <1>1, TypeInit, TypeStep, PTL DEF Spec

-----------------------------------------------------------------------------
LEMMA ExclusionStep ==
  ASSUME TypeInv, WriterAlone, [Next]_vars
  PROVE  WriterAlone'
<1>0. ASSUME Holders' \subseteq Holders, \A t \in Holders' : task'[t] = task[t]
      PROVE  WriterAlone'
  BY <1>0 DEF WriterAlone
<1>1. ASSUME NEW t \in Threads, TakeTask(t) PROVE WriterAlone'
  <2>1. Holders' = Holders \cup {t} /\ t \notin Holders
    BY <1>1 DEF TakeTask, Goto, Holders, TypeInv, TypeOK
  <2>2. task'[t] = Head(tasks) /\ \A u \in Holders : task'[u] = task[u]
    BY <1>1, <2>1 DEF TakeTask, Holders, TypeInv, TypeOK
  <2>3. \A u \in Holders : Head(tasks).kind = SHARED /\ task[u].kind = SHARED
    BY <1>1 DEF TakeTask, Ready, try_lock
  <2> QED
    BY <2>1, <2>2, <2>3 DEF WriterAlone
<1>2. ASSUME NEW t \in Threads,
             StartDrainer(t) \/ NoTaskTaken(t) \/ Execute(t) \/ EndDrainer(t)
      PROVE  WriterAlone'
  <2>1. Holders' = Holders /\ task' = task
    BY <1>2 DEF StartDrainer, NoTaskTaken, Execute, EndDrainer, Goto, Holders, TypeInv,
       TypeOK
  <2> QED
    BY <1>0, <2>1
<1>3. ASSUME NEW t \in Threads, Unlock(t) PROVE WriterAlone'
  <2>1. Holders' = Holders \ {t}
    BY <1>3 DEF Unlock, Goto, Holders, TypeInv, TypeOK
  <2>2. \A u \in Holders' : task'[u] = task[u]
    BY <1>3, <2>1 DEF Unlock, Holders, TypeInv, TypeOK
  <2> QED
    BY <1>0, <2>1, <2>2
<1>4. ASSUME UNCHANGED <<pc, task>> PROVE WriterAlone'
  BY <1>4 DEF WriterAlone, Holders
<1> QED
  BY <1>1, <1>2, <1>3, <1>4
     DEF Next, define, take_mailbox, send, push, no_such_method, ScheduleSent, Worker, vars

\* A task executes under a shared_mutex that is given by try_lock at the front of
\* the queue: two of them are never inside at once unless both are readers.
THEOREM WritersAlone == Spec => []WriterAlone
<1>1. Init => WriterAlone
  BY DEF Init, WriterAlone, Holders
<1> QED
  BY <1>1, TypeInit, TypeStep, ExclusionStep, PTL DEF Spec

-----------------------------------------------------------------------------
(***************************************************************************)
(* Counting drainers.  A thread that has a drainer is busy; it is about to *)
(* look at the queue again unless it holds execution_mutex_.               *)
(***************************************************************************)
Busy    == {t \in Threads : pc[t] # "idle"}
Looking == {t \in Threads : pc[t] \in {"draining", "rescheduling"}}

\* What EnoughDrainers and NoDrainerLeak say, with the sets named.
Enough == Len(tasks) <= drainers + Cardinality(pushed) + Cardinality(Looking)
NoLeak == drainers + Cardinality(pushed) + Cardinality(Busy) <= Len(received)

CountInv == Enough /\ NoLeak

LEMMA Counts ==
  ASSUME TypeOK
  PROVE  /\ Len(tasks) \in Nat /\ Len(received) \in Nat /\ drainers \in Nat
         /\ IsFiniteSet(pushed) /\ Cardinality(pushed) \in Nat
         /\ IsFiniteSet(Looking) /\ Cardinality(Looking) \in Nat
         /\ IsFiniteSet(Busy) /\ Cardinality(Busy) \in Nat
<1>1. pushed \in SUBSET Senders /\ Looking \in SUBSET Threads /\ Busy \in SUBSET Threads
  BY DEF TypeOK, Looking, Busy
<1>2. IsFiniteSet(pushed) /\ IsFiniteSet(Looking) /\ IsFiniteSet(Busy)
  BY <1>1, ActorAssumption, FS_Subset
<1> QED
  BY <1>2, FS_CardinalityType DEF TypeOK

\* schedule_next() leaves one more drainer, or there is no task.
LEMMA ScheduleNext ==
  \/ schedule_next = drainers + 1
  \/ schedule_next = drainers /\ tasks = <<>>
  BY DEF schedule_next

LEMMA CountInit ==
  ASSUME Init
  PROVE  CountInv
<1>1. Looking = {} /\ Busy = {} /\ pushed = {}
  BY DEF Init, Looking, Busy
<1>2. /\ Cardinality(Looking) = 0 /\ Cardinality(Busy) = 0 /\ Cardinality(pushed) = 0
  BY <1>1, FS_EmptySet
<1>3. drainers = 0 /\ Len(tasks) = 0 /\ Len(received) = 0
  BY DEF Init
<1> QED
  BY <1>2, <1>3 DEF CountInv, Enough, NoLeak

LEMMA CountStep ==
  ASSUME TypeInv, TypeInv', CountInv, [Next]_vars
  PROVE  CountInv'
<1> TypeOK /\ TypeOK'
  BY DEF TypeInv
<1>0. ASSUME UNCHANGED <<tasks, received, drainers, pushed, pc>> PROVE CountInv'
  BY <1>0 DEF CountInv, Enough, NoLeak, Looking, Busy
<1>1. ASSUME NEW s \in Senders, NEW m \in Messages, NEW name \in Names, push(s, m, name)
      PROVE  CountInv'
  <2> DEFINE new == [msg |-> m, kind |-> mailbox[name]]
  <2>1. new \in Tasks
    BY <1>1 DEF push, TypeOK, Tasks
  <2>2. tasks' = Append(tasks, new) /\ received' = Append(received, new)
    BY <1>1 DEF push
  <2>3. Len(tasks') = Len(tasks) + 1 /\ Len(received') = Len(received) + 1
    BY <2>1, <2>2, AppendProperties DEF TypeOK
  <2>4. Cardinality(pushed') = Cardinality(pushed) + 1
    BY <1>1, Counts, FS_AddElement DEF push
  <2>5. UNCHANGED <<drainers, Looking, Busy>>
    BY <1>1 DEF push, Looking, Busy
  <2> QED
    BY <2>3, <2>4, <2>5, Counts DEF CountInv, Enough, NoLeak
<1>2. ASSUME NEW s \in Senders, ScheduleSent(s) PROVE CountInv'
  <2>1. Cardinality(pushed') = Cardinality(pushed) - 1
    BY <1>2, Counts, FS_RemoveElement DEF ScheduleSent
  <2>2. UNCHANGED <<tasks, received, Looking, Busy>> /\ drainers' = schedule_next
    BY <1>2 DEF ScheduleSent, Looking, Busy
  <2>3. tasks = <<>> => Len(tasks) = 0
    OBVIOUS
  <2>4. Cardinality(pushed') \in Nat
    BY <1>2, Counts, FS_RemoveElement, FS_CardinalityType DEF ScheduleSent
  <2> QED
    BY <2>1, <2>2, <2>3, <2>4, Counts, ScheduleNext DEF CountInv, Enough, NoLeak
<1>3. ASSUME NEW t \in Threads, StartDrainer(t) PROVE CountInv'
  <2>1. Looking' = Looking \cup {t} /\ t \notin Looking
    BY <1>3 DEF StartDrainer, Goto, Looking, TypeOK
  <2>2. Busy' = Busy \cup {t} /\ t \notin Busy
    BY <1>3 DEF StartDrainer, Goto, Busy, TypeOK
  <2>3. /\ Cardinality(Looking') = Cardinality(Looking) + 1
        /\ Cardinality(Busy') = Cardinality(Busy) + 1
    BY <2>1, <2>2, Counts, FS_AddElement
  <2>4. UNCHANGED <<tasks, received, pushed>> /\ drainers' = drainers - 1
    BY <1>3 DEF StartDrainer
  <2> QED
    BY <2>3, <2>4, Counts DEF CountInv, Enough, NoLeak
<1>4. ASSUME NEW t \in Threads, TakeTask(t) PROVE CountInv'
  <2>1. Looking' = Looking \ {t} /\ t \in Looking
    BY <1>4 DEF TakeTask, Goto, Looking, TypeOK
  <2>2. Busy' = Busy
    BY <1>4 DEF TakeTask, Goto, Busy, TypeOK
  <2>3. Cardinality(Looking') = Cardinality(Looking) - 1
    BY <2>1, Counts, FS_RemoveElement
  <2>4. Len(tasks') = Len(tasks) - 1
    BY <1>4, HeadAndTail DEF TakeTask, Ready, TypeOK
  <2>5. UNCHANGED <<drainers, received, pushed>>
    BY <1>4 DEF TakeTask
  <2> QED
    BY <2>2, <2>3, <2>4, <2>5, Counts DEF CountInv, Enough, NoLeak
<1>5. ASSUME NEW t \in Threads, NoTaskTaken(t) \/ Execute(t) PROVE CountInv'
  <2>1. UNCHANGED <<Looking, Busy>>
    BY <1>5 DEF NoTaskTaken, Execute, Goto, Looking, Busy, TypeOK
  <2>2. UNCHANGED <<tasks, received, drainers, pushed>>
    BY <1>5 DEF NoTaskTaken, Execute
  <2> QED
    BY <2>1, <2>2 DEF CountInv, Enough, NoLeak
<1>6. ASSUME NEW t \in Threads, Unlock(t) PROVE CountInv'
  <2>1. Looking' = Looking \cup {t} /\ t \notin Looking
    BY <1>6 DEF Unlock, Goto, Looking, TypeOK
  <2>2. Busy' = Busy
    BY <1>6 DEF Unlock, Goto, Busy, TypeOK
  <2>3. Cardinality(Looking') = Cardinality(Looking) + 1
    BY <2>1, Counts, FS_AddElement
  <2>4. UNCHANGED <<tasks, received, drainers, pushed>>
    BY <1>6 DEF Unlock
  <2> QED
    BY <2>2, <2>3, <2>4, Counts DEF CountInv, Enough, NoLeak
<1>7. ASSUME NEW t \in Threads, EndDrainer(t) PROVE CountInv'
  <2>1. Looking' = Looking \ {t} /\ t \in Looking
    BY <1>7 DEF EndDrainer, Goto, Looking, TypeOK
  <2>2. Busy' = Busy \ {t} /\ t \in Busy
    BY <1>7 DEF EndDrainer, Goto, Busy, TypeOK
  <2>3. /\ Cardinality(Looking') = Cardinality(Looking) - 1
        /\ Cardinality(Busy') = Cardinality(Busy) - 1
    BY <2>1, <2>2, Counts, FS_RemoveElement
  <2>4. UNCHANGED <<tasks, received, pushed>> /\ drainers' = schedule_next
    BY <1>7 DEF EndDrainer
  <2>5. tasks = <<>> => Len(tasks) = 0
    OBVIOUS
  <2>6. Cardinality(Looking') \in Nat
    BY <2>1, Counts, FS_RemoveElement, FS_CardinalityType
  <2> QED
    BY <2>3, <2>4, <2>5, <2>6, Counts, ScheduleNext DEF CountInv, Enough, NoLeak
<1> QED
  BY <1>0, <1>1, <1>2, <1>3, <1>4, <1>5, <1>6, <1>7
     DEF Next, define, take_mailbox, send, no_such_method, Worker, vars

\* There are always as many drainers that will look at the queue as there are
\* tasks in it: a task never waits for another one's drainer.
THEOREM DrainersEnough == Spec => []EnoughDrainers
<1>1. CountInv => EnoughDrainers
  BY DEF CountInv, Enough, EnoughDrainers, Looking
<1> QED
  BY <1>1, TypeInit, TypeStep, CountInit, CountStep, PTL DEF Spec

\* However often drainers find nothing to do or no lock and schedule themselves
\* again, there are never more of them than messages were received.
THEOREM DrainersBounded == Spec => []NoDrainerLeak
<1>1. CountInv => NoDrainerLeak
  BY DEF CountInv, NoLeak, NoDrainerLeak, Busy
<1> QED
  BY <1>1, TypeInit, TypeStep, CountInit, CountStep, PTL DEF Spec

-----------------------------------------------------------------------------
(***************************************************************************)
(* The refinement.  The tasks are the messages received last; those before *)
(* them were taken in this order, and are answered but for the ones being  *)
(* executed.  A task is taken under the lock, so whatever it conflicts     *)
(* with was taken before it and is answered, or is still in the queue.     *)
(***************************************************************************)
taken == Len(received) - Len(tasks)

Done(i) == answer[received[i].msg] # NoAnswer

Executing(t, i) == pc[t] = "executing" /\ task[t] = received[i]

InConflict(i, j) == EXCLUSIVE \in {received[i].kind, received[j].kind}

QueueIsTail ==
  /\ Len(tasks) <= Len(received)
  /\ \A i \in 1 .. Len(tasks) : tasks[i] = received[taken + i]

SentOnce ==
  /\ \A i, j \in DOMAIN received : received[i].msg = received[j].msg => i = j
  /\ \A i \in DOMAIN received : received[i].msg \notin unsent
  /\ \A m \in unsent : answer[m] = NoAnswer

Progress ==
  /\ \A i \in DOMAIN received : Done(i) => i <= taken
  /\ \A i \in 1 .. taken : Done(i) \/ \E t \in Threads : Executing(t, i)
  /\ \A t \in Threads : pc[t] = "executing" =>
       \E i \in 1 .. taken : task[t] = received[i] /\ ~Done(i)
  /\ \A t, u \in Threads : pc[t] = "executing" /\ pc[u] = "executing" /\ task[t] = task[u] => t = u

InOrder == \A i, j \in 1 .. taken : i < j /\ InConflict(i, j) => Done(i)

\* What a writer has read is still the state of the actor.
FreshState ==
  \A t \in Threads : pc[t] = "executing" /\ task[t].kind = EXCLUSIVE => loaded[t] = applied

RefInv == TypeInv /\ WriterAlone /\ QueueIsTail /\ SentOnce /\ Progress /\ InOrder /\ FreshState

LEMMA RefInit == Init => RefInv
<1> SUFFICES ASSUME Init PROVE RefInv
  OBVIOUS
<1>1. TypeInv
  BY TypeInit
<1>2. WriterAlone
  BY DEF Init, WriterAlone, Holders
<1>3. taken = 0 /\ DOMAIN received = {} /\ Len(tasks) = 0 /\ Len(received) = 0
  BY DEF Init, taken
<1>4. \A t \in Threads : pc[t] # "executing"
  BY DEF Init
<1> QED
  BY <1>1, <1>2, <1>3, <1>4
     DEF Init, RefInv, QueueIsTail, SentOnce, Progress, InOrder, FreshState

\* Indexes of received messages and where they are.
LEMMA Indexes ==
  ASSUME RefInv
  PROVE  /\ Len(received) \in Nat /\ Len(tasks) \in Nat /\ taken \in 0 .. Len(received)
         /\ DOMAIN received = 1 .. Len(received)
         /\ \A i \in DOMAIN received : received[i] \in Tasks /\ received[i].msg \in Messages
         /\ tasks # <<>> => /\ Len(tasks) > 0
                            /\ Head(tasks) = received[taken + 1]
                            /\ taken + 1 \in DOMAIN received
<1>1. Len(received) \in Nat /\ Len(tasks) \in Nat /\ DOMAIN received = 1 .. Len(received)
  BY LenProperties DEF RefInv, TypeInv, TypeOK
<1>2. \A i \in DOMAIN received : received[i] \in Tasks /\ received[i].msg \in Messages
  <2>1. received \in Seq(Tasks)
    BY DEF RefInv, TypeInv, TypeOK
  <2>2. \A i \in DOMAIN received : received[i] \in Tasks
    BY <1>1, <2>1, ElementOfSeq
  <2> QED
    BY <2>2 DEF Tasks
<1>3. Len(tasks) <= Len(received)
  BY DEF RefInv, QueueIsTail
<1>4. ASSUME tasks # <<>> PROVE Len(tasks) > 0 /\ Head(tasks) = tasks[1]
  BY <1>4, <1>1 DEF RefInv, TypeInv, TypeOK
<1> QED
  BY <1>1, <1>2, <1>3, <1>4 DEF taken, RefInv, QueueIsTail

LEMMA PushKeeps ==
  ASSUME RefInv, NEW s \in Senders, NEW m \in Messages, NEW name \in Names, push(s, m, name)
  PROVE  QueueIsTail' /\ SentOnce' /\ Progress' /\ InOrder' /\ FreshState'
<1> DEFINE new == [msg |-> m, kind |-> mailbox[name]]
           n   == Len(received)
<1>1. /\ n \in Nat /\ Len(tasks) \in Nat /\ taken \in 0 .. n /\ DOMAIN received = 1 .. n
      /\ Len(tasks) <= n
  BY Indexes DEF RefInv, QueueIsTail
<1>2. new \in Tasks /\ new.msg = m
  BY DEF push, RefInv, TypeInv, TypeOK, Tasks
<1>3. /\ DOMAIN received' = 1 .. n + 1 /\ Len(received') = n + 1
      /\ \A i \in 1 .. n : received'[i] = received[i]
      /\ received'[n + 1] = new
  BY <1>1, <1>2, AppendProperties DEF push, RefInv, TypeInv, TypeOK
<1>4. /\ Len(tasks') = Len(tasks) + 1
      /\ \A i \in 1 .. Len(tasks) : tasks'[i] = tasks[i]
      /\ tasks'[Len(tasks) + 1] = new
  BY <1>1, <1>2, AppendProperties DEF push, RefInv, TypeInv, TypeOK
<1>5. taken' = taken
  BY <1>1, <1>3, <1>4 DEF taken
<1>6. QueueIsTail'
  <2>1. \A i \in 1 .. Len(tasks) : tasks[i] = received[taken + i] /\ taken + i \in 1 .. n
    BY <1>1 DEF RefInv, QueueIsTail, taken
  <2>2. taken + Len(tasks) + 1 = n + 1
    BY <1>1 DEF taken
  <2>3. \A i \in 1 .. Len(tasks) + 1 : tasks'[i] = received'[taken + i]
    BY <1>1, <1>3, <1>4, <2>1, <2>2
  <2> QED
    BY <1>1, <1>3, <1>4, <1>5, <2>3 DEF QueueIsTail
<1>7. SentOnce'
  <2>1. m \in unsent /\ unsent' = unsent \ {m} /\ answer' = answer
    BY DEF push
  <2>2. \A i \in 1 .. n : received[i].msg # m
    BY <1>1, <2>1 DEF RefInv, SentOnce
  <2>3. \A i, j \in 1 .. n + 1 : received'[i].msg = received'[j].msg => i = j
    BY <1>1, <1>2, <1>3, <2>2 DEF RefInv, SentOnce
  <2>4. \A i \in 1 .. n + 1 : received'[i].msg \notin unsent'
    BY <1>1, <1>2, <1>3, <2>1 DEF RefInv, SentOnce
  <2> QED
    BY <1>3, <2>1, <2>3, <2>4 DEF RefInv, SentOnce
<1>8. \A i \in 1 .. n : Done(i)' = Done(i)
  BY <1>3 DEF push, Done
<1>9. answer'[received'[n + 1].msg] = NoAnswer
  <2>1. m \in unsent /\ answer' = answer /\ received'[n + 1].msg = m
    BY <1>2, <1>3 DEF push
  <2> QED
    BY <2>1 DEF RefInv, SentOnce
<1>10. UNCHANGED <<pc, task, loaded, applied>>
  BY DEF push
<1>11. \A t \in Threads, i \in 1 .. n : Executing(t, i)' = Executing(t, i)
  BY <1>3, <1>10 DEF Executing
<1>12. Progress'
  <2>1. ASSUME NEW i \in 1 .. n + 1, Done(i)' PROVE i <= taken
    <3>1. i # n + 1
      BY <1>9, <2>1 DEF Done
    <3>2. i \in 1 .. n
      BY <1>1, <3>1
    <3> QED
      BY <1>1, <1>8, <2>1, <3>2 DEF RefInv, Progress
  <2>2. \A i \in 1 .. taken : Done(i)' \/ \E t \in Threads : Executing(t, i)'
    BY <1>1, <1>8, <1>11 DEF RefInv, Progress
  <2>3. \A t \in Threads : pc[t] = "executing" =>
          \E i \in 1 .. taken : task[t] = received'[i] /\ ~Done(i)'
    BY <1>1, <1>3, <1>8 DEF RefInv, Progress
  <2> QED
    BY <1>3, <1>5, <1>10, <2>1, <2>2, <2>3 DEF RefInv, Progress
<1>13. InOrder'
  BY <1>1, <1>3, <1>5, <1>8 DEF RefInv, InOrder, InConflict
<1>14. FreshState'
  BY <1>10 DEF RefInv, FreshState
<1> QED
  BY <1>6, <1>7, <1>12, <1>13, <1>14

LEMMA TakeKeeps ==
  ASSUME RefInv, NEW t \in Threads, TakeTask(t)
  PROVE  QueueIsTail' /\ SentOnce' /\ Progress' /\ InOrder' /\ FreshState'
<1> DEFINE n == Len(received)
           k == taken + 1
<1>1. /\ n \in Nat /\ Len(tasks) \in Nat \ {0} /\ taken \in 0 .. n /\ DOMAIN received = 1 .. n
      /\ Len(tasks) <= n /\ k \in 1 .. n /\ Head(tasks) = received[k]
      /\ \A i \in 1 .. n : received[i] \in Tasks
  BY Indexes DEF RefInv, QueueIsTail, TakeTask, Ready
<1>2. /\ Len(tasks') = Len(tasks) - 1
      /\ \A i \in 1 .. Len(tasks) - 1 : tasks'[i] = tasks[i + 1]
  BY <1>1 DEF TakeTask, Ready, RefInv, TypeInv, TypeOK
<1>3. UNCHANGED <<received, unsent, applied, answer>>
  BY DEF TakeTask
<1>4. taken' = k
  BY <1>1, <1>2, <1>3 DEF taken
<1>5. /\ pc[t] # "executing" /\ pc'[t] = "executing" /\ task'[t] = received[k]
      /\ loaded'[t] = applied
      /\ \A u \in Threads \ {t} : pc'[u] = pc[u] /\ task'[u] = task[u] /\ loaded'[u] = loaded[u]
  BY <1>1 DEF TakeTask, Goto, RefInv, TypeInv, TypeOK
<1>6. \A i \in 1 .. n : Done(i)' = Done(i)
  BY <1>3 DEF Done
<1>7. ~Done(k)
  BY <1>1 DEF RefInv, Progress
<1>8. QueueIsTail'
  <2>1. \A i \in 1 .. Len(tasks) : tasks[i] = received[taken + i]
    BY DEF RefInv, QueueIsTail
  <2>2. ASSUME NEW i \in 1 .. Len(tasks) - 1 PROVE tasks'[i] = received[k + i]
    <3>1. taken \in Nat /\ i + 1 \in 1 .. Len(tasks) /\ taken + (i + 1) = k + i
      BY <1>1
    <3> QED
      BY <1>2, <2>1, <3>1
  <2> QED
    BY <1>1, <1>2, <1>3, <1>4, <2>2 DEF QueueIsTail
<1>9. SentOnce'
  BY <1>3 DEF RefInv, SentOnce
<1>10. \A u \in Threads : pc[u] = "executing" => u # t /\ task[u] # received[k]
  BY <1>1, <1>5 DEF RefInv, Progress, SentOnce
<1>11. Progress'
  <2>1. \A i \in 1 .. n : Done(i)' => i <= k
    BY <1>1, <1>6 DEF RefInv, Progress
  <2>2. ASSUME NEW i \in 1 .. k PROVE Done(i)' \/ \E u \in Threads : Executing(u, i)'
    <3>1. CASE i = k
      BY <1>3, <1>5, <3>1 DEF Executing
    <3>2. CASE i # k
      <4>1. i \in 1 .. taken
        BY <1>1, <3>2
      <4>2. Done(i) \/ \E u \in Threads : Executing(u, i)
        BY <4>1 DEF RefInv, Progress
      <4>3. \A u \in Threads : Executing(u, i) => Executing(u, i)'
        BY <1>3, <1>5 DEF Executing
      <4> QED
        BY <1>1, <1>6, <4>1, <4>2, <4>3
    <3> QED
      BY <3>1, <3>2
  <2>3. ASSUME NEW u \in Threads, pc'[u] = "executing"
        PROVE  \E i \in 1 .. k : task'[u] = received'[i] /\ ~Done(i)'
    <3>1. CASE u = t
      BY <1>1, <1>3, <1>5, <1>6, <1>7, <3>1
    <3>2. CASE u # t
      <4>1. PICK i \in 1 .. taken : task[u] = received[i] /\ ~Done(i)
        BY <1>5, <2>3, <3>2 DEF RefInv, Progress
      <4>2. i \in 1 .. k /\ i \in 1 .. n
        BY <1>1
      <4> QED
        BY <1>3, <1>5, <1>6, <3>2, <4>1, <4>2
    <3> QED
      BY <3>1, <3>2
  <2>4. \A u, v \in Threads : pc'[u] = "executing" /\ pc'[v] = "executing"
                                /\ task'[u] = task'[v] => u = v
    BY <1>5, <1>10 DEF RefInv, Progress
  <2> QED
    BY <1>1, <1>3, <1>4, <2>1, <2>2, <2>3, <2>4 DEF Progress
<1>12. ASSUME NEW i \in 1 .. taken, InConflict(i, k) PROVE Done(i)
  <2> SUFFICES ASSUME ~Done(i) PROVE FALSE
    OBVIOUS
  <2>1. PICK u \in Threads : Executing(u, i)
    BY DEF RefInv, Progress
  <2>2. u \in Holders
    BY <2>1 DEF Holders, Executing
  <2>3. received[k].kind = SHARED /\ received[i].kind = SHARED
    BY <1>1, <2>1, <2>2 DEF TakeTask, Ready, try_lock, Executing
  <2> QED
    BY <1>12, <2>3, ActorAssumption DEF InConflict, ActorAssumption
<1>13. InOrder'
  <2>1. ASSUME NEW i \in 1 .. k, NEW j \in 1 .. k, i < j, InConflict(i, j) PROVE Done(i)
    <3>1. CASE j = k
      BY <1>1, <1>12, <2>1, <3>1
    <3>2. CASE j # k
      BY <1>1, <2>1, <3>2 DEF RefInv, InOrder
    <3> QED
      BY <3>1, <3>2
  <2>2. \A i, j \in 1 .. k : InConflict(i, j)' = InConflict(i, j)
    BY <1>3 DEF InConflict
  <2>3. 1 .. k \subseteq 1 .. n
    BY <1>1
  <2> QED
    BY <1>4, <1>6, <2>1, <2>2, <2>3 DEF InOrder
<1>14. FreshState'
  BY <1>3, <1>5 DEF RefInv, FreshState
<1> QED
  BY <1>8, <1>9, <1>11, <1>13, <1>14

\* The message that a thread executes, and what it does to the answers.
LEMMA Executed ==
  ASSUME RefInv, NEW t \in Threads, Execute(t)
  PROVE  \E i \in 1 .. taken :
           /\ task[t] = received[i] /\ ~Done(i) /\ Done(i)'
           /\ \A j \in DOMAIN received \ {i} : Done(j)' = Done(j)
           /\ \A m \in Messages \ {received[i].msg} : answer'[m] = answer[m]
<1>1. PICK i \in 1 .. taken : task[t] = received[i] /\ ~Done(i)
  BY DEF Execute, RefInv, Progress
<1>2. i \in DOMAIN received /\ received[i].msg \in Messages
  BY <1>1, Indexes
<1>3. /\ \A m \in Messages \ {received[i].msg} : answer'[m] = answer[m]
      /\ answer'[received[i].msg] \in Seq(Messages) \cup {Error}
  <2>1. loaded[t] \in Seq(Messages) /\ applied \in Seq(Messages) /\ task[t].msg \in Messages
    BY <1>1, <1>2 DEF RefInv, TypeInv, TypeOK
  <2>2. Append(loaded[t], task[t].msg) \in Seq(Messages)
    BY <2>1, AppendProperties
  <2>3. PICK a \in Seq(Messages) \cup {Error} : answer' = [answer EXCEPT ![task[t].msg] = a]
    BY <2>1, <2>2 DEF Execute
  <2> QED
    BY <1>1, <1>2, <2>3 DEF RefInv, TypeInv, TypeOK
<1>4. received' = received
  BY DEF Execute
<1>5. Done(i)'
  BY <1>3, <1>4, ActorAssumption DEF Done, ActorAssumption
<1>6. ASSUME NEW j \in DOMAIN received \ {i} PROVE Done(j)' = Done(j)
  <2>1. received[j].msg # received[i].msg /\ received[j].msg \in Messages
    BY <1>2, <1>6, Indexes DEF RefInv, SentOnce
  <2> QED
    BY <1>3, <1>4, <2>1 DEF Done
<1> QED
  BY <1>1, <1>3, <1>5, <1>6

LEMMA ExecuteKeeps ==
  ASSUME RefInv, NEW t \in Threads, Execute(t)
  PROVE  QueueIsTail' /\ SentOnce' /\ Progress' /\ InOrder' /\ FreshState'
<1>1. PICK i \in 1 .. taken :
        /\ task[t] = received[i] /\ ~Done(i) /\ Done(i)'
        /\ \A j \in DOMAIN received \ {i} : Done(j)' = Done(j)
        /\ \A m \in Messages \ {received[i].msg} : answer'[m] = answer[m]
  BY Executed
<1>2. UNCHANGED <<tasks, received, task, loaded, unsent>> /\ taken' = taken
  BY DEF Execute, taken
<1>3. /\ pc[t] = "executing" /\ pc'[t] # "executing"
      /\ \A u \in Threads \ {t} : pc'[u] = pc[u]
  BY DEF Execute, Goto, RefInv, TypeInv, TypeOK
<1>4. 1 .. taken \subseteq DOMAIN received /\ DOMAIN received = 1 .. Len(received)
  BY Indexes
<1>5. QueueIsTail'
  BY <1>2 DEF RefInv, QueueIsTail
<1>6. SentOnce'
  <2>1. \A m \in unsent : m # received[i].msg
    BY <1>4 DEF RefInv, SentOnce
  <2>2. unsent \subseteq Messages
    BY DEF RefInv, TypeInv, TypeOK
  <2> QED
    BY <1>1, <1>2, <2>1, <2>2 DEF RefInv, SentOnce
<1>7. Progress'
  <2>1. \A j \in DOMAIN received : Done(j)' => j <= taken
    BY <1>1, <1>4 DEF RefInv, Progress
  <2>2. ASSUME NEW j \in 1 .. taken PROVE Done(j)' \/ \E u \in Threads : Executing(u, j)'
    <3>1. CASE j = i
      BY <1>1, <3>1
    <3>2. CASE j # i
      <4>1. Done(j) \/ \E u \in Threads : Executing(u, j)
        BY DEF RefInv, Progress
      <4>2. \A u \in Threads : Executing(u, j) => u # t
        BY <1>1, <1>4, <3>2 DEF Executing, RefInv, SentOnce
      <4>3. \A u \in Threads : Executing(u, j) => Executing(u, j)'
        BY <1>2, <1>3, <4>2 DEF Executing
      <4> QED
        BY <1>1, <1>4, <3>2, <4>1, <4>3
    <3> QED
      BY <3>1, <3>2
  <2>3. ASSUME NEW u \in Threads, pc'[u] = "executing"
        PROVE  \E j \in 1 .. taken : task[u] = received[j] /\ ~Done(j)'
    <3>1. u # t /\ pc[u] = "executing"
      BY <1>3, <2>3
    <3>2. PICK j \in 1 .. taken : task[u] = received[j] /\ ~Done(j)
      BY <3>1 DEF RefInv, Progress
    <3>3. j # i
      BY <1>1, <1>3, <3>1, <3>2 DEF RefInv, Progress
    <3> QED
      BY <1>1, <1>4, <3>2, <3>3
  <2>4. \A u, v \in Threads : pc'[u] = "executing" /\ pc'[v] = "executing"
                                /\ task[u] = task[v] => u = v
    BY <1>3 DEF RefInv, Progress
  <2> QED
    BY <1>2, <2>1, <2>2, <2>3, <2>4 DEF Progress
<1>8. InOrder'
  <2>1. \A j \in 1 .. taken : Done(j) => Done(j)'
    BY <1>1, <1>4
  <2> QED
    BY <1>2, <2>1 DEF RefInv, InOrder, InConflict
<1>9. FreshState'
  <2> SUFFICES ASSUME NEW u \in Threads, pc'[u] = "executing", task[u].kind = EXCLUSIVE
               PROVE  loaded[u] = applied'
    BY <1>2 DEF FreshState
  <2>1. u # t /\ pc[u] = "executing"
    BY <1>3
  <2>2. u \in Holders /\ t \in Holders
    BY <1>3, <2>1 DEF Holders
  <2>3. FALSE
    BY <2>1, <2>2, ActorAssumption DEF RefInv, WriterAlone, ActorAssumption
  <2> QED
    BY <2>3
<1> QED
  BY <1>5, <1>6, <1>7, <1>8, <1>9

LEMMA RefStep == RefInv /\ [Next]_vars => RefInv'
<1> SUFFICES ASSUME RefInv, [Next]_vars PROVE RefInv'
  OBVIOUS
<1> DEFINE Rest == QueueIsTail' /\ SentOnce' /\ Progress' /\ InOrder' /\ FreshState'
<1>1. TypeInv' /\ WriterAlone'
  BY TypeStep, ExclusionStep DEF RefInv
<1>2. ASSUME UNCHANGED <<tasks, received, unsent, applied, answer>>,
             \A t \in Threads : pc'[t] = "executing" <=> pc[t] = "executing",
             \A t \in Threads : pc[t] = "executing" => task'[t] = task[t] /\ loaded'[t] = loaded[t]
      PROVE  Rest
  <2>1. taken' = taken
    BY <1>2 DEF taken
  <2>2. \A i \in DOMAIN received : Done(i)' = Done(i)
    BY <1>2 DEF Done
  <2>3. 1 .. taken \subseteq DOMAIN received
    BY Indexes
  <2>4. QueueIsTail' /\ SentOnce'
    BY <1>2, <2>1 DEF RefInv, QueueIsTail, SentOnce
  <2>5. \A t \in Threads, i \in DOMAIN received : Executing(t, i)' = Executing(t, i)
    BY <1>2 DEF Executing
  <2>6. Progress'
    <3>1. \A i \in 1 .. taken : Done(i)' \/ \E t \in Threads : Executing(t, i)'
      BY <2>2, <2>3, <2>5 DEF RefInv, Progress
    <3>2. \A t \in Threads : pc'[t] = "executing" =>
            \E i \in 1 .. taken : task'[t] = received[i] /\ ~Done(i)'
      BY <1>2, <2>2, <2>3 DEF RefInv, Progress
    <3>3. \A i \in DOMAIN received : Done(i)' => i <= taken
      BY <2>2 DEF RefInv, Progress
    <3>4. \A t, u \in Threads : pc'[t] = "executing" /\ pc'[u] = "executing"
                                  /\ task'[t] = task'[u] => t = u
      BY <1>2 DEF RefInv, Progress
    <3> QED
      BY <1>2, <2>1, <3>1, <3>2, <3>3, <3>4 DEF Progress
  <2>7. InOrder'
    BY <1>2, <2>1, <2>2, <2>3 DEF RefInv, InOrder, InConflict
  <2>8. FreshState'
    BY <1>2 DEF RefInv, FreshState
  <2> QED
    BY <2>4, <2>6, <2>7, <2>8
<1>3. ASSUME NEW s \in Senders, NEW m \in Messages, NEW name \in Names,
             no_such_method(s, m, name)
      PROVE  Rest
  <2>1. /\ UNCHANGED <<tasks, received, pc, task, loaded, applied>>
        /\ unsent' = unsent \ {m} /\ m \in unsent /\ taken' = taken
        /\ \A x \in Messages \ {m} : answer'[x] = answer[x]
    BY <1>3 DEF no_such_method, taken, RefInv, TypeInv, TypeOK
  <2>2. \A i \in DOMAIN received : received[i].msg \in Messages \ {m}
    BY <2>1, Indexes DEF RefInv, SentOnce
  <2>3. \A i \in DOMAIN received : Done(i)' = Done(i)
    BY <2>1, <2>2 DEF Done
  <2>4. 1 .. taken \subseteq DOMAIN received
    BY Indexes
  <2>5. SentOnce'
    BY <2>1 DEF RefInv, SentOnce, TypeInv, TypeOK
  <2>6. \A t \in Threads, i \in DOMAIN received : Executing(t, i)' = Executing(t, i)
    BY <2>1 DEF Executing
  <2>7. Progress'
    <3>1. \A i \in 1 .. taken : Done(i)' \/ \E t \in Threads : Executing(t, i)'
      BY <2>3, <2>4, <2>6 DEF RefInv, Progress
    <3>2. \A t \in Threads : pc[t] = "executing" =>
            \E i \in 1 .. taken : task[t] = received[i] /\ ~Done(i)'
      BY <2>3, <2>4 DEF RefInv, Progress
    <3>3. \A i \in DOMAIN received : Done(i)' => i <= taken
      BY <2>3 DEF RefInv, Progress
    <3> QED
      BY <2>1, <3>1, <3>2, <3>3 DEF RefInv, Progress
  <2>8. QueueIsTail' /\ FreshState'
    BY <2>1 DEF RefInv, QueueIsTail, FreshState
  <2>9. InOrder'
    BY <2>1, <2>3, <2>4 DEF RefInv, InOrder, InConflict
  <2> QED
    BY <2>5, <2>7, <2>8, <2>9
<1>4. ASSUME NEW t \in Threads, StartDrainer(t) \/ NoTaskTaken(t) \/ Unlock(t) \/ EndDrainer(t)
      PROVE  Rest
  <2>1. /\ pc[t] # "executing" /\ pc'[t] # "executing"
        /\ \A u \in Threads \ {t} : pc'[u] = pc[u] /\ task'[u] = task[u] /\ loaded'[u] = loaded[u]
        /\ UNCHANGED <<tasks, received, unsent, applied, answer>>
    BY <1>4 DEF StartDrainer, NoTaskTaken, Unlock, EndDrainer, Goto, RefInv, TypeInv, TypeOK
  <2> QED
    BY <1>2, <2>1
<1>5. ASSUME UNCHANGED <<tasks, received, unsent, applied, answer, pc, task, loaded>> PROVE Rest
  BY <1>2, <1>5
<1>6. CASE \E name \in Names, concurrency \in Kinds : define(name, concurrency)
  BY <1>1, <1>5, <1>6 DEF define, RefInv
<1>7. CASE take_mailbox \/ (\E s \in Senders : ScheduleSent(s)) \/ UNCHANGED vars
  BY <1>1, <1>5, <1>7 DEF take_mailbox, ScheduleSent, vars, RefInv
<1>8. CASE \E s \in Senders, m \in Messages, name \in Names : send(s, m, name)
  BY <1>1, <1>3, <1>8, PushKeeps DEF send, RefInv
<1>9. CASE \E t \in Threads : Worker(t)
  BY <1>1, <1>4, <1>9, TakeKeeps, ExecuteKeeps DEF Worker, RefInv
<1> QED
  BY <1>6, <1>7, <1>8, <1>9 DEF Next

\* A message is executed when those it conflicts with that came before it are answered,
\* and those that came after it are not.
LEMMA ExecutesInTurn ==
  ASSUME RefInv, NEW i \in 1 .. taken, ~Done(i)
  PROVE  Abstract!InTurn(i)
<1>1. 1 .. taken \subseteq DOMAIN received /\ DOMAIN received = 1 .. Len(received)
  BY Indexes
<1>2. \A j \in DOMAIN received : Abstract!Answered(j) = Done(j)
  BY DEF Abstract!Answered, Done
<1>3. ASSUME NEW j \in DOMAIN received \ {i}, InConflict(i, j)
      PROVE  Done(j) <=> j < i
  <2>1. CASE j < i
    <3>1. j \in 1 .. taken /\ InConflict(j, i)
      BY <1>1, <1>3, <2>1, Indexes DEF InConflict
    <3> QED
      BY <1>3, <2>1, <3>1 DEF RefInv, InOrder
  <2>2. CASE ~(j < i)
    <3>1. i < j
      BY <1>1, <1>3, <2>2, Indexes
    <3>2. CASE j \in 1 .. taken
      BY <1>3, <3>1, <3>2 DEF RefInv, InOrder
    <3>3. CASE j \notin 1 .. taken
      BY <1>1, <1>3, <2>2, <3>3, Indexes DEF RefInv, Progress
    <3> QED
      BY <3>2, <3>3
  <2> QED
    BY <2>1, <2>2
<1> QED
  BY <1>1, <1>2, <1>3 DEF Abstract!InTurn, InConflict

LEMMA AbstractStep == RefInv /\ [Next]_vars => [Abstract!Next]_(Abstract!vars)
<1> SUFFICES ASSUME RefInv, [Next]_vars PROVE Abstract!Next \/ UNCHANGED Abstract!vars
  OBVIOUS
<1>1. ASSUME UNCHANGED <<received, unsent, applied, answer>> PROVE UNCHANGED Abstract!vars
  BY <1>1 DEF Abstract!vars
<1>2. ASSUME NEW s \in Senders, NEW m \in Messages, NEW name \in Names, push(s, m, name)
      PROVE  Abstract!Next
  <2>1. mailbox[name] \in Kinds
    BY <1>2 DEF push, RefInv, TypeInv, TypeOK
  <2>2. Abstract!Receive(m, mailbox[name])
    BY <1>2 DEF push, Abstract!Receive
  <2> QED
    BY <2>1, <2>2 DEF Abstract!Next
<1>3. ASSUME NEW s \in Senders, NEW m \in Messages, NEW name \in Names,
             no_such_method(s, m, name)
      PROVE  Abstract!Next
  <2>1. Abstract!Refuse(m)
    BY <1>3 DEF no_such_method, Abstract!Refuse
  <2> QED
    BY <2>1 DEF Abstract!Next
<1>4. ASSUME NEW t \in Threads, Execute(t) PROVE Abstract!Next
  <2>1. PICK i \in 1 .. taken : task[t] = received[i] /\ ~Done(i)
    BY <1>4, Executed
  <2>2. Abstract!InTurn(i)
    BY <2>1, ExecutesInTurn
  <2>3. i \in DOMAIN received /\ pc[t] = "executing" /\ received[i].kind \in Kinds
    BY <1>4, <2>1, Indexes DEF Execute, Tasks
  <2>4. UNCHANGED <<received, unsent>>
    BY <1>4 DEF Execute
  <2>5. CASE task[t].kind = EXCLUSIVE
    <3>1. loaded[t] = applied
      BY <2>3, <2>5 DEF RefInv, FreshState
    <3>2. Abstract!Write(i)
      BY <1>4, <2>1, <2>2, <2>4, <2>5, <3>1, ActorAssumption
         DEF Execute, Abstract!Write, ActorAssumption
    <3> QED
      BY <2>3, <3>2 DEF Abstract!Next, Abstract!Execute
  <2>6. CASE task[t].kind # EXCLUSIVE
    <3>1. Abstract!Read(i)
      BY <1>4, <2>1, <2>2, <2>4, <2>6 DEF Execute, Abstract!Read
    <3> QED
      BY <2>3, <3>1 DEF Abstract!Next, Abstract!Execute
  <2> QED
    BY <2>5, <2>6
<1>5. ASSUME NEW t \in Threads, Worker(t) PROVE Abstract!Next \/ UNCHANGED Abstract!vars
  BY <1>1, <1>4, <1>5
     DEF Worker, StartDrainer, TakeTask, NoTaskTaken, Unlock, EndDrainer
<1>6. CASE (\E name \in Names, concurrency \in Kinds : define(name, concurrency))
           \/ take_mailbox \/ (\E s \in Senders : ScheduleSent(s)) \/ UNCHANGED vars
  BY <1>1, <1>6 DEF define, take_mailbox, ScheduleSent, vars
<1> QED
  BY <1>2, <1>3, <1>5, <1>6 DEF Next, send

\* Whatever the threads do, it looks as if the actor executed one message at a time:
\* writers in the order of arrival, readers in order with the writers (the safety part
\* of ImplementsFairActor).
THEOREM ImplementsActor == Spec => Abstract!Spec
<1>1. Init => Abstract!Init
  BY DEF Init, Abstract!Init
<1>2. RefInv /\ [Next]_vars => [Abstract!Next]_(Abstract!vars)
  BY AbstractStep
<1> QED
  BY <1>1, <1>2, RefInit, RefStep, PTL DEF Spec, Abstract!Spec
=============================================================================
