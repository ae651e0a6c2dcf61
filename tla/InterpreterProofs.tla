-------------------------- MODULE InterpreterProofs --------------------------
(***************************************************************************)
(* Proofs about module Interpreter, for any number of workers and works.   *)
(***************************************************************************)
EXTENDS Interpreter, TLAPS

\* What a thread has in its hands where it uses it, the GIL in the program's calls.
InHand ==
  /\ \A t \in Threads : work[t] = NoWork =>
       pc[t] \in {"next", "copying", "exited", "spin", "stop", "join"}
  /\ \A p \in Procs : pc[p] \in {"schedule", "register"} => argument[p] \in Works
  /\ \A p \in Procs : pc[p] \in {"register", "set", "callbacks"} => target[p] \in Keepers
  /\ pc[Client] \in {"register", "set", "callbacks"} => gil = Client

TypeInv == TypeOK /\ InHand

LEMMA Initially == Init => TypeInv
<1> SUFFICES ASSUME Init PROVE TypeInv
    OBVIOUS
<1> USE InterpreterAssumption DEF Init, Procs, WorkerPC, ClientPC, SharedPC
<1>1. pc \in [Procs -> WorkerPC \cup ClientPC \cup SharedPC]
      OBVIOUS
<1>2. pc[Client] = "python" /\ \A t \in Threads : pc[t] = "next"
      OBVIOUS
<1>3. /\ work \in [Threads -> Works \cup {NoWork}]
      /\ argument \in [Procs -> Works \cup {NoWork}]
      /\ target \in [Procs -> Keepers \cup {NoWork}]
      /\ lock \in [Keepers -> Procs \cup {Nobody}]
      /\ result \in [Keepers -> {"none", "value", "error"}]
      /\ handlers \in [Keepers -> SUBSET Works]
      OBVIOUS
<1>4. values \in 0..MaxValues
      OBVIOUS
<1>5. TypeOK
      BY <1>1, <1>2, <1>3, <1>4 DEF TypeOK
<1>q. QED BY <1>2, <1>5 DEF TypeInv, InHand

-----------------------------------------------------------------------------
(***************************************************************************)
(* Type correctness.                                                       *)
(***************************************************************************)
LEMMA TypeStep == TypeInv /\ [Next]_vars => TypeInv'
<1> SUFFICES ASSUME TypeInv, [Next]_vars PROVE TypeInv'
    OBVIOUS
<1> USE InterpreterAssumption DEF TypeInv, TypeOK, InHand, Procs, WorkerPC, ClientPC,
        SharedPC, Goto, InPython, queues, promises, history
<1>1. ASSUME NEW p \in Procs, Python(p) PROVE TypeInv'
  <2>1. CASE Switch(p)
        BY <2>1 DEF Switch
  <2>2. CASE push(p)
        BY <2>2 DEF push
  <2>3. ASSUME NEW w \in Works, CallSchedule(p, w) PROVE TypeInv'
        BY <2>3 DEF CallSchedule
  <2>8. ASSUME NEW w \in Works, NEW q \in Kept, CallThen(p, w, q) PROVE TypeInv'
        BY <2>8 DEF CallThen
  <2>9. ASSUME NEW q \in Kept, CallSet(p, q) PROVE TypeInv'
        BY <2>9 DEF CallSet
  <2>4. CASE p = Client /\ queue_next
        BY <2>4 DEF queue_next
  <2>5. CASE p = Client /\ count
        BY <2>5 DEF count
  <2>6. CASE p = Client /\ Drop
        BY <2>6 DEF Drop
  <2>7. CASE p \in Threads /\ Return(p)
        BY <2>7 DEF Return, Settle
  <2>q. QED BY <1>1, <2>1, <2>2, <2>3, <2>4, <2>5, <2>6, <2>7, <2>8, <2>9 DEF Python
<1>2. ASSUME NEW p \in Procs, TakeGil(p) PROVE TypeInv'
  <2>1. CASE Resume(p)
        BY <2>1 DEF Resume
  <2>2. CASE DiscardHandler(p)
        BY <2>2 DEF DiscardHandler
  <2>3. CASE p \in Threads /\ CopyDue(p)
        BY <2>3 DEF CopyDue
  <2>5. CASE p \in Threads /\ Destroy(p)
    <3>1. CASE work[p] \in Keepers
          BY <2>5, <3>1 DEF Destroy
    <3>2. ASSUME work[p] \notin Keepers, gil = Nobody, NEW last \in BOOLEAN,
                 Goto(p, IF last THEN "stop" ELSE "next"),
                 gil' = IF last THEN p ELSE Nobody,
                 work' = [work EXCEPT ![p] = NoWork],
                 UNCHANGED <<mutex, active, queues, argument, promises, quiet, values,
                             history>>
          PROVE  TypeInv'
          BY <2>5, <3>2
    <3>q. QED BY <2>5, <3>1, <3>2 DEF Destroy
  <2>q. QED BY <1>2, <2>1, <2>2, <2>3, <2>5 DEF TakeGil
<1>3. ASSUME NEW p \in Procs, TakeMutex(p) PROVE TypeInv'
  <2>1. CASE schedule(p)
        BY <2>1 DEF schedule, Enqueue
  <2>2. CASE stop(p)
        BY <2>2 DEF stop
  <2>3. CASE Join(p)
        BY <2>3 DEF Join
  <2>4. CASE p = Client /\ ReadCount
    <3>1. CountIsZero \in BOOLEAN
          BY DEF CountIsZero
    <3>q. QED BY <2>4, <3>1 DEF ReadCount
  <2>5. CASE p = Client /\ pop
        BY <2>5 DEF pop
  <2>6. CASE p \in Threads /\ TakeFront(p)
        BY <2>6 DEF TakeFront
  <2>7. CASE p \in Threads /\ (TakeDue(p) \/ Exit(p) \/ Spin(p))
        BY <2>7 DEF TakeDue, Exit, Spin
  <2>8. CASE register(p)
        BY <2>8 DEF register
  <2>9. CASE set(p)
    <3>1. CASE result[target[p]] = "none"
          BY <2>9, <3>1 DEF set
    <3>2. CASE result[target[p]] # "none"
          BY <2>9, <3>2 DEF set, Back
    <3>q. QED BY <3>1, <3>2
  <2>10. CASE ScheduleCallback(p)
        BY <2>10 DEF ScheduleCallback, ToSchedule, Enqueue
  <2>q. QED BY <1>3, <2>1, <2>2, <2>3, <2>4, <2>5, <2>6, <2>7, <2>8, <2>9, <2>10
            DEF TakeMutex
<1>4. ASSUME NEW p \in Procs, Closure(p) PROVE TypeInv'
  <2>1. CASE p \in Threads /\ (Begin(p) \/ Finish(p) \/ Release(p))
        BY <2>1 DEF Begin, Finish, Release
  <2>2. ASSUME p \in Threads, NEW w \in Works, ScheduleNext(p, w) PROVE TypeInv'
        BY <2>2 DEF ScheduleNext, Enqueue
  <2>3. CASE Unlock(p)
        BY <2>3 DEF Unlock, Back
  <2>q. QED BY <1>4, <2>1, <2>2, <2>3 DEF Closure
<1>5. CASE UNCHANGED vars
      BY <1>5 DEF vars
<1>q. QED BY <1>1, <1>2, <1>3, <1>4, <1>5 DEF Next

\* Every variable keeps its type, and no worker runs a work it does not have.
\* (src/traeger/actor/Scheduler.cpp worker(), src/python/traeger/actor.cpp)
THEOREM Typing == Spec => []TypeOK
<1>1. Init => TypeInv
      BY Initially
<1>2. TypeInv /\ [Next]_vars => TypeInv'
      BY TypeStep
<1>3. TypeInv => TypeOK
      BY DEF TypeInv
<1>q. QED BY <1>1, <1>2, <1>3, PTL DEF Spec

-----------------------------------------------------------------------------
(***************************************************************************)
(* A program that scheduled keepers only, messages and their callbacks.    *)
(* count() = 0 then means that no worker has a work, and without a work    *)
(* only the program can schedule, which forgets what count() returned.     *)
(***************************************************************************)
AllKeepers ==
  /\ Pending \subseteq Keepers
  /\ \A t \in Threads : work[t] \in Keepers \cup {NoWork}
  /\ \A p \in Procs : argument[p] \in Keepers \cup {NoWork}
  /\ \A q \in Keepers : handlers[q] \subseteq Keepers

\* A work that was scheduled stays so, and what is new is a keeper.
LEMMA KeepersStep ==
  ASSUME TypeInv, KeepersOnly => AllKeepers, KeepersOnly', [Next]_vars
  PROVE  KeepersOnly /\ AllKeepers'
<1> USE InterpreterAssumption DEF KeepersOnly, AllKeepers, Pending, Goto, queues, promises,
        history, Procs
<1>w. /\ work \in [Threads -> Works \cup {NoWork}]
      /\ argument \in [Procs -> Works \cup {NoWork}]
      /\ handlers \in [Keepers -> SUBSET Works]
      BY DEF TypeInv, TypeOK
<1>0. ASSUME unscheduled' = unscheduled, argument' = argument, handlers' = handlers,
             UNCHANGED <<queues, work>> PROVE KeepersOnly /\ AllKeepers'
      BY <1>0
<1>1. ASSUME NEW p \in Procs, Python(p) PROVE KeepersOnly /\ AllKeepers'
  <2>1. ASSUME NEW w \in Works, CallSchedule(p, w) PROVE KeepersOnly /\ AllKeepers'
    <3>1. unscheduled' = unscheduled \ {w} /\ w \in unscheduled
          BY <2>1 DEF CallSchedule
    <3>2. KeepersOnly /\ w \in Keepers
          BY <3>1
    <3>q. QED BY <1>w, <2>1, <3>2 DEF CallSchedule
  <2>2. ASSUME NEW w \in Works, NEW q \in Kept, CallThen(p, w, q)
        PROVE  KeepersOnly /\ AllKeepers'
    <3>1. unscheduled' = unscheduled \ {w} /\ w \in unscheduled
          BY <2>2 DEF CallThen
    <3>2. KeepersOnly /\ w \in Keepers
          BY <3>1
    <3>q. QED BY <1>w, <2>2, <3>2 DEF CallThen
  <2>3. ASSUME NEW q \in Kept, CallSet(p, q) PROVE KeepersOnly /\ AllKeepers'
        BY <1>0, <2>3 DEF CallSet
  <2>q. QED BY <1>0, <1>1, <2>1, <2>2, <2>3
            DEF Python, Switch, push, queue_next, count, Drop, Return
<1>2. ASSUME NEW p \in Procs, TakeGil(p) PROVE KeepersOnly /\ AllKeepers'
  <2>1. CASE p \in Threads /\ CopyDue(p)
        BY <1>w, <2>1 DEF CopyDue
  <2>2. CASE p \in Threads /\ Destroy(p)
        BY <1>w, <2>2 DEF Destroy
  <2>3. CASE DiscardHandler(p)
        BY <1>w, <2>3 DEF DiscardHandler
  <2>q. QED BY <1>0, <1>2, <2>1, <2>2, <2>3 DEF TakeGil, Resume
<1>3. ASSUME NEW p \in Procs, TakeMutex(p) PROVE KeepersOnly /\ AllKeepers'
  <2>1. CASE schedule(p)
    <3>1. argument[p] # NoWork
          BY <2>1 DEF schedule, TypeInv, InHand
    <3>q. QED BY <1>w, <2>1, <3>1 DEF schedule, Enqueue
  <2>2. CASE p \in Threads /\ TakeFront(p)
        BY <1>w, <2>2 DEF TakeFront
  <2>3. CASE register(p)
    <3>1. argument[p] # NoWork /\ target[p] \in Keepers
          BY <2>3 DEF register, TypeInv, InHand
    <3>q. QED BY <1>w, <2>3, <3>1 DEF register
  <2>4. CASE set(p)
        BY <1>0, <2>4 DEF set
  <2>5. CASE ScheduleCallback(p)
    <3>1. target[p] \in Keepers
          BY <2>5 DEF ScheduleCallback, TypeInv, InHand
    <3>q. QED BY <1>w, <2>5, <3>1 DEF ScheduleCallback, ToSchedule, Enqueue
  <2>q. QED BY <1>0, <1>3, <2>1, <2>2, <2>3, <2>4, <2>5
            DEF TakeMutex, stop, Join, ReadCount, pop, TakeDue, Exit, Spin
<1>4. ASSUME NEW p \in Procs, Closure(p) PROVE KeepersOnly /\ AllKeepers'
  <2>1. ASSUME p \in Threads, NEW w \in Works, ScheduleNext(p, w)
        PROVE  KeepersOnly /\ AllKeepers'
    <3>1. unscheduled' = unscheduled \ {w} /\ w \in unscheduled
          BY <2>1 DEF ScheduleNext
    <3>2. KeepersOnly /\ w \in Keepers
          BY <3>1
    <3>q. QED BY <1>w, <2>1, <3>2 DEF ScheduleNext, Enqueue
  <2>2. CASE p \in Threads /\ Release(p)
        BY <1>w, <2>2 DEF Release
  <2>q. QED BY <1>0, <1>4, <2>1, <2>2 DEF Closure, Begin, Finish, Unlock
<1>5. CASE UNCHANGED vars
      BY <1>0, <1>5 DEF vars
<1>q. QED BY <1>1, <1>2, <1>3, <1>4, <1>5 DEF Next

QuietInv ==
  /\ TypeInv /\ AllKeepers
  /\ quiet => AllDone /\ pc[Client] \notin {"schedule", "register", "set", "callbacks"}
  /\ ~ClientHolds => quiet

LEMMA QuietStep ==
  ASSUME QuietInv, KeepersOnly', [Next]_vars
  PROVE  QuietInv'
<1> USE InterpreterAssumption DEF QuietInv, AllDone, Pending, Registered, ClientHolds, Goto,
        InPython, queues, promises, history, Procs
<1>t. TypeInv' /\ AllKeepers'
      BY TypeStep, KeepersStep
<1>w. /\ pc \in [Procs -> WorkerPC \cup ClientPC \cup SharedPC]
      /\ work \in [Threads -> Works \cup {NoWork}]
      /\ \A t \in Threads : work[t] = NoWork =>
           pc[t] \in {"next", "copying", "exited", "spin", "stop", "join"}
      BY DEF TypeInv, TypeOK, InHand
<1>1. ASSUME NEW p \in Procs, Python(p) PROVE QuietInv'
  <2>1. CASE Switch(p)
        BY <1>t, <1>w, <2>1 DEF Switch
  <2>2. CASE push(p)
        BY <1>t, <1>w, <2>2 DEF push
  <2>3. ASSUME NEW w \in Works, CallSchedule(p, w) PROVE QuietInv'
    <3>1. CASE p = Client
          BY <1>t, <1>w, <2>3, <3>1 DEF CallSchedule
    <3>2. CASE p \in Threads
          BY <1>t, <1>w, <2>3, <3>2 DEF CallSchedule
    <3>q. QED BY <3>1, <3>2
  <2>7. ASSUME NEW w \in Works, NEW q \in Kept, CallThen(p, w, q) PROVE QuietInv'
        BY <1>t, <1>w, <2>7 DEF CallThen, HasPromises
  <2>8. ASSUME NEW q \in Kept, CallSet(p, q) PROVE QuietInv'
        BY <1>t, <1>w, <2>8 DEF CallSet, HasPromises
  <2>4. CASE p = Client /\ (queue_next \/ count)
        BY <1>t, <1>w, <2>4 DEF queue_next, count
  <2>5. CASE p = Client /\ Drop
        BY <1>t, <1>w, <2>5 DEF Drop
  <2>6. CASE p \in Threads /\ Return(p)
        BY <1>t, <1>w, <2>6 DEF Return, Settle
  <2>q. QED BY <1>1, <2>1, <2>2, <2>3, <2>4, <2>5, <2>6, <2>7, <2>8 DEF Python
<1>2. ASSUME NEW p \in Procs, TakeGil(p) PROVE QuietInv'
  <2>1. CASE Resume(p)
        BY <1>t, <1>w, <2>1 DEF Resume
  <2>2. CASE DiscardHandler(p)
        BY <1>t, <1>w, <2>2 DEF DiscardHandler
  <2>3. CASE p \in Threads /\ CopyDue(p)
        BY <1>t, <1>w, <2>3 DEF CopyDue
  <2>4. CASE p \in Threads /\ Destroy(p)
        BY <1>t, <1>w, <2>4 DEF Destroy
  <2>q. QED BY <1>2, <2>1, <2>2, <2>3, <2>4 DEF TakeGil
<1>3. ASSUME NEW p \in Procs, TakeMutex(p) PROVE QuietInv'
  <2>1. CASE schedule(p)
    <3>1. ~quiet
          BY <1>w, <2>1 DEF schedule
    <3>2. pc[Client] \notin {"stop", "join", "gone"} /\ quiet' = quiet
          BY <3>1, <2>1 DEF schedule
    <3>3. pc'[Client] \notin {"stop", "join", "gone"}
          BY <1>w, <2>1, <3>2 DEF schedule
    <3>q. QED BY <1>t, <3>1, <3>2, <3>3
  <2>2. CASE stop(p) \/ Join(p)
        BY <1>t, <1>w, <2>2 DEF stop, Join
  <2>3. CASE p = Client /\ ReadCount
    <3>1. \A t \in Threads : work[t] \notin Keepers => work[t] = NoWork
          BY DEF AllKeepers
    <3>q. QED BY <1>t, <1>w, <2>3, <3>1 DEF ReadCount, CountIsZero
  <2>4. CASE p = Client /\ pop
        BY <1>t, <1>w, <2>4 DEF pop
  <2>5. CASE p \in Threads /\ TakeFront(p)
        BY <1>t, <1>w, <2>5 DEF TakeFront
  <2>6. CASE p \in Threads /\ (TakeDue(p) \/ Exit(p) \/ Spin(p))
        BY <1>t, <1>w, <2>6 DEF TakeDue, Exit, Spin
  <2>7. CASE register(p)
        BY <1>t, <1>w, <2>7 DEF register
  <2>8. CASE set(p)
        BY <1>t, <1>w, <2>8 DEF set, Back
  <2>9. CASE ScheduleCallback(p)
        BY <1>t, <1>w, <2>9 DEF ScheduleCallback
  <2>q. QED BY <1>3, <2>1, <2>2, <2>3, <2>4, <2>5, <2>6, <2>7, <2>8, <2>9 DEF TakeMutex
<1>4. ASSUME NEW p \in Procs, Closure(p) PROVE QuietInv'
  <2>1. CASE p \in Threads /\ (Begin(p) \/ Finish(p))
        BY <1>t, <1>w, <2>1 DEF Begin, Finish
  <2>2. CASE p \in Threads /\ Release(p)
        BY <1>t, <1>w, <2>2 DEF Release
  <2>3. ASSUME p \in Threads, NEW w \in Works, ScheduleNext(p, w) PROVE QuietInv'
        BY <1>t, <1>w, <2>3 DEF ScheduleNext
  <2>4. CASE Unlock(p)
        BY <1>t, <1>w, <2>4 DEF Unlock, Back
  <2>q. QED BY <1>4, <2>1, <2>2, <2>3, <2>4 DEF Closure
<1>5. CASE UNCHANGED vars
      BY <1>t, <1>5 DEF vars
<1>q. QED BY <1>1, <1>2, <1>3, <1>4, <1>5 DEF Next

LEMMA QuietInitially == Init => QuietInv
  BY Initially, InterpreterAssumption DEF Init, QuietInv, AllKeepers, Pending, ClientHolds,
     Procs

\* As long as all works are closures of send() and then(), which keep count() from 0
\* until their function is destroyed, a program that waits for 0 leaves no work behind,
\* nor a handler in any promise.
THEOREM LeavesQuiet == Spec => []LeftQuiet
<1> DEFINE Inv == TypeInv /\ (KeepersOnly => QuietInv)
<1>1. Init => Inv
      BY Initially, QuietInitially
<1>2. Inv /\ [Next]_vars => Inv'
      BY TypeStep, KeepersStep, QuietStep DEF QuietInv
<1>3. Inv => LeftQuiet
      BY DEF QuietInv, LeftQuiet
<1>q. QED BY <1>1, <1>2, <1>3, PTL DEF Spec

-----------------------------------------------------------------------------
(***************************************************************************)
(* No thread but the program's destroys the Scheduler, and no worker keeps *)
(* the mutex beyond an action: only a delayed work is copied, and a worker *)
(* spins only beside works when the Scheduler is not active.               *)
(***************************************************************************)
BlockInv ==
  /\ QuietInv
  /\ mutex = Nobody /\ \A t \in Threads : pc[t] \notin {"stop", "join"}
  /\ scheduled_queue = {}
  /\ ~active => ~ClientHolds

LEMMA BlockStep ==
  ASSUME BlockInv, KeepersOnly', [Next]_vars
  PROVE  BlockInv'
<1> USE InterpreterAssumption DEF BlockInv, ClientHolds, Goto, InPython,
        queues, promises, history, Procs
<1>t. QuietInv'
      BY QuietStep
<1>w. /\ pc \in [Procs -> WorkerPC \cup ClientPC \cup SharedPC]
      /\ \A t \in Threads : work[t] = NoWork =>
           pc[t] \in {"next", "copying", "exited", "spin", "stop", "join"}
      BY DEF QuietInv, TypeInv, TypeOK, InHand
<1>l. ~ClientHolds => Pending = {} /\ \A t \in Threads : work[t] = NoWork
      BY DEF QuietInv, AllDone
<1>d. \A p \in Procs : argument[p] \notin Delayed \/ argument[p] = NoWork
      BY DEF QuietInv, AllKeepers
<1>1. ASSUME NEW p \in Procs, Python(p) PROVE BlockInv'
  <2>1. CASE Switch(p) \/ push(p)
        BY <1>t, <1>w, <2>1 DEF Switch, push
  <2>2. ASSUME NEW w \in Works, CallSchedule(p, w) PROVE BlockInv'
        BY <1>t, <1>w, <2>2 DEF CallSchedule
  <2>5. ASSUME NEW w \in Works, NEW q \in Kept, CallThen(p, w, q) PROVE BlockInv'
        BY <1>t, <1>w, <2>5 DEF CallThen
  <2>6. ASSUME NEW q \in Kept, CallSet(p, q) PROVE BlockInv'
        BY <1>t, <1>w, <2>6 DEF CallSet
  <2>3. CASE p = Client /\ (queue_next \/ count \/ Drop)
        BY <1>t, <1>w, <2>3 DEF queue_next, count, Drop
  <2>4. CASE p \in Threads /\ Return(p)
        BY <1>t, <1>w, <2>4 DEF Return, Settle
  <2>q. QED BY <1>1, <2>1, <2>2, <2>3, <2>4, <2>5, <2>6 DEF Python
<1>2. ASSUME NEW p \in Procs, TakeGil(p) PROVE BlockInv'
  <2>1. CASE Resume(p)
        BY <1>t, <1>w, <2>1 DEF Resume
  <2>2. CASE DiscardHandler(p)
        BY <1>t, <1>w, <2>2 DEF DiscardHandler
  <2>3. CASE p \in Threads /\ CopyDue(p)
        BY <2>3 DEF CopyDue
  <2>4. CASE p \in Threads /\ Destroy(p)
    <3>1. work[p] \in Keepers
          BY <1>w, <2>4 DEF Destroy, QuietInv, AllKeepers
    <3>q. QED BY <1>t, <1>w, <2>4, <3>1 DEF Destroy
  <2>q. QED BY <1>2, <2>1, <2>2, <2>3, <2>4 DEF TakeGil
<1>3. ASSUME NEW p \in Procs, TakeMutex(p) PROVE BlockInv'
  <2>1. CASE schedule(p)
        BY <1>t, <1>w, <1>d, <2>1 DEF schedule, Enqueue
  <2>2. CASE stop(p) \/ Join(p)
        BY <1>t, <1>w, <2>2 DEF stop, Join
  <2>3. CASE p = Client /\ (ReadCount \/ pop)
        BY <1>t, <1>w, <2>3 DEF ReadCount, pop
  <2>4. CASE p \in Threads /\ TakeFront(p)
        BY <1>t, <1>w, <2>4 DEF TakeFront
  <2>5. CASE p \in Threads /\ TakeDue(p)
        BY <2>5 DEF TakeDue
  <2>6. CASE p \in Threads /\ Exit(p)
        BY <1>t, <1>w, <2>6 DEF Exit
  <2>7. CASE p \in Threads /\ Spin(p)
        BY <1>l, <2>7 DEF Spin, Pending
  <2>8. CASE register(p)
        BY <1>t, <1>w, <2>8 DEF register
  <2>9. CASE set(p)
        BY <1>t, <1>w, <2>9 DEF set, Back
  <2>10. CASE ScheduleCallback(p)
        BY <1>t, <1>w, <2>10 DEF ScheduleCallback, Enqueue
  <2>q. QED BY <1>3, <2>1, <2>2, <2>3, <2>4, <2>5, <2>6, <2>7, <2>8, <2>9, <2>10
            DEF TakeMutex
<1>4. ASSUME NEW p \in Procs, Closure(p) PROVE BlockInv'
  <2>1. CASE p \in Threads /\ (Begin(p) \/ Finish(p))
        BY <1>t, <1>w, <2>1 DEF Begin, Finish
  <2>2. CASE p \in Threads /\ Release(p)
    <3>1. ClientHolds
          BY <1>w, <1>l, <2>2 DEF Release
    <3>2. ~LastHolder(p)
          BY <2>2, <3>1 DEF LastHolder
    <3>q. QED BY <1>t, <1>w, <2>2, <3>2 DEF Release
  <2>3. ASSUME p \in Threads, NEW w \in Works, ScheduleNext(p, w) PROVE BlockInv'
        BY <1>t, <1>w, <2>3 DEF ScheduleNext, Enqueue
  <2>4. CASE Unlock(p)
        BY <1>t, <1>w, <2>4 DEF Unlock, Back
  <2>q. QED BY <1>4, <2>1, <2>2, <2>3, <2>4 DEF Closure
<1>5. CASE UNCHANGED vars
      BY <1>t, <1>5 DEF vars
<1>q. QED BY <1>1, <1>2, <1>3, <1>4, <1>5 DEF Next

\* In such a program the GIL and the mutex of the Scheduler are never waited for in a
\* circle: no worker has that mutex when it waits for the GIL, nor runs ~impl_type.
\* A worker may still have the mutex of a promise then.
THEOREM NobodyBlocks == Spec => []NoWorkerBlocks
<1> DEFINE Inv == TypeInv /\ (KeepersOnly => BlockInv)
<1>1. Init => Inv
      BY Initially, QuietInitially, InterpreterAssumption DEF Init, BlockInv, Procs
<1>2. Inv /\ [Next]_vars => Inv'
      BY TypeStep, KeepersStep, BlockStep DEF BlockInv, QuietInv
<1>3. Inv => NoWorkerBlocks
      BY DEF BlockInv, NoWorkerBlocks
<1>q. QED BY <1>1, <1>2, <1>3, PTL DEF Spec
=============================================================================
