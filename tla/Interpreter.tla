----------------------------- MODULE Interpreter -----------------------------
(***************************************************************************)
(* A Python program on a Scheduler (src/python/traeger/actor.cpp).  The    *)
(* workers call, copy and destroy functions of Python, each of which needs *)
(* the lock of the interpreter, the GIL; Python calls the methods of the   *)
(* binding with that lock, and they keep it: only count() releases it.     *)
(* Besides the GIL there are the mutex of the Scheduler and one for each   *)
(* promise, which has the functions that then() and fail() were given.     *)
(*                                                                         *)
(* Module Scheduler has the queues in their order, the clock, the condition*)
(* variable and the two reads of count(); here a worker that finds nothing *)
(* to do does not take a step, a delayed work may be due at any time, and  *)
(* a critical section is one action unless somebody needs another lock in  *)
(* it.  Module Promise has the callbacks in their order and promises that  *)
(* follow others, which then_promise() adds and this module leaves out.    *)
(***************************************************************************)
EXTENDS Integers, FiniteSets

CONSTANTS Threads,    (* the workers                                        *)
          Client,     (* the thread that runs the Python program            *)
          Nobody,     (* the owner of a free lock                           *)
          Works,      (* what is scheduled, each with a function of Python  *)
          NoWork,
          Keepers,    (* the closures of send() and then(), which hold a    *)
                      (* handle of the Scheduler and a promise, which gets  *)
                      (* their result, beside their function; the others    *)
                      (* are the function: schedule(f), fail(f)             *)
          Kept,       (* the keepers whose promise Python code refers to    *)
          Delayed,    (* the functions that go to schedule_delayed() if they*)
                      (* go to the Scheduler                                *)
          Capturing,  (* the works whose function refers to the Scheduler   *)
                      (* and to promises                                    *)
          MaxValues   (* the bound of the program's Queue; 0 if it has none *)

ASSUME InterpreterAssumption ==
  /\ Client \notin Threads /\ Nobody \notin Threads \cup {Client}
  /\ NoWork \notin Works
  /\ Keepers \subseteq Works /\ Kept \subseteq Keepers /\ Capturing \subseteq Works
  /\ Delayed \subseteq Works \ Keepers
  /\ MaxValues \in Nat

VARIABLES
  gil,              (* who has the lock of the interpreter                  *)
  mutex,            (* who has mutex_, beyond one action                    *)
  active,           (* active_                                              *)
  queue,            (* the works in queue_                                  *)
  scheduled_queue,  (* the works in scheduled_queue_                        *)
  pc,               (* where each thread is                                 *)
  work,             (* the local variable of worker()                       *)
  argument,         (* what a thread is about to schedule or to register    *)
  target,           (* the work whose promise a thread calls                *)
  lock,             (* who has mutex_ of a promise, beyond one action       *)
  result,           (* result_ of a promise                                 *)
  handlers,         (* value_callbacks_ and error_callbacks_ of a promise:  *)
                    (* keepers from then(), functions from fail()           *)
  forwarding,       (* the keepers that were scheduled without their        *)
                    (* function, to pass on an error                        *)
  quiet,            (* the last call of count() returned 0                  *)
  values,           (* how many values are in the Queue                     *)
  unscheduled,      (* the works nobody has scheduled yet                   *)
  completed         (* the works whose execution has ended                  *)

queues  == <<queue, scheduled_queue>>
promises == <<target, lock, result, handlers, forwarding>>
history == <<unscheduled, completed>>
vars == <<gil, mutex, active, queues, pc, work, argument, promises, quiet, values,
          history>>

Procs == Threads \cup {Client}

WorkerPC == {"next", "copying", "taken", "returned", "spent", "released", "spin",
             "exited"}
ClientPC == {"counting", "pop", "gone"}
SharedPC == {"python", "waiting", "schedule", "register", "set", "callbacks",
             "stop", "join"}

TypeOK ==
  /\ gil \in Procs \cup {Nobody} /\ mutex \in Procs \cup {Nobody}
  /\ active \in BOOLEAN /\ quiet \in BOOLEAN
  /\ queue \in SUBSET Works /\ scheduled_queue \in SUBSET Works
  /\ pc \in [Procs -> WorkerPC \cup ClientPC \cup SharedPC]
  /\ \A t \in Threads : pc[t] \notin ClientPC
  /\ pc[Client] \notin WorkerPC
  /\ work \in [Threads -> Works \cup {NoWork}]
  /\ argument \in [Procs -> Works \cup {NoWork}]
  /\ target \in [Procs -> Keepers \cup {NoWork}]
  /\ lock \in [Keepers -> Procs \cup {Nobody}]
  /\ result \in [Keepers -> {"none", "value", "error"}]
  /\ handlers \in [Keepers -> SUBSET Works]
  /\ forwarding \in SUBSET Keepers
  /\ values \in 0..MaxValues
  /\ unscheduled \in SUBSET Works /\ completed \in SUBSET Works

Init ==
  /\ gil = Client /\ mutex = Nobody
  /\ active = TRUE /\ quiet = FALSE
  /\ queue = {} /\ scheduled_queue = {}
  /\ pc = [p \in Procs |-> IF p = Client THEN "python" ELSE "next"]
  /\ work = [t \in Threads |-> NoWork]
  /\ argument = [p \in Procs |-> NoWork] /\ target = [p \in Procs |-> NoWork]
  /\ lock = [q \in Keepers |-> Nobody] /\ result = [q \in Keepers |-> "none"]
  /\ handlers = [q \in Keepers |-> {}] /\ forwarding = {}
  /\ values = 0
  /\ unscheduled = Works /\ completed = {}

Goto(p, to) == pc' = [pc EXCEPT ![p] = to]

(***************************************************************************)
(* Who owns what.  The Scheduler of Python is an object with references,   *)
(* the variable of the program and the functions that captured it, and it  *)
(* holds one handle of the impl_type; keepers and promises hold the others.*)
(* The program keeps no promise when it waits for count() = 0.             *)
(***************************************************************************)
ClientHolds == pc[Client] \notin {"stop", "join", "gone"}
Pending     == queue \cup scheduled_queue

Others(p)    == {work[t] : t \in Threads \ {p}} \ {NoWork}
Functions(p) == (Pending \cup {work[t] : t \in {u \in Threads \ {p} : pc[u] # "released"}})
                  \ (forwarding \cup {NoWork})
Registered   == UNION {handlers[q] : q \in Keepers}

\* Neither the Scheduler of Python, a keeper nor a promise holds a handle, but for p.
LastHolder(p) ==
  /\ ClientHolds => p = Client
  /\ Capturing \cap Functions(p) = {}
  /\ Keepers \cap (Pending \cup Others(p)) = {}
  /\ Registered = {}

Executing == {t \in Threads : pc[t] \in {"waiting", "python", "schedule", "register", "set",
                                         "callbacks", "returned"}}

\* Mutant: a closure drops its handle before its function.
CountIsZero_HandleFirst ==
  /\ Pending = {} /\ Executing = {} /\ Registered = {}
  /\ \A t \in Threads : work[t] \in Keepers => pc[t] \in {"spent", "released"}

\* count() is 0: the object holds the only handle, and there are no works.
CountIsZero ==
  /\ Pending = {} /\ Executing = {} /\ Registered = {}
  /\ \A t \in Threads : work[t] \notin Keepers

(***************************************************************************)
(* Python code, of the program or of a function that a worker called.      *)
(***************************************************************************)
InPython(p) == gil = p /\ pc[p] = "python"

\* The interpreter lets another thread run; time.sleep() does so too.
Switch(p) ==
  /\ InPython(p)
  /\ gil' = Nobody
  /\ Goto(p, "waiting")
  /\ UNCHANGED <<mutex, active, queues, work, argument, promises, quiet, values,
                 history>>

\* Back from there or from count(), or a worker calls a function.
Resume(p) ==
  /\ pc[p] = "waiting" /\ gil = Nobody
  /\ gil' = p
  /\ Goto(p, "python")
  /\ UNCHANGED <<mutex, active, queues, work, argument, promises, quiet, values,
                 history>>

\* schedule(), schedule_delayed(), send(): the GIL stays with the caller, who
\* needs a Scheduler to call them.
CallSchedule(p, w) ==
  /\ InPython(p) /\ w \in unscheduled
  /\ IF p = Client THEN ClientHolds ELSE work[p] \in Capturing
  /\ unscheduled' = unscheduled \ {w}
  /\ argument' = [argument EXCEPT ![p] = w]
  /\ quiet' = (quiet /\ p # Client)
  /\ Goto(p, "schedule")
  /\ UNCHANGED <<gil, mutex, active, queues, work, promises, values, completed>>

\* then_result() and then_promise() of a keeper, fail() of another function, on the
\* promise of q; and set(), also with the GIL.  quiet: then there are no promises.
HasPromises(p) == IF p = Client THEN ClientHolds /\ ~quiet ELSE work[p] \in Capturing

CallThen(p, w, q) ==
  /\ InPython(p) /\ HasPromises(p)
  /\ w \in unscheduled /\ q \in Kept \ unscheduled
  /\ unscheduled' = unscheduled \ {w}
  /\ argument' = [argument EXCEPT ![p] = w]
  /\ target' = [target EXCEPT ![p] = q]
  /\ Goto(p, "register")
  /\ UNCHANGED <<gil, mutex, active, queues, work, lock, result, handlers, forwarding,
                 quiet, values, completed>>

CallSet(p, q) ==
  /\ InPython(p) /\ HasPromises(p)
  /\ q \in Kept \ unscheduled
  /\ target' = [target EXCEPT ![p] = q]
  /\ Goto(p, "set")
  /\ UNCHANGED <<gil, mutex, active, queues, work, argument, lock, result, handlers,
                 forwarding, quiet, values, history>>

Enqueue(w, delayed) ==
  /\ queue' = IF active /\ ~delayed THEN queue \cup {w} ELSE queue
  /\ scheduled_queue' = IF active /\ delayed THEN scheduled_queue \cup {w}
                        ELSE scheduled_queue

schedule(p) ==
  /\ pc[p] = "schedule" /\ mutex = Nobody
  /\ Enqueue(argument[p], argument[p] \in Delayed)
  /\ argument' = [argument EXCEPT ![p] = NoWork]
  /\ Goto(p, "python")
  /\ UNCHANGED <<gil, mutex, active, work, promises, quiet, values, history>>

\* Queue.push(), and Queue.__next__, which waits with the GIL.
push(p) ==
  /\ InPython(p) /\ values < MaxValues
  /\ values' = values + 1
  /\ UNCHANGED <<gil, mutex, active, queues, pc, work, argument, promises, quiet, history>>

queue_next ==
  /\ InPython(Client) /\ MaxValues > 0
  /\ Goto(Client, "pop")
  /\ UNCHANGED <<gil, mutex, active, queues, work, argument, promises, quiet, values,
                 history>>

pop ==
  /\ pc[Client] = "pop" /\ values > 0
  /\ values' = values - 1
  /\ Goto(Client, "python")
  /\ UNCHANGED <<gil, mutex, active, queues, work, argument, promises, quiet, history>>

\* Scheduler.count(), the one method that releases the GIL.
count ==
  /\ InPython(Client) /\ ClientHolds
  /\ gil' = Nobody
  /\ Goto(Client, "counting")
  /\ UNCHANGED <<mutex, active, queues, work, argument, promises, quiet, values,
                 history>>

ReadCount ==
  /\ pc[Client] = "counting" /\ mutex = Nobody
  /\ quiet' = CountIsZero
  /\ Goto(Client, "waiting")
  /\ UNCHANGED <<gil, mutex, active, queues, work, argument, promises, values, history>>

\* Mutant: the program does not wait.
Drop_Impatient ==
  /\ InPython(Client) /\ ClientHolds
  /\ Goto(Client, IF LastHolder(Client) THEN "stop" ELSE "gone")
  /\ gil' = IF LastHolder(Client) THEN Client ELSE Nobody
  /\ UNCHANGED <<mutex, active, queues, work, argument, promises, quiet, values,
                 history>>

\* The program waited for count() = 0 and returns from main(): the reference of
\* its variable goes, and with the last one the Scheduler, under the GIL.
Drop ==
  /\ InPython(Client) /\ quiet
  /\ Goto(Client, IF LastHolder(Client) THEN "stop" ELSE "gone")
  /\ gil' = IF LastHolder(Client) THEN Client ELSE Nobody
  /\ UNCHANGED <<mutex, active, queues, work, argument, promises, quiet, values,
                 history>>

(***************************************************************************)
(* A promise.  Whoever settles it, or comes when it is settled, schedules  *)
(* the handlers of its kind with its mutex, and destroys the others with   *)
(* it, which takes the GIL for a function of Python.  then() gives it two  *)
(* handlers: one for values, with the function, and one for errors, which  *)
(* has the promise of the keeper only and passes the error on.             *)
(***************************************************************************)
ToSchedule(q) ==
  handlers[q] \cap (IF result[q] = "value" THEN Keepers ELSE Works \ forwarding)

\* Back in Python if a method of the binding was called, else in a closure.
Back(p) == Goto(p, IF gil = p THEN "python" ELSE "returned")

register(p) ==
  LET q == target[p]
  IN  /\ pc[p] = "register" /\ lock[q] = Nobody
      /\ handlers' = [handlers EXCEPT ![q] = @ \cup {argument[p]}]
      /\ argument' = [argument EXCEPT ![p] = NoWork]
      /\ IF result[q] = "none"
         THEN /\ target' = [target EXCEPT ![p] = NoWork]
              /\ Goto(p, "python")
              /\ UNCHANGED lock
         ELSE /\ lock' = [lock EXCEPT ![q] = p]
              /\ Goto(p, "callbacks")
              /\ UNCHANGED target
      /\ UNCHANGED <<gil, mutex, active, queues, work, result, forwarding, quiet, values,
                     history>>

\* The first result counts.
set(p) ==
  LET q == target[p]
  IN  /\ pc[p] = "set" /\ lock[q] = Nobody
      /\ IF result[q] = "none"
         THEN /\ \E r \in {"value", "error"} :
                   /\ p \in Threads /\ work[p] \in forwarding => r = "error"
                   /\ result' = [result EXCEPT ![q] = r]
              /\ lock' = [lock EXCEPT ![q] = p]
              /\ Goto(p, "callbacks")
              /\ UNCHANGED target
         ELSE /\ target' = [target EXCEPT ![p] = NoWork]
              /\ Back(p)
              /\ UNCHANGED <<result, lock>>
      /\ UNCHANGED <<gil, mutex, active, queues, work, argument, handlers, forwarding,
                     quiet, values, history>>

\* schedule_callbacks().  A keeper that passes an error on leaves its function.
ScheduleCallback(p) ==
  LET q == target[p]
  IN  /\ pc[p] = "callbacks" /\ mutex = Nobody
      /\ \E w \in ToSchedule(q) :
           LET forwards == result[q] = "error" /\ w \in Keepers
           IN  /\ Enqueue(w, FALSE)
               /\ forwarding' = IF forwards THEN forwarding \cup {w} ELSE forwarding
               /\ handlers' = IF forwards THEN handlers
                              ELSE [handlers EXCEPT ![q] = @ \ {w}]
      /\ UNCHANGED <<gil, mutex, active, pc, work, argument, target, lock, result, quiet,
                     values, history>>

\* Not the last reference to the Scheduler: p has a work or is the program.
DiscardHandler(p) ==
  LET q == target[p]
  IN  /\ pc[p] = "callbacks" /\ ToSchedule(q) = {}
      /\ gil \in {Nobody, p}
      /\ \E w \in handlers[q] : handlers' = [handlers EXCEPT ![q] = @ \ {w}]
      /\ UNCHANGED <<gil, mutex, active, queues, pc, work, argument, target, lock, result,
                     forwarding, quiet, values, history>>

Unlock(p) ==
  /\ pc[p] = "callbacks" /\ handlers[target[p]] = {}
  /\ lock' = [lock EXCEPT ![target[p]] = Nobody]
  /\ target' = [target EXCEPT ![p] = NoWork]
  /\ Back(p)
  /\ UNCHANGED <<gil, mutex, active, queues, work, argument, result, handlers, forwarding,
                 quiet, values, history>>

(***************************************************************************)
(* A worker.  An immediate work is moved out of queue_; a delayed one is   *)
(* copied from the top of the heap, and then popped, with the mutex held:  *)
(* copying a function of Python and destroying it take the GIL.            *)
(***************************************************************************)
TakeFront(t) ==
  /\ pc[t] = "next" /\ mutex = Nobody /\ active
  /\ \E w \in queue :
       /\ queue' = queue \ {w}
       /\ work' = [work EXCEPT ![t] = w]
  /\ Goto(t, "taken")
  /\ UNCHANGED <<gil, mutex, active, scheduled_queue, argument, promises, quiet, values,
                 history>>

TakeDue(t) ==
  /\ pc[t] = "next" /\ mutex = Nobody /\ active
  /\ scheduled_queue # {}
  /\ mutex' = t
  /\ Goto(t, "copying")
  /\ UNCHANGED <<gil, active, queues, work, argument, promises, quiet, values,
                 history>>

CopyDue(t) ==
  /\ pc[t] = "copying" /\ gil = Nobody
  /\ \E w \in scheduled_queue :
       /\ scheduled_queue' = scheduled_queue \ {w}
       /\ work' = [work EXCEPT ![t] = w]
  /\ mutex' = Nobody
  /\ Goto(t, "taken")
  /\ UNCHANGED <<gil, active, queue, argument, promises, quiet, values,
                 history>>

Exit(t) ==
  /\ pc[t] = "next" /\ mutex = Nobody /\ ~active /\ queue = {}
  /\ Goto(t, "exited")
  /\ UNCHANGED <<gil, mutex, active, queues, work, argument, promises, quiet, values,
                 history>>

\* Inactive with works left: the worker loops in next() with the mutex.
Spin(t) ==
  /\ pc[t] = "next" /\ mutex = Nobody /\ ~active /\ queue # {}
  /\ mutex' = t
  /\ Goto(t, "spin")
  /\ UNCHANGED <<gil, active, queues, work, argument, promises, quiet, values,
                 history>>

\* ++active_threads_count_.  A keeper without its function goes on to its promise.
Begin(t) ==
  /\ pc[t] = "taken"
  /\ IF work[t] \in forwarding
     THEN Goto(t, "set") /\ target' = [target EXCEPT ![t] = work[t]]
     ELSE Goto(t, "waiting") /\ UNCHANGED target
  /\ UNCHANGED <<gil, mutex, active, queues, work, argument, lock, result, handlers,
                 forwarding, quiet, values, history>>

\* What a closure does with what its function returned: a keeper sets its promise.
Settle(t) ==
  IF work[t] \in Keepers
  THEN Goto(t, "set") /\ target' = [target EXCEPT ![t] = work[t]]
  ELSE Goto(t, "returned") /\ UNCHANGED target

\* Mutant: the GIL is not released at the end of a function.
Return_Holding(t) ==
  /\ InPython(t)
  /\ Settle(t)
  /\ UNCHANGED <<gil, mutex, active, queues, work, argument, lock, result, handlers,
                 forwarding, quiet, values, history>>

Return(t) ==
  /\ InPython(t)
  /\ gil' = Nobody
  /\ Settle(t)
  /\ UNCHANGED <<mutex, active, queues, work, argument, lock, result, handlers,
                 forwarding, quiet, values, history>>

\* The next drainer of the actor, which the closure of send() schedules at its end.
ScheduleNext(t, w) ==
  /\ pc[t] = "returned" /\ mutex = Nobody
  /\ work[t] \in Keepers \ forwarding /\ w \in unscheduled \cap Keepers
  /\ unscheduled' = unscheduled \ {w}
  /\ Enqueue(w, FALSE)
  /\ UNCHANGED <<gil, mutex, active, pc, work, argument, promises, quiet, values,
                 completed>>

\* --active_threads_count_
Finish(t) ==
  /\ pc[t] = "returned"
  /\ completed' = completed \cup {work[t]}
  /\ Goto(t, "spent")
  /\ UNCHANGED <<gil, mutex, active, queues, work, argument, promises, quiet, values,
                 unscheduled>>

\* The end of the iteration destroys the work.  Its function takes the GIL, and
\* may hold the last reference to the Scheduler; then goes the keeper's handle.
Destroy(t) ==
  /\ pc[t] = "spent" /\ (gil = Nobody \/ work[t] \in forwarding)
  /\ LET last == work[t] \in Capturing /\ LastHolder(t)
     IN  IF work[t] \in Keepers
         THEN Goto(t, "released") /\ UNCHANGED <<gil, work>>
         ELSE /\ Goto(t, IF last THEN "stop" ELSE "next")
              /\ gil' = IF last THEN t ELSE Nobody
              /\ work' = [work EXCEPT ![t] = NoWork]
  /\ UNCHANGED <<mutex, active, queues, argument, promises, quiet, values,
                 history>>

Release(t) ==
  /\ pc[t] = "released"
  /\ Goto(t, IF LastHolder(t) THEN "stop" ELSE "next")
  /\ work' = [work EXCEPT ![t] = NoWork]
  /\ UNCHANGED <<gil, mutex, active, queues, argument, promises, quiet, values,
                 history>>

\* ~impl_type: stop(), then join every thread.
stop(p) ==
  /\ pc[p] = "stop" /\ mutex = Nobody
  /\ active' = FALSE
  /\ Goto(p, "join")
  /\ UNCHANGED <<gil, mutex, queues, work, argument, promises, quiet, values,
                 history>>

Join(p) ==
  /\ pc[p] = "join"
  /\ \A t \in Threads : pc[t] = "exited"
  /\ gil' = IF gil = p THEN Nobody ELSE gil
  /\ Goto(p, "gone")
  /\ UNCHANGED <<mutex, active, queues, work, argument, promises, quiet, values,
                 history>>

\* Who waits for the GIL, and who waits for a mutex or for another thread.
TakeGil(p) ==
  \/ Resume(p) \/ DiscardHandler(p)
  \/ p \in Threads /\ (CopyDue(p) \/ Destroy(p))

TakeMutex(p) ==
  \/ schedule(p) \/ register(p) \/ set(p) \/ ScheduleCallback(p) \/ stop(p) \/ Join(p)
  \/ p = Client /\ (ReadCount \/ pop)
  \/ p \in Threads /\ (TakeFront(p) \/ TakeDue(p) \/ Exit(p) \/ Spin(p))

Python(p) ==
  \/ Switch(p) \/ push(p)
  \/ \E w \in Works : CallSchedule(p, w) \/ \E q \in Kept : CallThen(p, w, q)
  \/ \E q \in Kept : CallSet(p, q)
  \/ p = Client /\ (queue_next \/ count \/ Drop)
  \/ p \in Threads /\ Return(p)

Closure(p) ==
  \/ Unlock(p)
  \/ p \in Threads /\ (Begin(p) \/ Finish(p) \/ Release(p))
  \/ p \in Threads /\ \E w \in Works : ScheduleNext(p, w)

Next == \E p \in Procs : Python(p) \/ TakeGil(p) \/ TakeMutex(p) \/ Closure(p)

Spec == Init /\ [][Next]_vars

\* A thread that can go on goes on.  Who waits for the GIL gets it, since the
\* interpreter makes its owner switch, and a function returns, however often it
\* is interrupted.
FairSpec ==
  /\ Spec
  /\ SF_vars(Switch(Client))
  /\ \A p \in Procs : SF_vars(TakeGil(p)) /\ WF_vars(TakeMutex(p) \/ Closure(p))
  /\ \A t \in Threads : SF_vars(Return(t))

-----------------------------------------------------------------------------
(***************************************************************************)
(* Properties.                                                             *)
(***************************************************************************)
\* Only closures of send() and then() were scheduled so far.
KeepersOnly == Works \ Keepers \subseteq unscheduled

\* Nobody has a work, nor a handler.
AllDone == Pending \cup Registered = {} /\ \A t \in Threads : work[t] = NoWork

\* Who waits for count() = 0 leaves when no worker has a function of Python left
\* to call or to destroy, nor a handle, and no promise has any: the program destroys
\* the Scheduler, which it does with the GIL, and no worker needs the GIL meanwhile.
LeftQuiet == KeepersOnly /\ ~ClientHolds => AllDone

\* No worker stays with the mutex of the Scheduler, nor in its destructor, where it
\* would wait for its own end: Python, which has the GIL, waits for neither.
NoWorkerBlocks ==
  KeepersOnly => mutex = Nobody /\ \A t \in Threads : pc[t] \notin {"stop", "join"}

\* The program ends: when its variable is gone the workers exit.
ProgramEnds == (KeepersOnly /\ ~ClientHolds) ~> (\A t \in Threads : pc[t] = "exited")

\* Three circular waits.  A worker copies a delayed function, with the mutex, and the
\* owner of the GIL wants the mutex, or a promise whose owner wants the mutex.
CopyingWaits ==
  \E t \in Threads, p \in Procs :
    /\ pc[t] = "copying" /\ gil = p
    /\ \/ pc[p] \in {"schedule", "stop"}
       \/ /\ pc[p] \in {"register", "set", "callbacks"}
          /\ lock[target[p]] # Nobody /\ ToSchedule(target[p]) # {}

\* A worker destroys the functions that a promise will not call, with the mutex of
\* the promise, which the owner of the GIL wants.
SettlingWaits ==
  \E t \in Threads, p \in Procs :
    /\ pc[t] = "callbacks" /\ ToSchedule(target[t]) = {} /\ handlers[target[t]] # {}
    /\ gil = p /\ pc[p] \in {"register", "set"} /\ target[p] = target[t]

\* The program waits for a value, with the GIL, that only functions of Python push.
IteratingWaits == pc[Client] = "pop" /\ values = 0

KnownWait == CopyingWaits \/ SettlingWaits \/ IteratingWaits

\* Nothing else keeps a work from completing, or a handler from being scheduled or
\* destroyed, while the Scheduler lives: as there are finitely many, all of them are.
OnlyKnownWaits == []<>(AllDone \/ KnownWait \/ ~active)
=============================================================================
