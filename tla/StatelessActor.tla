--------------------------- MODULE StatelessActor ---------------------------
(***************************************************************************)
(* traeger::StatelessActor (src/traeger/actor/StatelessActor.cpp): a queue *)
(* of tasks, a shared_mutex that tasks execute under, exclusively for the  *)
(* writers and shared for the readers, and no thread of its own.  Each     *)
(* send() pushes a task and schedules a drainer, a work that tries to      *)
(* execute the task at the front and schedules the next drainer while      *)
(* tasks are left.                                                         *)
(*                                                                         *)
(* The scheduler is what module WorkPool promises of it: drainers hold a   *)
(* Scheduler, so each one that is scheduled gets executed by one of its    *)
(* threads.  Drainers of one actor are all alike: the module counts them.  *)
(***************************************************************************)
EXTENDS Naturals, Sequences, FiniteSets

CONSTANTS Threads,    (* the threads of the scheduler                        *)
          Senders,    (* the threads that send messages                      *)
          Messages,   (* each one sent at most once                          *)
          Names,      (* names of methods                                    *)
          EXCLUSIVE, SHARED,  (* concurrency_type                            *)
          Undefined,  (* no method of that name                              *)
          Defined,    (* the methods before the first mailbox()              *)
          Late,       (* the <<name, concurrency>> defined after it          *)
          NoMessage, NoAnswer, Error

Kinds == {EXCLUSIVE, SHARED}

ASSUME ActorAssumption ==
  /\ IsFiniteSet(Threads) /\ IsFiniteSet(Senders)
  /\ EXCLUSIVE # SHARED /\ Undefined \notin Kinds
  /\ Defined \in [Names -> Kinds \cup {Undefined}]
  /\ Late \subseteq Names \X Kinds
  /\ NoMessage \notin Messages
  /\ NoAnswer \notin Seq(Messages) \cup {Error}

VARIABLES
  functions,   (* functions_ of the actor: the concurrency of each name      *)
  mailbox,     (* the functions_ of the mailbox the senders use              *)
  tasks,       (* tasks_ of the queue                                        *)
  drainers,    (* how many drainers wait in the scheduler                    *)
  pc,          (* where a thread of the scheduler is                         *)
  task,        (* the task a thread executes, it holds execution_mutex_      *)
  loaded,      (* the state of the actor a writer has read                   *)
  pushed,      (* the senders between push and schedule_next                 *)
  unsent, received, applied, answer  (* as in SequentialActor                *)

actor == <<functions, mailbox>>
vars == <<actor, tasks, drainers, pc, task, loaded, pushed, unsent, received,
          applied, answer>>

Tasks  == [msg : Messages, kind : Kinds]
NoTask == [msg |-> NoMessage, kind |-> SHARED]

TypeOK ==
  /\ functions \in [Names -> Kinds \cup {Undefined}]
  /\ mailbox \in [Names -> Kinds \cup {Undefined}]
  /\ tasks \in Seq(Tasks) /\ received \in Seq(Tasks)
  /\ drainers \in Nat
  /\ pc \in [Threads -> {"idle", "draining", "executing", "unlocking",
                         "rescheduling"}]
  /\ task \in [Threads -> Tasks \cup {NoTask}]
  /\ loaded \in [Threads -> Seq(Messages)]
  /\ pushed \in SUBSET Senders
  /\ unsent \in SUBSET Messages
  /\ applied \in Seq(Messages)
  /\ answer \in [Messages -> Seq(Messages) \cup {NoAnswer, Error}]

Init ==
  /\ functions = Defined /\ mailbox = Defined
  /\ tasks = <<>> /\ received = <<>> /\ applied = <<>>
  /\ drainers = 0
  /\ pc = [t \in Threads |-> "idle"]
  /\ task = [t \in Threads |-> NoTask]
  /\ loaded = [t \in Threads |-> <<>>]
  /\ pushed = {}
  /\ unsent = Messages
  /\ answer = [m \in Messages |-> NoAnswer]

Goto(t, to) == pc' = [pc EXCEPT ![t] = to]

(***************************************************************************)
(* The actor: define() changes its methods, a mailbox() is a snapshot.     *)
(***************************************************************************)
define(name, concurrency) ==
  /\ <<name, concurrency>> \in Late
  /\ functions' = [functions EXCEPT ![name] = concurrency]
  /\ UNCHANGED <<mailbox, tasks, drainers, pc, task, loaded, pushed, unsent,
                 received, applied, answer>>

take_mailbox ==
  /\ mailbox' = functions
  /\ UNCHANGED <<functions, tasks, drainers, pc, task, loaded, pushed, unsent,
                 received, applied, answer>>

(***************************************************************************)
(* send(): push the task, then schedule_next(), each in its own critical   *)
(* section of tasks_mutex_; or answer at once that there is no such method.*)
(***************************************************************************)
push(s, m, name) ==
  /\ s \notin pushed /\ m \in unsent
  /\ mailbox[name] # Undefined
  /\ unsent' = unsent \ {m}
  /\ tasks' = Append(tasks, [msg |-> m, kind |-> mailbox[name]])
  /\ received' = Append(received, [msg |-> m, kind |-> mailbox[name]])
  /\ pushed' = pushed \cup {s}
  /\ UNCHANGED <<actor, drainers, pc, task, loaded, applied, answer>>

no_such_method(s, m, name) ==
  /\ s \notin pushed /\ m \in unsent
  /\ mailbox[name] = Undefined
  /\ unsent' = unsent \ {m}
  /\ answer' = [answer EXCEPT ![m] = Error]
  /\ UNCHANGED <<actor, tasks, drainers, pc, task, loaded, pushed, received,
                 applied>>

\* Mutant: a drainer is at work, so none needs to be scheduled.
schedule_next_IfNone == IF tasks # <<>> /\ drainers = 0 THEN 1 ELSE drainers

\* schedule_next(): how many drainers it leaves in the scheduler
schedule_next == IF tasks # <<>> THEN drainers + 1 ELSE drainers

ScheduleSent(s) ==
  /\ s \in pushed
  /\ pushed' = pushed \ {s}
  /\ drainers' = schedule_next
  /\ UNCHANGED <<actor, tasks, pc, task, loaded, unsent, received, applied,
                 answer>>

(***************************************************************************)
(* A drainer: try_to_execute_next(), then schedule_next().                 *)
(***************************************************************************)
\* Mutant: an empty scheduler still gives a drainer.
StartDrainer_Unscheduled(t) ==
  /\ pc[t] = "idle"
  /\ drainers' = drainers - 1
  /\ Goto(t, "draining")
  /\ UNCHANGED <<actor, tasks, task, loaded, pushed, unsent, received, applied,
                 answer>>

StartDrainer(t) ==
  /\ pc[t] = "idle" /\ drainers > 0
  /\ drainers' = drainers - 1
  /\ Goto(t, "draining")
  /\ UNCHANGED <<actor, tasks, task, loaded, pushed, unsent, received, applied,
                 answer>>

\* Who holds execution_mutex_, from try_to_lock to the end of the scope.
Holders == {t \in Threads : pc[t] \in {"executing", "unlocking"}}

\* Mutant: a shared lock is granted beside an exclusive one.
try_lock_Readers(kind) ==
  kind = SHARED \/ Holders = {}

try_lock(kind) ==
  \A t \in Holders : kind = SHARED /\ task[t].kind = SHARED

Ready == tasks # <<>> /\ try_lock(Head(tasks).kind)

\* Mutant: the first task whose lock is free, a reader overtakes a writer.
TakeTask_Overtake(t) ==
  /\ pc[t] = "draining"
  /\ \E i \in DOMAIN tasks :
       /\ try_lock(tasks[i].kind)
       /\ \A j \in 1..(i - 1) : ~try_lock(tasks[j].kind)
       /\ task' = [task EXCEPT ![t] = tasks[i]]
       /\ tasks' = SubSeq(tasks, 1, i - 1) \o SubSeq(tasks, i + 1, Len(tasks))
  /\ loaded' = [loaded EXCEPT ![t] = applied]
  /\ Goto(t, "executing")
  /\ UNCHANGED <<actor, drainers, pushed, unsent, received, applied, answer>>

\* With tasks_mutex_ held: the lock first, then the pop, then the mutex is given
\* up and the task executed.
TakeTask(t) ==
  /\ pc[t] = "draining" /\ Ready
  /\ task' = [task EXCEPT ![t] = Head(tasks)]
  /\ tasks' = Tail(tasks)
  /\ loaded' = [loaded EXCEPT ![t] = applied]
  /\ Goto(t, "executing")
  /\ UNCHANGED <<actor, drainers, pushed, unsent, received, applied, answer>>

\* Mutant: a drainer that gets no lock schedules another one by itself.
NoTaskTaken_Retry(t) ==
  /\ pc[t] = "draining" /\ ~Ready
  /\ drainers' = schedule_next
  /\ Goto(t, "rescheduling")
  /\ UNCHANGED <<actor, tasks, task, loaded, pushed, unsent, received, applied,
                 answer>>

NoTaskTaken(t) ==
  /\ pc[t] = "draining" /\ ~Ready
  /\ Goto(t, "rescheduling")
  /\ UNCHANGED <<actor, tasks, drainers, task, loaded, pushed, unsent, received,
                 applied, answer>>

\* promise.set_result(function(arguments)): a writer replaces the state it has
\* read, a reader answers with the state it finds; an exception becomes an Error,
\* which a writer may throw before or after it has changed the state.
Execute(t) ==
  LET m == task[t].msg IN
  /\ pc[t] = "executing"
  /\ \/ /\ task[t].kind = EXCLUSIVE
        /\ applied' = Append(loaded[t], m)
        /\ \E a \in {applied', Error} : answer' = [answer EXCEPT ![m] = a]
     \/ /\ task[t].kind = SHARED
        /\ answer' = [answer EXCEPT ![m] = applied]
        /\ UNCHANGED applied
     \/ /\ answer' = [answer EXCEPT ![m] = Error]
        /\ UNCHANGED applied
  /\ Goto(t, "unlocking")
  /\ UNCHANGED <<actor, tasks, drainers, task, loaded, pushed, unsent, received>>

Unlock(t) ==
  /\ pc[t] = "unlocking"
  /\ task' = [task EXCEPT ![t] = NoTask]
  /\ loaded' = [loaded EXCEPT ![t] = <<>>]
  /\ Goto(t, "rescheduling")
  /\ UNCHANGED <<actor, tasks, drainers, pushed, unsent, received, applied,
                 answer>>

EndDrainer(t) ==
  /\ pc[t] = "rescheduling"
  /\ drainers' = schedule_next
  /\ Goto(t, "idle")
  /\ UNCHANGED <<actor, tasks, task, loaded, pushed, unsent, received, applied,
                 answer>>

Worker(t) ==
  \/ StartDrainer(t) \/ TakeTask(t) \/ NoTaskTaken(t) \/ Execute(t)
  \/ Unlock(t) \/ EndDrainer(t)

send(s, m, name) == push(s, m, name) \/ no_such_method(s, m, name)

Next ==
  \/ \E name \in Names, concurrency \in Kinds : define(name, concurrency)
  \/ take_mailbox
  \/ \E s \in Senders, m \in Messages, name \in Names : send(s, m, name)
  \/ \E s \in Senders : ScheduleSent(s)
  \/ \E t \in Threads : Worker(t)

Spec == Init /\ [][Next]_vars

\* A sender that has pushed goes on; the scheduler executes its drainers; methods
\* return.
FairSpec ==
  /\ Spec
  /\ \A s \in Senders : WF_vars(ScheduleSent(s))
  /\ \A t \in Threads : WF_vars(Worker(t))

-----------------------------------------------------------------------------
\* "Messages associated to writers are executed sequentially", and no reader
\* beside a writer: two threads hold execution_mutex_ only for two readers.
WriterAlone ==
  \A t, u \in Holders : t # u => task[t].kind = SHARED /\ task[u].kind = SHARED

\* Drainers neither starve the queue nor serialise it: beside the ones that are
\* executing a task there are as many as there are tasks, so a task that could
\* be executed now never waits for one that is being executed.
EnoughDrainers ==
  Len(tasks) <= drainers + Cardinality(pushed)
                 + Cardinality({t \in Threads : pc[t] \in {"draining", "rescheduling"}})

\* Drainers do not multiply either: no more are around than messages were
\* received, counting those that execute one.
NoDrainerLeak ==
  drainers + Cardinality(pushed)
    + Cardinality({t \in Threads : pc[t] # "idle"}) <= Len(received)

\* Every behaviour of the mailbox is one of an actor that executes one message
\* at a time, in the order of arrival as far as it matters, and loses none.
Abstract == INSTANCE SequentialActor
ImplementsFairActor == Abstract!FairSpec
=============================================================================
