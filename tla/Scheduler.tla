----------------------------- MODULE Scheduler -----------------------------
(***************************************************************************)
(* traeger::Scheduler: a pool of worker threads around one mutex, one      *)
(* condition variable, a queue of immediate works and a priority queue of  *)
(* delayed ones (src/traeger/actor/Scheduler.cpp).                         *)
(*                                                                         *)
(* A critical section is one action, since the code never gives the mutex  *)
(* up inside one except to wait; a wait is two actions, going to sleep and *)
(* resuming.  The one place where a thread keeps the mutex for ever, the   *)
(* loop of next() on an inactive scheduler with works left, is the control *)
(* point "spin".                                                           *)
(*                                                                         *)
(* A Scheduler is a shared_ptr to its impl_type: the client holds one      *)
(* handle and a work may hold another in its closure (a Keeper: what send()*)
(* and then() schedule, through the Scheduler or the Promise it captures;  *)
(* a work given to schedule() or an error callback given to fail() may     *)
(* well be none).  Whoever drops the last handle runs ~impl_type, which    *)
(* may be a worker.                                                        *)
(***************************************************************************)
EXTENDS Integers, Sequences, FiniteSets, Functions

CONSTANTS Threads,  (* the worker threads, Threads{n} of them               *)
          Client,   (* the thread that made the Scheduler                   *)
          Works,    (* the works, each one scheduled at most once           *)
          Keepers,  (* the works whose closure holds a Scheduler            *)
          NoWork,   (* an empty Work                                        *)
          Delays,   (* the delays works are scheduled with; 0 is "now"      *)
          Horizon   (* the bound of the clock                               *)

ASSUME SchedulerAssumption ==
  /\ Threads # {} /\ IsFiniteSet(Threads) /\ Client \notin Threads
  /\ IsFiniteSet(Works) /\ NoWork \notin Works
  /\ Keepers \subseteq Works
  /\ Delays \subseteq Int
  /\ Horizon \in Nat

VARIABLES
  active,                (* active_                                          *)
  threads_count,         (* threads_count_                                   *)
  active_threads_count,  (* active_threads_count_, an atomic                 *)
  queue,                 (* queue_                                           *)
  scheduled_queue,       (* scheduled_queue_, the works in it                *)
  time_point,            (* when a delayed work is due                       *)
  clock,                 (* Clock::now()                                     *)
  pc,                    (* where each thread is, the client included        *)
  work,                  (* the local variable of worker(): what it executes *)
  deadline,              (* the argument of the wait_until a worker is in    *)
  seen,                  (* what count() has summed up, then its result; -1  *)
                         (* once the client has left without asking          *)
  unscheduled,           (* the works nobody has scheduled yet               *)
  finished               (* the works whose execution has ended              *)

counters == <<threads_count, active_threads_count>>
queues   == <<queue, scheduled_queue, time_point>>
history  == <<unscheduled, finished>>
vars == <<active, counters, queues, clock, pc, work, deadline, seen, history>>

Procs == Threads \cup {Client}

WorkerPC == {"next", "wait", "timed", "woken", "taken", "running", "spent",
             "spin", "exited"}
ClientPC == {"holding", "uses_read", "queues_read", "counted", "gone"}
DestructorPC == {"stop", "stop_wait", "stop_woken", "join"}

TypeOK ==
  /\ active \in BOOLEAN
  /\ threads_count \in 0..Cardinality(Threads)
  /\ active_threads_count \in 0..Cardinality(Threads)
  /\ queue \in Seq(Works)
  /\ scheduled_queue \in SUBSET Works
  /\ time_point \in [Works -> Int]
  /\ clock \in 0..Horizon
  /\ pc \in [Procs -> WorkerPC \cup ClientPC \cup DestructorPC]
  /\ \A t \in Threads : pc[t] \notin ClientPC
  /\ pc[Client] \notin WorkerPC
  /\ work \in [Threads -> Works \cup {NoWork}]
  /\ deadline \in [Threads -> Int]
  /\ seen \in Int
  /\ unscheduled \in SUBSET Works
  /\ finished \in SUBSET Works

(***************************************************************************)
(* The condition variable.  Workers and the thread in stop() wait on the   *)
(* same one, so notify_one may wake any of them.                           *)
(***************************************************************************)
Waiters(loc) == {p \in Procs : loc[p] \in {"wait", "timed", "stop_wait"}}

Awake(loc, W) ==
  [p \in Procs |-> IF p \notin W THEN loc[p]
                   ELSE IF loc[p] = "stop_wait" THEN "stop_woken" ELSE "woken"]

\* Mutant: the notification is forgotten.
NotifyOne_Nobody(loc) == {loc}

\* The possible results of notify_one: nobody waits, or one waiter is woken.
NotifyOne(loc) ==
  IF Waiters(loc) = {} THEN {loc} ELSE {Awake(loc, {p}) : p \in Waiters(loc)}

NotifyAll(loc) == Awake(loc, Waiters(loc))

MutexFree == \A p \in Procs : pc[p] # "spin"

(***************************************************************************)
(* Ownership.  use_count() of the impl_type is the client's handle, if it  *)
(* still has it, plus one for each closure alive that holds one.           *)
(***************************************************************************)
ClientHolds == pc[Client] \in {"holding", "uses_read", "queues_read", "counted"}

Pending == Range(queue) \cup scheduled_queue
Held    == {work[t] : t \in Threads} \ {NoWork}

\* Mutant: a work taken out of the queue no longer holds its handle.
KeepersAlive_Queued == Keepers \cap Pending

KeepersAlive == Keepers \cap (Pending \cup Held)

use_count == Cardinality(KeepersAlive) + (IF ClientHolds THEN 1 ELSE 0)

\* impl_type::count(), under the mutex
impl_count ==
  Len(queue) + Cardinality(scheduled_queue) + active_threads_count

(***************************************************************************)
(* The priority queue: its top is one of the works with the least time.    *)
(***************************************************************************)
Tops == {w \in scheduled_queue :
           \A v \in scheduled_queue : time_point[w] <= time_point[v]}
DueTops == {w \in Tops : clock >= time_point[w]}

Init ==
  /\ active = TRUE
  /\ threads_count = Cardinality(Threads)
  /\ active_threads_count = 0
  /\ queue = <<>>
  /\ scheduled_queue = {}
  /\ time_point = [w \in Works |-> 0]
  /\ clock = 0
  /\ pc = [p \in Procs |-> IF p = Client THEN "holding" ELSE "next"]
  /\ work = [t \in Threads |-> NoWork]
  /\ deadline = [t \in Threads |-> 0]
  /\ seen = 0
  /\ unscheduled = Works
  /\ finished = {}

Goto(p, to) == pc' = [pc EXCEPT ![p] = to]

(***************************************************************************)
(* schedule() and schedule_delayed().  A caller has a handle of its own    *)
(* (the client, a keeper in execution), or a reference to the client's     *)
(* Scheduler, which it can still call while that one is being destroyed    *)
(* but of which it can make no new handle.                                 *)
(***************************************************************************)
Running == {t \in Threads : pc[t] = "running"}

MaySchedule(w) ==
  \/ pc[Client] = "holding"
  \/ \E t \in Running : work[t] \in Keepers \/ ClientHolds
  \/ Running # {} /\ pc[Client] \in DestructorPC /\ w \notin Keepers

\* Mutant: notify only the first work of an empty queue.
schedule_NotifyFirst(w, delay) ==
  /\ w \in unscheduled /\ MaySchedule(w) /\ MutexFree
  /\ clock + delay <= Horizon
  /\ unscheduled' = unscheduled \ {w}
  /\ queue' = IF active THEN Append(queue, w) ELSE queue
  /\ IF active /\ queue = <<>> THEN pc' \in NotifyOne(pc) ELSE UNCHANGED pc
  /\ UNCHANGED <<active, counters, scheduled_queue, time_point, clock, work,
                 deadline, seen, finished>>

schedule(w, delay) ==
  /\ w \in unscheduled /\ MaySchedule(w) /\ MutexFree
  /\ clock + delay <= Horizon
  /\ unscheduled' = unscheduled \ {w}
  /\ IF active
     THEN /\ IF delay # 0
             THEN /\ scheduled_queue' = scheduled_queue \cup {w}
                  /\ time_point' = [time_point EXCEPT ![w] = clock + delay]
                  /\ UNCHANGED queue
             ELSE /\ queue' = Append(queue, w)
                  /\ UNCHANGED <<scheduled_queue, time_point>>
          /\ pc' \in NotifyOne(pc)
     ELSE UNCHANGED <<queues, pc>>
  /\ UNCHANGED <<active, counters, clock, work, deadline, seen, finished>>

(***************************************************************************)
(* next(): what a worker does once it has the mutex.  It enters from the   *)
(* loop of worker() ("next") or resumes from a wait ("woken").  On entry   *)
(* an empty queue sends it to wait, even when a delayed work is due: the   *)
(* wait_until then ends at once, but it does give the mutex up.            *)
(***************************************************************************)
InNext(t) == pc[t] \in {"next", "woken"} /\ MutexFree

\* condition_.wait(lock): nothing to do at all
Wait(t) ==
  /\ InNext(t) /\ active
  /\ queue = <<>> /\ scheduled_queue = {}
  /\ Goto(t, "wait")
  /\ deadline' = [deadline EXCEPT ![t] = 0]
  /\ UNCHANGED <<active, counters, queues, clock, work, seen, history>>

\* condition_.wait_until(lock, time_point): only delayed works
WaitUntil(t) ==
  /\ InNext(t) /\ active
  /\ queue = <<>> /\ scheduled_queue # {}
  /\ pc[t] = "next" \/ DueTops = {}
  /\ \E w \in Tops : deadline' = [deadline EXCEPT ![t] = time_point[w]]
  /\ Goto(t, "timed")
  /\ UNCHANGED <<active, counters, queues, clock, work, seen, history>>

\* Mutant: take the top of the priority queue without looking at its time.
TakeDue_Early(t) ==
  /\ InNext(t) /\ active
  /\ pc[t] = "woken" \/ queue # <<>>
  /\ \E w \in Tops :
       /\ work' = [work EXCEPT ![t] = w]
       /\ scheduled_queue' = scheduled_queue \ {w}
  /\ Goto(t, "taken")
  /\ deadline' = [deadline EXCEPT ![t] = 0]
  /\ UNCHANGED <<active, counters, queue, time_point, clock, seen,
                 history>>

\* A due delayed work goes before the immediate ones.
TakeDue(t) ==
  /\ InNext(t) /\ active
  /\ pc[t] = "woken" \/ queue # <<>>
  /\ \E w \in DueTops :
       /\ work' = [work EXCEPT ![t] = w]
       /\ scheduled_queue' = scheduled_queue \ {w}
  /\ Goto(t, "taken")
  /\ deadline' = [deadline EXCEPT ![t] = 0]
  /\ UNCHANGED <<active, counters, queue, time_point, clock, seen,
                 history>>

TakeFront(t) ==
  /\ InNext(t) /\ active
  /\ DueTops = {} /\ queue # <<>>
  /\ work' = [work EXCEPT ![t] = Head(queue)]
  /\ queue' = Tail(queue)
  /\ Goto(t, "taken")
  /\ deadline' = [deadline EXCEPT ![t] = 0]
  /\ UNCHANGED <<active, counters, scheduled_queue, time_point, clock, seen, history>>

\* Mutant: the last thread does not tell the one in stop().
Exit_Silent(t) ==
  /\ InNext(t) /\ ~active /\ queue = <<>>
  /\ threads_count' = threads_count - 1
  /\ Goto(t, "exited")
  /\ deadline' = [deadline EXCEPT ![t] = 0]
  /\ UNCHANGED <<active, active_threads_count, queues, clock, work, seen, history>>

\* Inactive and no immediate work left: the thread ends, and its notify_one
\* tells the thread in stop().
Exit(t) ==
  /\ InNext(t) /\ ~active /\ queue = <<>>
  /\ threads_count' = threads_count - 1
  /\ pc' \in NotifyOne([pc EXCEPT ![t] = "exited"])
  /\ deadline' = [deadline EXCEPT ![t] = 0]
  /\ UNCHANGED <<active, active_threads_count, queues, clock, work, seen, history>>

\* Inactive with immediate works left: no branch of the loop returns or waits.
Spin(t) ==
  /\ InNext(t) /\ ~active /\ queue # <<>>
  /\ Goto(t, "spin")
  /\ deadline' = [deadline EXCEPT ![t] = 0]
  /\ UNCHANGED <<active, counters, queues, clock, work, seen, history>>

\* The end of a wait without a notification: the deadline, or a spurious one.
Timeout(t) ==
  /\ pc[t] = "timed" /\ clock >= deadline[t]
  /\ Goto(t, "woken")
  /\ UNCHANGED <<active, counters, queues, clock, work, deadline, seen, history>>

SpuriousWakeup(p) ==
  /\ p \in Waiters(pc)
  /\ pc' = Awake(pc, {p})
  /\ UNCHANGED <<active, counters, queues, clock, work, deadline, seen, history>>

(***************************************************************************)
(* worker(): count the work, execute it, discount it; its closure is       *)
(* destroyed at the end of the iteration, with the handle it may hold.     *)
(***************************************************************************)
Begin(t) ==
  /\ pc[t] = "taken"
  /\ active_threads_count' = active_threads_count + 1
  /\ Goto(t, "running")
  /\ UNCHANGED <<active, threads_count, queues, clock, work, deadline, seen,
                 history>>

\* Mutant: --active_threads_count_ is forgotten.
Finish_Counted(t) ==
  /\ pc[t] = "running"
  /\ finished' = finished \cup {work[t]}
  /\ Goto(t, "spent")
  /\ UNCHANGED <<active, counters, queues, clock, work, deadline, seen,
                 unscheduled>>

Finish(t) ==
  /\ pc[t] = "running"
  /\ active_threads_count' = active_threads_count - 1
  /\ finished' = finished \cup {work[t]}
  /\ Goto(t, "spent")
  /\ UNCHANGED <<active, threads_count, queues, clock, work, deadline, seen,
                 unscheduled>>

Release(t) ==
  /\ pc[t] = "spent"
  /\ work' = [work EXCEPT ![t] = NoWork]
  /\ Goto(t, IF work[t] \in Keepers /\ use_count = 1 THEN "stop" ELSE "next")
  /\ UNCHANGED <<active, counters, queues, clock, deadline, seen, history>>

(***************************************************************************)
(* Scheduler::count(), called by the client: use_count() is read without   *)
(* the mutex and impl_->count() with it, in either order.                  *)
(***************************************************************************)
\* Mutant: count() is impl_->count() alone.
ReadUseCount_Nothing ==
  /\ \/ pc[Client] = "holding" /\ seen' = 0 /\ Goto(Client, "uses_read")
     \/ pc[Client] = "queues_read" /\ UNCHANGED seen /\ Goto(Client, "counted")
  /\ UNCHANGED <<active, counters, queues, clock, work, deadline, history>>

ReadUseCount ==
  /\ \/ pc[Client] = "holding" /\ seen' = use_count - 1 /\ Goto(Client, "uses_read")
     \/ /\ pc[Client] = "queues_read"
        /\ seen' = seen + use_count - 1
        /\ Goto(Client, "counted")
  /\ UNCHANGED <<active, counters, queues, clock, work, deadline, history>>

ReadImplCount ==
  /\ MutexFree
  /\ \/ pc[Client] = "holding" /\ seen' = impl_count /\ Goto(Client, "queues_read")
     \/ /\ pc[Client] = "uses_read"
        /\ seen' = seen + impl_count
        /\ Goto(Client, "counted")
  /\ UNCHANGED <<active, counters, queues, clock, work, deadline, history>>

\* The client goes on, whatever count() returned.
Continue ==
  /\ pc[Client] = "counted"
  /\ seen' = 0
  /\ Goto(Client, "holding")
  /\ UNCHANGED <<active, counters, queues, clock, work, deadline, history>>

\* A client leaves when count() has returned 0, or does not ask.
Leave ==
  \/ pc[Client] = "counted" /\ seen = 0 /\ UNCHANGED seen
  \/ pc[Client] = "holding" /\ seen' = -1

\* Mutant: ~Scheduler stops the pool whoever else holds it.
Drop_Stops ==
  /\ Leave
  /\ Goto(Client, "stop")
  /\ UNCHANGED <<active, counters, queues, clock, work, deadline, history>>

Drop ==
  /\ Leave
  /\ Goto(Client, IF use_count = 1 THEN "stop" ELSE "gone")
  /\ UNCHANGED <<active, counters, queues, clock, work, deadline, history>>

(***************************************************************************)
(* ~impl_type: stop(), then join every thread.                             *)
(***************************************************************************)
stop(p) ==
  /\ pc[p] = "stop" /\ MutexFree
  /\ active' = FALSE
  /\ pc' = [NotifyAll(pc) EXCEPT ![p] = IF threads_count = 0 THEN "join"
                                        ELSE "stop_wait"]
  /\ UNCHANGED <<counters, queues, clock, work, deadline, seen, history>>

StopResume(p) ==
  /\ pc[p] = "stop_woken" /\ MutexFree
  /\ Goto(p, IF threads_count = 0 THEN "join" ELSE "stop_wait")
  /\ UNCHANGED <<active, counters, queues, clock, work, deadline, seen, history>>

Join(p) ==
  /\ pc[p] = "join"
  /\ \A t \in Threads : pc[t] = "exited"
  /\ Goto(p, "gone")
  /\ UNCHANGED <<active, counters, queues, clock, work, deadline, seen, history>>

Tick ==
  /\ clock < Horizon
  /\ clock' = clock + 1
  /\ UNCHANGED <<active, counters, queues, pc, work, deadline, seen, history>>

Worker(t) ==
  \/ Wait(t) \/ WaitUntil(t) \/ TakeDue(t) \/ TakeFront(t) \/ Exit(t) \/ Spin(t)
  \/ Timeout(t) \/ Begin(t) \/ Finish(t) \/ Release(t)

Destructor(p) == stop(p) \/ StopResume(p) \/ Join(p)

Counting == ReadUseCount \/ ReadImplCount \/ Continue

Next ==
  \/ \E w \in Works, delay \in Delays : schedule(w, delay)
  \/ \E t \in Threads : Worker(t)
  \/ \E p \in Procs : SpuriousWakeup(p) \/ Destructor(p)
  \/ Counting \/ Drop
  \/ Tick

Spec == Init /\ [][Next]_vars

\* A thread that can go on goes on: works end, the mutex is granted, deadlines
\* pass.  Nobody is obliged to schedule, to count or to leave.
FairSpec ==
  /\ Spec
  /\ WF_vars(Tick)
  /\ \A t \in Threads : WF_vars(Worker(t))
  /\ \A p \in Procs : WF_vars(Destructor(p))

-----------------------------------------------------------------------------
(***************************************************************************)
(* Properties.                                                             *)
(***************************************************************************)
\* A worker that does not sleep: it is in an iteration of worker(), or on its
\* way back to the mutex.  The one that runs the destructor is about to wake
\* everybody up.
Busy(t) == pc[t] \notin {"wait", "timed", "exited"}

\* t sleeps until the first of the delayed works is due.
Armed(t) ==
  pc[t] = "timed" /\ \A w \in scheduled_queue : deadline[t] <= time_point[w]

\* No lost wakeup: while the scheduler is active and holds a work, some worker
\* is up, or the only works are delayed ones and a worker sleeps no longer than
\* the first of them.  schedule() notifies one waiter, which may be the wrong
\* one or be about to take another work; next() must make up for it.
NoLostWakeup ==
  active /\ Pending # {} =>
    \E t \in Threads : Busy(t) \/ (queue = <<>> /\ Armed(t))

\* No worker sleeps beside an immediate work unless as many workers as there
\* are works are on their way to the queue.  It holds until the first delayed
\* work: when that gets due it is taken by a worker that was woken for an
\* immediate one, which then waits for a busy worker.
NoneDelayed == \A w \in Works : time_point[w] = 0

WorkConserving ==
  active /\ NoneDelayed /\ (\E t \in Threads : pc[t] = "wait") =>
    Len(queue) <= Cardinality({t \in Threads : pc[t] \in {"next", "woken"}})

\* All that was scheduled so far holds the scheduler, as it is with send() and
\* then(), and the client has not left without asking.
KeepersOnly == Works \ Keepers \subseteq unscheduled
Orderly     == KeepersOnly /\ (ClientHolds \/ seen = 0)

\* count() = 0 means quiet: no closure is pending or in execution, although the
\* two counters count() adds are read at different times and a work between
\* next() and ++active_threads_count_ is in neither.
CountZeroMeansQuiet ==
  KeepersOnly /\ pc[Client] = "counted" /\ seen = 0 => Pending \cup Held = {}

\* The works of a pool that is being destroyed hold no handle: whoever runs
\* ~impl_type is alone in it and owns nothing else of it.
DestroyedUnowned ==
  \A p \in Procs : pc[p] \in DestructorPC =>
    /\ KeepersAlive = {} /\ ~ClientHolds
    /\ \A q \in Procs : pc[q] \in DestructorPC => q = p

\* A client that waits for count() = 0 destroys the scheduler itself: no worker
\* ever waits in stop() for its own end, nor keeps the mutex for ever in next().
NoWorkerDestroys ==
  Orderly => \A t \in Threads : pc[t] \notin DestructorPC \cup {"spin"}

\* Its destructor returns.
PatientReturns == (pc[Client] = "stop" /\ Orderly) ~> (pc[Client] = "gone")

\* The destructor a client runs returns, however it leaves: it does not, when it
\* leaves works behind.
DestructorReturns == (pc[Client] = "stop") ~> (pc[Client] = "gone")

-----------------------------------------------------------------------------
(***************************************************************************)
(* The scheduler implements WorkPool: a work waits in one of the queues,   *)
(* and executes from the moment a worker takes it.                         *)
(***************************************************************************)
Executing == {work[t] : t \in {u \in Threads : pc[u] \in {"taken", "running"}}}

Pool == INSTANCE WorkPool WITH
          Capacity <- Cardinality(Threads), open <- active, waiting <- Pending,
          not_before <- time_point, executing <- Executing

\* Every behaviour of the scheduler is one of the pool: no work is executed
\* twice, early or beside more than Cardinality(Threads) - 1 others, none is lost
\* while the pool is open, and it closes on no work that holds it.  Under the
\* fairness of the threads every work gets its turn while the pool is open.
ImplementsFairPool == Pool!FairSpec
=============================================================================
