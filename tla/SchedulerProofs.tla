-------------------------- MODULE SchedulerProofs --------------------------
(***************************************************************************)
(* Proofs about module Scheduler, for any number of threads and works.     *)
(***************************************************************************)
EXTENDS Scheduler, FiniteSetTheorems, SequenceTheorems, TLAPS

PCs == WorkerPC \cup ClientPC \cup DestructorPC

\* A notification changes the control point of waiters only.
Woken(loc, new) ==
  /\ new \in [Procs -> PCs]
  /\ \A p \in Procs :
       \/ new[p] = loc[p]
       \/ loc[p] \in {"wait", "timed"} /\ new[p] = "woken"
       \/ loc[p] = "stop_wait" /\ new[p] = "stop_woken"

LEMMA AwakeWakes ==
  ASSUME NEW loc \in [Procs -> PCs], NEW W \in SUBSET Waiters(loc)
  PROVE  Woken(loc, Awake(loc, W))
  BY SMT DEF Awake, Woken, Waiters, PCs, WorkerPC, ClientPC, DestructorPC

\* notify_one: a notification, and if anybody waits then somebody is woken.
LEMMA NotifyOneWakes ==
  ASSUME NEW loc \in [Procs -> PCs], NEW new \in NotifyOne(loc)
  PROVE  /\ Woken(loc, new)
         /\ Waiters(loc) # {} =>
              \E p \in Waiters(loc) : new[p] \in {"woken", "stop_woken"}
<1>1. CASE Waiters(loc) = {}
  BY <1>1, SMT DEF NotifyOne, Woken
<1>2. CASE Waiters(loc) # {}
  <2>1. PICK p \in Waiters(loc) : new = Awake(loc, {p})
    BY <1>2 DEF NotifyOne
  <2>2. Woken(loc, new)
    BY <2>1, AwakeWakes
  <2>3. p \in Procs /\ new[p] \in {"woken", "stop_woken"}
    BY <2>1 DEF Awake, Waiters
  <2> QED
    BY <2>1, <2>2, <2>3
<1> QED
  BY <1>1, <1>2

-----------------------------------------------------------------------------
(***************************************************************************)
(* Type correctness.  The counters stay in their range because they count  *)
(* threads: threads_count_ those that have not left next() for good,       *)
(* active_threads_count_ those that execute a work.                        *)
(***************************************************************************)
Alive == {t \in Threads : pc[t] # "exited"}

Accounting ==
  /\ threads_count = Cardinality(Alive)
  /\ active_threads_count = Cardinality(Running)

\* What TypeOK says of the counters follows from Accounting.
TypeButCounters ==
  /\ active \in BOOLEAN
  /\ queue \in Seq(Works)
  /\ scheduled_queue \in SUBSET Works
  /\ time_point \in [Works -> Int]
  /\ clock \in 0..Horizon
  /\ pc \in [Procs -> PCs]
  /\ \A t \in Threads : pc[t] \notin ClientPC
  /\ pc[Client] \notin WorkerPC
  /\ work \in [Threads -> Works \cup {NoWork}]
  /\ deadline \in [Threads -> Int]
  /\ seen \in Int
  /\ unscheduled \in SUBSET Works
  /\ finished \in SUBSET Works

\* A thread executes something from next() to the end of the iteration.
HasWork == \A t \in Threads : pc[t] \in {"taken", "running", "spent"} => work[t] \in Works

TypeInv == TypeButCounters /\ HasWork /\ Accounting

LEMMA SubsetCount ==
  ASSUME NEW S \in SUBSET Threads
  PROVE  IsFiniteSet(S) /\ Cardinality(S) \in 0..Cardinality(Threads)
<1>1. IsFiniteSet(Threads)
  BY SchedulerAssumption
<1>2. IsFiniteSet(S) /\ Cardinality(S) <= Cardinality(Threads)
  BY <1>1, FS_Subset
<1>3. Cardinality(S) \in Nat /\ Cardinality(Threads) \in Nat
  BY <1>1, <1>2, FS_CardinalityType
<1> QED
  BY <1>2, <1>3

LEMMA TypeInvTypeOK == TypeInv => TypeOK
<1> SUFFICES ASSUME TypeInv PROVE TypeOK
  OBVIOUS
<1>1. Alive \in SUBSET Threads /\ Running \in SUBSET Threads
  BY DEF Alive, Running
<1>2. Cardinality(Alive) \in 0..Cardinality(Threads)
  BY <1>1, SubsetCount
<1>3. Cardinality(Running) \in 0..Cardinality(Threads)
  BY <1>1, SubsetCount
<1> QED
  BY <1>2, <1>3 DEF TypeInv, TypeButCounters, TypeOK, Accounting, PCs

LEMMA TypeInit == Init => TypeInv
<1> SUFFICES ASSUME Init PROVE TypeInv
  OBVIOUS
<1> USE SchedulerAssumption DEF Init
<1>1. TypeButCounters
  BY DEF TypeButCounters, Procs, PCs, WorkerPC, ClientPC, DestructorPC
<1>2. HasWork
  BY DEF HasWork, Procs
<1>3. Alive = Threads /\ Running = {}
  BY DEF Alive, Running, Procs
<1>4. Accounting
  BY <1>3, FS_EmptySet DEF Accounting
<1> QED
  BY <1>1, <1>2, <1>4 DEF TypeInv

\* Threads that neither leave nor begin or end a work leave the counters right.
LEMMA SameCounters ==
  ASSUME Accounting, UNCHANGED counters,
         \A t \in Threads : /\ pc'[t] = "exited" <=> pc[t] = "exited"
                            /\ pc'[t] = "running" <=> pc[t] = "running"
  PROVE  Accounting'
<1>1. Alive' = Alive /\ Running' = Running
  BY DEF Alive, Running
<1> QED
  BY <1>1 DEF Accounting, counters

\* An action that moves one thread, and no work into or out of it.
LEMMA TypeGoto ==
  ASSUME TypeInv, NEW p \in Procs, NEW to \in PCs, Goto(p, to),
         p \in Threads => pc[p] \notin {"exited", "running"},
         p \in Threads => to \notin ClientPC \cup {"exited", "running"},
         p \in Threads /\ to \in {"taken", "running", "spent"} => work'[p] \in Works,
         p = Client => to \notin WorkerPC,
         UNCHANGED counters,
         work' \in [Threads -> Works \cup {NoWork}],
         \A t \in Threads \ {p} : work'[t] = work[t]
  PROVE  /\ pc' \in [Procs -> PCs]
         /\ \A t \in Threads : pc'[t] \notin ClientPC
         /\ pc'[Client] \notin WorkerPC
         /\ HasWork'
         /\ Accounting'
<1> USE SchedulerAssumption DEF TypeInv, TypeButCounters, Goto
<1>1. /\ pc' \in [Procs -> PCs]
      /\ \A t \in Threads : pc'[t] \notin ClientPC
      /\ pc'[Client] \notin WorkerPC
  BY DEF Procs
<1>2. HasWork'
  BY DEF HasWork, Procs
<1>3. \A t \in Threads : /\ pc'[t] = "exited" <=> pc[t] = "exited"
                         /\ pc'[t] = "running" <=> pc[t] = "running"
  BY DEF Procs
<1>4. Accounting'
  BY <1>3, SameCounters
<1> QED
  BY <1>1, <1>2, <1>4

\* An action that only notifies.
LEMMA TypeWoken ==
  ASSUME TypeInv, Woken(pc, pc'), UNCHANGED <<counters, work>>
  PROVE  /\ pc' \in [Procs -> PCs]
         /\ \A t \in Threads : pc'[t] \notin ClientPC
         /\ pc'[Client] \notin WorkerPC
         /\ HasWork'
         /\ Accounting'
<1> USE SchedulerAssumption DEF TypeInv, TypeButCounters, Woken
<1>1. /\ pc' \in [Procs -> PCs]
      /\ \A t \in Threads : pc'[t] \notin ClientPC
      /\ pc'[Client] \notin WorkerPC
  BY DEF Procs, ClientPC, WorkerPC
<1>2. HasWork'
  BY DEF HasWork, Procs
<1>3. \A t \in Threads : /\ pc'[t] = "exited" <=> pc[t] = "exited"
                         /\ pc'[t] = "running" <=> pc[t] = "running"
  BY DEF Procs
<1>4. Accounting'
  BY <1>3, SameCounters
<1> QED
  BY <1>1, <1>2, <1>4

LEMMA TypeSchedule ==
  ASSUME TypeInv, NEW w \in Works, NEW delay \in Delays, schedule(w, delay)
  PROVE  TypeInv'
<1> USE SchedulerAssumption DEF TypeInv, schedule
<1>1. CASE active
  <2>1. pc' \in NotifyOne(pc)
    BY <1>1
  <2>2. Woken(pc, pc')
    BY <2>1, NotifyOneWakes DEF TypeButCounters
  <2>3. /\ pc' \in [Procs -> PCs]
        /\ \A t \in Threads : pc'[t] \notin ClientPC
        /\ pc'[Client] \notin WorkerPC
        /\ HasWork'
        /\ Accounting'
    BY <2>2, TypeWoken
  <2>4. time_point' \in [Works -> Int] /\ scheduled_queue' \in SUBSET Works
    BY <1>1 DEF TypeButCounters
  <2>5. queue' \in Seq(Works)
    <3>1. queue \in Seq(Works)
      BY DEF TypeButCounters
    <3>2. queue' = queue \/ queue' = Append(queue, w)
      BY <1>1
    <3> QED
      BY <3>1, <3>2, AppendProperties
  <2> QED
    BY <2>3, <2>4, <2>5 DEF TypeButCounters
<1>2. CASE ~active
  BY <1>2 DEF TypeButCounters, HasWork, Accounting, queues, counters, Alive, Running
<1> QED
  BY <1>1, <1>2

LEMMA TypeWorker ==
  ASSUME TypeInv, NEW t \in Threads, Worker(t)
  PROVE  TypeInv'
<1> USE SchedulerAssumption
<1> t \in Procs /\ t # Client
  BY DEF Procs
<1>1. CASE Wait(t) \/ Spin(t) \/ Timeout(t)
  <2>1. \E to \in {"wait", "spin", "woken"} : Goto(t, to)
    BY <1>1 DEF Wait, Spin, Timeout
  <2>2. pc[t] \notin {"exited", "running"}
    BY <1>1 DEF Wait, Spin, Timeout, InNext
  <2>3. UNCHANGED <<active, counters, queues, clock, work, seen, history>>
    BY <1>1 DEF Wait, Spin, Timeout
  <2>4. work' \in [Threads -> Works \cup {NoWork}]
    BY <2>3 DEF TypeInv, TypeButCounters
  <2>5. /\ pc' \in [Procs -> PCs]
        /\ \A u \in Threads : pc'[u] \notin ClientPC
        /\ pc'[Client] \notin WorkerPC
        /\ HasWork'
        /\ Accounting'
    BY <2>1, <2>2, <2>3, <2>4, TypeGoto DEF PCs, WorkerPC, ClientPC
  <2>6. deadline' \in [Threads -> Int]
    BY <1>1 DEF Wait, Spin, Timeout, TypeInv, TypeButCounters
  <2> QED
    BY <2>3, <2>5, <2>6 DEF TypeInv, TypeButCounters, queues, history
<1>2. CASE WaitUntil(t)
  <2>1. /\ pc' \in [Procs -> PCs]
        /\ \A u \in Threads : pc'[u] \notin ClientPC
        /\ pc'[Client] \notin WorkerPC
        /\ HasWork'
        /\ Accounting'
    <3>1. work' \in [Threads -> Works \cup {NoWork}]
      BY <1>2 DEF TypeInv, TypeButCounters, WaitUntil
    <3> QED
      BY <1>2, <3>1, TypeGoto DEF PCs, WorkerPC, ClientPC, WaitUntil, InNext
  <2>2. deadline' \in [Threads -> Int]
    BY <1>2 DEF TypeInv, TypeButCounters, WaitUntil, Tops
  <2> QED
    BY <1>2, <2>1, <2>2 DEF TypeInv, TypeButCounters, WaitUntil, queues, history
<1>3. CASE TakeDue(t)
  <2>1. PICK w \in DueTops : /\ work' = [work EXCEPT ![t] = w]
                             /\ scheduled_queue' = scheduled_queue \ {w}
    BY <1>3 DEF TakeDue
  <2>2. w \in Works
    BY DEF DueTops, Tops, TypeInv, TypeButCounters
  <2>3. work' \in [Threads -> Works \cup {NoWork}] /\ work'[t] \in Works
    BY <2>1, <2>2 DEF TypeInv, TypeButCounters
  <2>4. \A u \in Threads \ {t} : work'[u] = work[u]
    BY <2>1 DEF TypeInv, TypeButCounters
  <2>5. /\ pc' \in [Procs -> PCs]
        /\ \A u \in Threads : pc'[u] \notin ClientPC
        /\ pc'[Client] \notin WorkerPC
        /\ HasWork'
        /\ Accounting'
    BY <1>3, <2>3, <2>4, TypeGoto DEF PCs, WorkerPC, ClientPC, TakeDue, InNext
  <2> QED
    BY <1>3, <2>1, <2>3, <2>5 DEF TypeInv, TypeButCounters, TakeDue, history
<1>4. CASE TakeFront(t)
  <2>1. queue \in Seq(Works) /\ queue # <<>>
    BY <1>4 DEF TakeFront, TypeInv, TypeButCounters
  <2>2. Head(queue) \in Works /\ Tail(queue) \in Seq(Works)
    BY <2>1
  <2>3. work' \in [Threads -> Works \cup {NoWork}] /\ work'[t] \in Works
    BY <1>4, <2>2 DEF TakeFront, TypeInv, TypeButCounters
  <2>4. \A u \in Threads \ {t} : work'[u] = work[u]
    BY <1>4 DEF TakeFront, TypeInv, TypeButCounters
  <2>5. /\ pc' \in [Procs -> PCs]
        /\ \A u \in Threads : pc'[u] \notin ClientPC
        /\ pc'[Client] \notin WorkerPC
        /\ HasWork'
        /\ Accounting'
    BY <1>4, <2>3, <2>4, TypeGoto DEF PCs, WorkerPC, ClientPC, TakeFront, InNext
  <2> QED
    BY <1>4, <2>2, <2>3, <2>5 DEF TypeInv, TypeButCounters, TakeFront, history
<1>5. CASE Exit(t)
  <2> DEFINE at == [pc EXCEPT ![t] = "exited"]
  <2>1. at \in [Procs -> PCs] /\ pc' \in NotifyOne(at)
    BY <1>5 DEF Exit, TypeInv, TypeButCounters, PCs, WorkerPC
  <2>2. Woken(at, pc')
    BY <2>1, NotifyOneWakes
  <2>3. /\ pc' \in [Procs -> PCs]
        /\ \A u \in Threads : pc'[u] \notin ClientPC
        /\ pc'[Client] \notin WorkerPC
    BY <2>1, <2>2 DEF Woken, TypeInv, TypeButCounters, Procs, WorkerPC, ClientPC
  <2>4. HasWork'
    BY <1>5, <2>2 DEF Exit, Woken, TypeInv, TypeButCounters, HasWork, Procs
  <2>5. Alive' = Alive \ {t} /\ t \in Alive /\ Running' = Running
    BY <1>5, <2>2 DEF Exit, InNext, Woken, TypeInv, TypeButCounters, Alive, Running, Procs
  <2>6. Cardinality(Alive') = Cardinality(Alive) - 1
    <3>1. IsFiniteSet(Alive)
      BY SubsetCount DEF Alive
    <3> QED
      BY <2>5, <3>1, FS_RemoveElement
  <2>7. Accounting'
    BY <1>5, <2>5, <2>6 DEF Exit, Accounting, TypeInv
  <2> QED
    BY <1>5, <2>3, <2>4, <2>7 DEF Exit, TypeInv, TypeButCounters, queues, history
<1>6. CASE Begin(t)
  <2>1. /\ pc' \in [Procs -> PCs]
        /\ \A u \in Threads : pc'[u] \notin ClientPC
        /\ pc'[Client] \notin WorkerPC
        /\ HasWork'
    BY <1>6 DEF Begin, Goto, TypeInv, TypeButCounters, HasWork, Procs, PCs, WorkerPC, ClientPC
  <2>2. Alive' = Alive /\ Running' = Running \cup {t} /\ t \notin Running
    BY <1>6 DEF Begin, Goto, TypeInv, TypeButCounters, Alive, Running, Procs
  <2>3. Cardinality(Running') = Cardinality(Running) + 1
    <3>1. IsFiniteSet(Running)
      BY SubsetCount DEF Running
    <3> QED
      BY <2>2, <3>1, FS_AddElement
  <2>4. Accounting'
    BY <1>6, <2>2, <2>3 DEF Begin, Accounting, TypeInv
  <2> QED
    BY <1>6, <2>1, <2>4 DEF Begin, TypeInv, TypeButCounters, queues, history
<1>7. CASE Finish(t)
  <2>1. /\ pc' \in [Procs -> PCs]
        /\ \A u \in Threads : pc'[u] \notin ClientPC
        /\ pc'[Client] \notin WorkerPC
        /\ HasWork'
    BY <1>7 DEF Finish, Goto, TypeInv, TypeButCounters, HasWork, Procs, PCs, WorkerPC, ClientPC
  <2>2. Alive' = Alive /\ Running' = Running \ {t} /\ t \in Running
    BY <1>7 DEF Finish, Goto, TypeInv, TypeButCounters, Alive, Running, Procs
  <2>3. Cardinality(Running') = Cardinality(Running) - 1
    <3>1. IsFiniteSet(Running)
      BY SubsetCount DEF Running
    <3> QED
      BY <2>2, <3>1, FS_RemoveElement
  <2>4. Accounting'
    BY <1>7, <2>2, <2>3 DEF Finish, Accounting, TypeInv
  <2>5. finished' \in SUBSET Works
    BY <1>7 DEF Finish, TypeInv, TypeButCounters, HasWork
  <2> QED
    BY <1>7, <2>1, <2>4, <2>5 DEF Finish, TypeInv, TypeButCounters, queues
<1>8. CASE Release(t)
  <2>1. \E to \in {"stop", "next"} : Goto(t, to)
    BY <1>8 DEF Release
  <2>2. work' \in [Threads -> Works \cup {NoWork}] /\ \A u \in Threads \ {t} : work'[u] = work[u]
    BY <1>8 DEF Release, TypeInv, TypeButCounters
  <2>3. /\ pc' \in [Procs -> PCs]
        /\ \A u \in Threads : pc'[u] \notin ClientPC
        /\ pc'[Client] \notin WorkerPC
        /\ HasWork'
        /\ Accounting'
    BY <1>8, <2>1, <2>2, TypeGoto DEF PCs, WorkerPC, ClientPC, DestructorPC, Release
  <2> QED
    BY <1>8, <2>2, <2>3 DEF Release, TypeInv, TypeButCounters, queues, history
<1> QED
  BY <1>1, <1>2, <1>3, <1>4, <1>5, <1>6, <1>7, <1>8 DEF Worker

LEMMA TypeDestructor ==
  ASSUME TypeInv, NEW p \in Procs, Destructor(p) \/ SpuriousWakeup(p)
  PROVE  TypeInv'
<1> USE SchedulerAssumption
<1>1. CASE stop(p)
  <2> DEFINE to == IF threads_count = 0 THEN "join" ELSE "stop_wait"
  <2>1. /\ pc' = [NotifyAll(pc) EXCEPT ![p] = to] /\ to \in DestructorPC
        /\ pc[p] = "stop"
    BY <1>1 DEF stop, DestructorPC
  <2>2. Woken(pc, NotifyAll(pc))
    BY AwakeWakes DEF NotifyAll, TypeInv, TypeButCounters
  <2>3. /\ pc' \in [Procs -> PCs]
        /\ \A t \in Threads : pc'[t] \notin ClientPC
        /\ pc'[Client] \notin WorkerPC
    BY <2>1, <2>2 DEF Woken, TypeInv, TypeButCounters, Procs, PCs, WorkerPC, ClientPC, DestructorPC
  <2>4. UNCHANGED <<counters, queues, clock, work, deadline, seen, history>>
    BY <1>1 DEF stop
  <2>5. \A t \in Threads : /\ pc'[t] = "exited" <=> pc[t] = "exited"
                           /\ pc'[t] = "running" <=> pc[t] = "running"
    BY <2>1, <2>2 DEF Woken, TypeInv, TypeButCounters, Procs, DestructorPC
  <2>6. Accounting'
    BY <2>4, <2>5, SameCounters DEF TypeInv
  <2>7. HasWork'
    BY <2>1, <2>2, <2>4 DEF Woken, TypeInv, TypeButCounters, HasWork, Procs, DestructorPC
  <2> QED
    BY <1>1, <2>3, <2>4, <2>6, <2>7 DEF TypeInv, TypeButCounters, queues, history, stop
<1>2. CASE StopResume(p) \/ Join(p)
  <2>1. \E to \in {"join", "stop_wait", "gone"} : Goto(p, to) /\ (p \in Threads => to # "gone")
    <3>1. CASE StopResume(p)
      BY <3>1 DEF StopResume
    <3>2. CASE Join(p)
      BY <3>2 DEF Join
    <3> QED
      BY <1>2, <3>1, <3>2
  <2>2. pc[p] \notin {"exited", "running"}
    BY <1>2 DEF StopResume, Join
  <2>3. UNCHANGED <<active, counters, queues, clock, work, deadline, seen, history>>
    BY <1>2 DEF StopResume, Join
  <2>4. work' \in [Threads -> Works \cup {NoWork}]
    BY <2>3 DEF TypeInv, TypeButCounters
  <2>5. /\ pc' \in [Procs -> PCs]
        /\ \A u \in Threads : pc'[u] \notin ClientPC
        /\ pc'[Client] \notin WorkerPC
        /\ HasWork'
        /\ Accounting'
    BY <2>1, <2>2, <2>3, <2>4, TypeGoto DEF PCs, WorkerPC, ClientPC, DestructorPC
  <2> QED
    BY <2>3, <2>5 DEF TypeInv, TypeButCounters, queues, history
<1>3. CASE SpuriousWakeup(p)
  <2>1. Woken(pc, pc')
    BY <1>3, AwakeWakes DEF SpuriousWakeup, TypeInv, TypeButCounters
  <2>2. UNCHANGED <<active, counters, queues, clock, work, deadline, seen, history>>
    BY <1>3 DEF SpuriousWakeup
  <2> QED
    BY <2>1, <2>2, TypeWoken DEF TypeInv, TypeButCounters, queues, history
<1> QED
  BY <1>1, <1>2, <1>3 DEF Destructor

LEMMA UseCountInt == TypeInv => use_count \in Nat /\ impl_count \in Nat
<1> SUFFICES ASSUME TypeInv PROVE use_count \in Nat /\ impl_count \in Nat
  OBVIOUS
<1>1. IsFiniteSet(KeepersAlive) /\ IsFiniteSet(scheduled_queue)
  <2>1. KeepersAlive \subseteq Works /\ scheduled_queue \subseteq Works
    BY SchedulerAssumption DEF KeepersAlive, TypeInv, TypeButCounters
  <2> QED
    BY <2>1, SchedulerAssumption, FS_Subset
<1>2. Cardinality(KeepersAlive) \in Nat /\ Cardinality(scheduled_queue) \in Nat
  BY <1>1, FS_CardinalityType
<1>3. Len(queue) \in Nat
  BY DEF TypeInv, TypeButCounters
<1>4. active_threads_count \in Nat
  <2>1. Running \in SUBSET Threads
    BY DEF Running
  <2> QED
    BY <2>1, SubsetCount DEF TypeInv, Accounting
<1> QED
  BY <1>2, <1>3, <1>4 DEF use_count, impl_count

LEMMA TypeClient ==
  ASSUME TypeInv, Counting \/ Drop
  PROVE  TypeInv'
<1> USE SchedulerAssumption
<1>1. \E to \in {"uses_read", "queues_read", "counted", "holding", "stop", "gone"} : Goto(Client, to)
  <2>1. CASE ReadUseCount
    BY <2>1 DEF ReadUseCount
  <2>2. CASE ReadImplCount
    BY <2>2 DEF ReadImplCount
  <2>3. CASE Continue
    BY <2>3 DEF Continue
  <2>4. CASE Drop
    BY <2>4 DEF Drop
  <2> QED
    BY <2>1, <2>2, <2>3, <2>4 DEF Counting
<1>2. seen' \in Int
  BY UseCountInt DEF Counting, ReadUseCount, ReadImplCount, Continue, Drop, Leave, TypeInv,
     TypeButCounters
<1>3. UNCHANGED <<active, counters, queues, clock, work, deadline, history>>
  BY DEF Counting, ReadUseCount, ReadImplCount, Continue, Drop
<1>4. work' \in [Threads -> Works \cup {NoWork}]
  BY <1>3 DEF TypeInv, TypeButCounters
<1>5. /\ pc' \in [Procs -> PCs]
      /\ \A u \in Threads : pc'[u] \notin ClientPC
      /\ pc'[Client] \notin WorkerPC
      /\ HasWork'
      /\ Accounting'
  BY <1>1, <1>3, <1>4, TypeGoto DEF PCs, WorkerPC, ClientPC, DestructorPC, Procs
<1> QED
  BY <1>2, <1>3, <1>5 DEF TypeInv, TypeButCounters, queues, history

LEMMA TypeStep == TypeInv /\ [Next]_vars => TypeInv'
<1> SUFFICES ASSUME TypeInv, [Next]_vars PROVE TypeInv'
  OBVIOUS
<1>1. ASSUME NEW w \in Works, NEW delay \in Delays, schedule(w, delay) PROVE TypeInv'
  BY <1>1, TypeSchedule
<1>2. ASSUME NEW t \in Threads, Worker(t) PROVE TypeInv'
  BY <1>2, TypeWorker
<1>3. ASSUME NEW p \in Procs, SpuriousWakeup(p) \/ Destructor(p) PROVE TypeInv'
  BY <1>3, TypeDestructor
<1>4. CASE Counting \/ Drop
  BY <1>4, TypeClient
<1>5. CASE Tick
  BY <1>5, SchedulerAssumption DEF Tick, TypeInv, TypeButCounters, HasWork, Accounting,
     Alive, Running, counters, queues, history
<1>6. CASE UNCHANGED vars
  BY <1>6 DEF vars, TypeInv, TypeButCounters, HasWork, Accounting,
     Alive, Running, counters, queues, history
<1> QED
  BY <1>1, <1>2, <1>3, <1>4, <1>5, <1>6 DEF Next

\* The scheduler is type-correct: its two thread counters stay between zero and
\* the number of threads, and next() hands every thread a work it was given.
THEOREM Typing == Spec => []TypeOK
<1>1. Spec => []TypeInv
  BY TypeInit, TypeStep, PTL DEF Spec
<1> QED
  BY <1>1, TypeInvTypeOK, PTL

-----------------------------------------------------------------------------
(***************************************************************************)
(* No lost wakeup.  It is inductive together with the fact that nobody has *)
(* left the loops of an active scheduler: so a waiter is a worker, and a   *)
(* notification reaches one.                                               *)
(***************************************************************************)
Up == active =>
        \A p \in Procs : pc[p] \notin {"exited", "spin", "stop_wait", "stop_woken", "join"}

WakeupInv == TypeInv /\ Up /\ NoLostWakeup

\* An action that changes neither the queues nor the threads that sleep, save
\* that some wake up.
LEMMA WakeupKept ==
  ASSUME WakeupInv, UNCHANGED <<active, queues, deadline>>,
         \A t \in Threads : pc'[t] \in {"wait", "timed", "exited"} => pc'[t] = pc[t]
  PROVE  NoLostWakeup'
<1> SUFFICES ASSUME active', Pending' # {}
             PROVE  \E t \in Threads : Busy(t)' \/ (queue' = <<>> /\ Armed(t)')
  BY DEF NoLostWakeup
<1>1. PICK t \in Threads : Busy(t) \/ (queue = <<>> /\ Armed(t))
  BY DEF WakeupInv, NoLostWakeup, Pending, queues
<1> QED
  BY <1>1 DEF Busy, Armed, queues

\* An action after which thread t is up.
LEMMA WakeupBusy ==
  ASSUME NEW t \in Threads, pc'[t] \notin {"wait", "timed", "exited"}
  PROVE  NoLostWakeup'
  BY DEF NoLostWakeup, Busy

LEMMA WakeupSchedule ==
  ASSUME WakeupInv, NEW w \in Works, NEW delay \in Delays, schedule(w, delay)
  PROVE  Up' /\ NoLostWakeup'
<1> USE SchedulerAssumption DEF WakeupInv
<1>1. CASE ~active
  BY <1>1 DEF schedule, Up, NoLostWakeup
<1>2. CASE active
  <2>1. pc \in [Procs -> PCs] /\ pc' \in NotifyOne(pc)
    BY <1>2 DEF schedule, TypeInv, TypeButCounters
  <2>2. /\ Woken(pc, pc')
        /\ Waiters(pc) # {} =>
             \E p \in Waiters(pc) : pc'[p] \in {"woken", "stop_woken"}
    BY <2>1, NotifyOneWakes
  <2>3. active' /\ \A p \in Procs : pc[p] \notin {"exited", "spin", "stop_wait", "stop_woken", "join"}
    BY <1>2 DEF schedule, Up
  <2>4. Up'
    BY <2>2, <2>3 DEF Up, Woken
  <2>5. CASE Waiters(pc) # {}
    <3>1. PICK p \in Waiters(pc) : pc'[p] \in {"woken", "stop_woken"}
      BY <2>2, <2>5
    <3>2. p \in Threads
      BY <2>3 DEF Waiters, Procs, TypeInv, TypeButCounters, WorkerPC
    <3> QED
      BY <2>4, <3>1, <3>2, WakeupBusy
  <2>6. CASE Waiters(pc) = {}
    <3>1. PICK t \in Threads : TRUE
      OBVIOUS
    <3>2. pc'[t] \notin {"wait", "timed", "exited"}
      BY <2>2, <2>3, <2>6, <3>1 DEF Waiters, Procs, Woken
    <3> QED
      BY <2>4, <3>2, WakeupBusy
  <2> QED
    BY <2>5, <2>6
<1> QED
  BY <1>1, <1>2

LEMMA WakeupWorker ==
  ASSUME WakeupInv, NEW t \in Threads, Worker(t)
  PROVE  Up' /\ NoLostWakeup'
<1> USE SchedulerAssumption DEF WakeupInv
<1> t \in Procs
  BY DEF Procs
<1> pc \in [Procs -> PCs]
  BY DEF TypeInv, TypeButCounters
<1>1. CASE Wait(t)
  <2>1. Up'
    BY <1>1 DEF Wait, Goto, Up
  <2>2. Pending' = {}
    BY <1>1 DEF Wait, Pending, Range, queues
  <2> QED
    BY <2>1, <2>2 DEF NoLostWakeup
<1>2. CASE WaitUntil(t)
  <2>1. Up'
    BY <1>2 DEF WaitUntil, Goto, Up
  <2>2. PICK w \in Tops : deadline' = [deadline EXCEPT ![t] = time_point[w]]
    BY <1>2 DEF WaitUntil
  <2>3. Armed(t)' /\ queue' = <<>>
    BY <1>2, <2>2 DEF WaitUntil, Goto, Armed, Tops, queues, TypeInv, TypeButCounters
  <2> QED
    BY <2>1, <2>3 DEF NoLostWakeup
<1>3. CASE Exit(t) \/ Spin(t)
  BY <1>3 DEF Exit, Spin, Up, NoLostWakeup
<1>4. CASE TakeDue(t) \/ TakeFront(t) \/ Timeout(t) \/ Begin(t) \/ Finish(t) \/ Release(t)
  <2>1. \E to \in {"taken", "woken", "running", "spent", "stop", "next"} : Goto(t, to)
    BY <1>4 DEF TakeDue, TakeFront, Timeout, Begin, Finish, Release
  <2>2. UNCHANGED active
    BY <1>4 DEF TakeDue, TakeFront, Timeout, Begin, Finish, Release
  <2>3. Up'
    BY <2>1, <2>2 DEF Goto, Up
  <2>4. pc'[t] \notin {"wait", "timed", "exited"}
    BY <2>1 DEF Goto
  <2> QED
    BY <2>3, <2>4, WakeupBusy
<1> QED
  BY <1>1, <1>2, <1>3, <1>4 DEF Worker

LEMMA WakeupOthers ==
  ASSUME WakeupInv,
         \/ \E p \in Procs : SpuriousWakeup(p) \/ Destructor(p)
         \/ Counting \/ Drop \/ Tick \/ UNCHANGED vars
  PROVE  Up' /\ NoLostWakeup'
<1> USE SchedulerAssumption DEF WakeupInv
<1> pc \in [Procs -> PCs]
  BY DEF TypeInv, TypeButCounters
<1>1. ASSUME NEW p \in Procs, SpuriousWakeup(p) PROVE Up' /\ NoLostWakeup'
  <2>1. Woken(pc, pc')
    BY <1>1, AwakeWakes DEF SpuriousWakeup
  <2>2. UNCHANGED <<active, queues, deadline>>
    BY <1>1 DEF SpuriousWakeup
  <2>3. Up'
    BY <2>1, <2>2 DEF Woken, Up
  <2>4. \A t \in Threads : pc'[t] \in {"wait", "timed", "exited"} => pc'[t] = pc[t]
    BY <2>1 DEF Woken, Procs
  <2> QED
    BY <2>2, <2>3, <2>4, WakeupKept
<1>2. ASSUME NEW p \in Procs, Destructor(p) PROVE Up' /\ NoLostWakeup'
  BY <1>2 DEF Destructor, stop, StopResume, Join, Up, NoLostWakeup
<1>3. CASE Counting \/ Drop
  <2>1. \E to \in {"uses_read", "queues_read", "counted", "holding", "stop", "gone"} : Goto(Client, to)
    BY <1>3, SMTT(30) DEF Counting, ReadUseCount, ReadImplCount, Continue, Drop
  <2>2. UNCHANGED <<active, queues, deadline>>
    BY <1>3 DEF Counting, ReadUseCount, ReadImplCount, Continue, Drop
  <2>3. Up'
    BY <2>1, <2>2 DEF Goto, Up
  <2>4. \A t \in Threads : pc'[t] = pc[t]
    BY <2>1 DEF Goto, Procs
  <2> QED
    BY <2>2, <2>3, <2>4, WakeupKept
<1>4. CASE Tick \/ UNCHANGED vars
  <2>1. UNCHANGED <<active, queues, deadline, pc>>
    BY <1>4 DEF Tick, vars
  <2> QED
    BY <2>1, WakeupKept DEF Up
<1> QED
  BY <1>1, <1>2, <1>3, <1>4

LEMMA WakeupStep == WakeupInv /\ [Next]_vars => WakeupInv'
<1> SUFFICES ASSUME WakeupInv, [Next]_vars PROVE WakeupInv'
  OBVIOUS
<1>1. TypeInv'
  BY TypeStep DEF WakeupInv
<1>2. Up' /\ NoLostWakeup'
  BY WakeupSchedule, WakeupWorker, WakeupOthers DEF Next
<1> QED
  BY <1>1, <1>2 DEF WakeupInv

\* No lost wakeup, for any number of threads and works and whatever the delays:
\* while the scheduler is active and holds a work, some worker is up, or all its
\* works are delayed and a worker sleeps no longer than the first of them.
THEOREM WakeupsNotLost == Spec => []NoLostWakeup
<1>1. Init => WakeupInv
  <2>1. Init => Up /\ NoLostWakeup
    BY SchedulerAssumption DEF Init, Up, NoLostWakeup, Pending, Range, Procs
  <2> QED
    BY <2>1, TypeInit DEF WakeupInv
<1>2. WakeupInv /\ [Next]_vars => WakeupInv'
  BY WakeupStep
<1>3. WakeupInv => NoLostWakeup
  BY DEF WakeupInv
<1> QED
  BY <1>1, <1>2, <1>3, PTL DEF Spec

-----------------------------------------------------------------------------
(***************************************************************************)
(* Work conservation.  Before the first delayed work a notification only   *)
(* reaches workers that sleep without a deadline, and each of them that    *)
(* comes to the queue takes one work: so works and the workers that are on *)
(* their way to them increase and decrease together while anybody sleeps.  *)
(***************************************************************************)
Coming == {t \in Threads : pc[t] \in {"next", "woken"}}

SomeoneWaits == \E t \in Threads : pc[t] = "wait"

\* No worker sleeps until a deadline before the first delayed work.
OnlyImmediate ==
  NoneDelayed => scheduled_queue = {} /\ \A t \in Threads : pc[t] # "timed"

ConservingInv == WakeupInv /\ OnlyImmediate /\ WorkConserving

LEMMA ComingFinite ==
  ASSUME NEW S \in SUBSET Threads, NEW t \in Threads
  PROVE  /\ Cardinality(S) \in Nat
         /\ t \notin S => Cardinality(S \cup {t}) = Cardinality(S) + 1
         /\ t \in S => Cardinality(S \ {t}) = Cardinality(S) - 1
<1>1. IsFiniteSet(S) /\ Cardinality(S) \in Nat
  BY SubsetCount
<1> QED
  BY <1>1, FS_AddElement, FS_RemoveElement

\* A step that brings no work, and takes no worker away that is on its way.
LEMMA ConservingKept ==
  ASSUME ConservingInv, UNCHANGED <<queue, scheduled_queue, time_point>>, active' => active,
         Coming \subseteq Coming',
         \A t \in Threads : pc'[t] \in {"wait", "timed"} => pc'[t] = pc[t]
  PROVE  OnlyImmediate' /\ WorkConserving'
<1>1. Coming \in SUBSET Threads /\ Coming' \in SUBSET Threads
  BY DEF Coming
<1>2. Cardinality(Coming) <= Cardinality(Coming')
        /\ Cardinality(Coming) \in Nat /\ Cardinality(Coming') \in Nat
  BY <1>1, SubsetCount, FS_Subset
<1>3. OnlyImmediate'
  BY DEF ConservingInv, OnlyImmediate, NoneDelayed
<1>4. SomeoneWaits' => SomeoneWaits
  BY DEF SomeoneWaits
<1>5. active' /\ NoneDelayed' /\ SomeoneWaits' => Len(queue) <= Cardinality(Coming)
  BY <1>4 DEF ConservingInv, WorkConserving, NoneDelayed, Coming, SomeoneWaits
<1>6. Len(queue) \in Nat
  BY LenProperties DEF ConservingInv, WakeupInv, TypeInv, TypeButCounters
<1>7. active' /\ NoneDelayed' /\ SomeoneWaits' => Len(queue') <= Cardinality(Coming')
  BY <1>2, <1>5, <1>6
<1> QED
  BY <1>3, <1>7 DEF WorkConserving, Coming, SomeoneWaits

\* schedule() wakes a worker for the work it adds, if one sleeps.
LEMMA ConservingSchedule ==
  ASSUME Delays \subseteq Nat, ConservingInv,
         NEW w \in Works, NEW delay \in Delays, schedule(w, delay)
  PROVE  OnlyImmediate' /\ WorkConserving'
<1> USE DEF ConservingInv, WakeupInv
<1>1. CASE ~active
  BY <1>1, ConservingKept DEF schedule, queues, Coming
<1>2. CASE active /\ delay # 0
  <2>1. time_point'[w] > 0
    BY <1>2 DEF schedule, TypeInv, TypeButCounters
  <2> QED
    BY <2>1 DEF OnlyImmediate, WorkConserving, NoneDelayed
<1>3. CASE active /\ delay = 0
  <2>1. /\ UNCHANGED <<active, scheduled_queue, time_point>>
        /\ queue' = Append(queue, w)
        /\ pc \in [Procs -> PCs] /\ pc' \in NotifyOne(pc)
    BY <1>3 DEF schedule, TypeInv, TypeButCounters
  <2>2. /\ Woken(pc, pc')
        /\ Waiters(pc) # {} =>
             \E p \in Waiters(pc) : pc'[p] \in {"woken", "stop_woken"}
    BY <2>1, NotifyOneWakes
  <2>3. \A t \in Threads : \/ pc'[t] = pc[t]
                           \/ pc[t] \in {"wait", "timed"} /\ pc'[t] = "woken"
                           \/ pc[t] = "stop_wait"
    BY <2>2 DEF Woken, Procs
  <2>4. OnlyImmediate'
    BY <2>1, <2>2, <2>3 DEF OnlyImmediate, NoneDelayed, Woken, Procs
  <2>5. Coming \subseteq Coming'
    BY <2>3 DEF Coming
  <2>6. queue \in Seq(Works) /\ Len(queue') = Len(queue) + 1 /\ Len(queue) \in Nat
    BY <2>1, AppendProperties, LenProperties DEF TypeInv, TypeButCounters
  <2>7. ASSUME NoneDelayed', SomeoneWaits' PROVE Len(queue') <= Cardinality(Coming')
    <3>1. NoneDelayed /\ SomeoneWaits
      BY <2>1, <2>2, <2>7 DEF NoneDelayed, SomeoneWaits, Woken, Procs
    <3>2. Len(queue) <= Cardinality(Coming)
      BY <1>3, <3>1 DEF WorkConserving, SomeoneWaits, Coming
    <3>3. PICK p \in Waiters(pc) : pc'[p] \in {"woken", "stop_woken"}
      BY <2>2, <3>1 DEF SomeoneWaits, Waiters, Procs
    <3>4. p \in Threads /\ pc[p] = "wait" /\ pc'[p] = "woken"
      <4>1. p \in Procs /\ pc[p] \in {"wait", "timed"}
        BY <1>3, <3>3 DEF Waiters, Up
      <4>2. p \in Threads
        BY <4>1 DEF Procs, TypeInv, TypeButCounters, WorkerPC
      <4> QED
        BY <2>3, <3>1, <3>3, <4>1, <4>2 DEF OnlyImmediate
    <3>5. p \notin Coming /\ Coming \cup {p} \subseteq Coming'
      BY <2>5, <3>4 DEF Coming
    <3>6. /\ Coming \in SUBSET Threads /\ Coming' \in SUBSET Threads
          /\ Coming \cup {p} \in SUBSET Threads
      BY <3>4 DEF Coming
    <3>7. Cardinality(Coming \cup {p}) = Cardinality(Coming) + 1
      BY <3>4, <3>5, <3>6, ComingFinite
    <3>8. /\ Cardinality(Coming) \in Nat /\ Cardinality(Coming') \in Nat
          /\ Cardinality(Coming \cup {p}) <= Cardinality(Coming')
      BY <3>5, <3>6, SubsetCount, FS_Subset
    <3> QED
      BY <2>6, <3>2, <3>7, <3>8
  <2> QED
    BY <2>4, <2>7 DEF WorkConserving, Coming, SomeoneWaits
<1> QED
  BY <1>1, <1>2, <1>3

LEMMA ConservingWorker ==
  ASSUME ConservingInv, NEW t \in Threads, Worker(t)
  PROVE  OnlyImmediate' /\ WorkConserving'
<1> USE DEF ConservingInv, WakeupInv
<1> t \in Procs /\ pc \in [Procs -> PCs] /\ queue \in Seq(Works)
  BY DEF Procs, TypeInv, TypeButCounters
<1>0. Len(queue) \in Nat /\ Coming \in SUBSET Threads /\ Coming' \in SUBSET Threads
  BY LenProperties DEF Coming
<1>1. CASE Wait(t)
  <2>1. queue' = <<>> /\ Len(queue') = 0 /\ Cardinality(Coming') \in Nat
    BY <1>0, <1>1, SubsetCount DEF Wait, queues
  <2>2. OnlyImmediate'
    BY <1>1 DEF Wait, Goto, queues, OnlyImmediate, NoneDelayed
  <2> QED
    BY <2>1, <2>2 DEF WorkConserving, Coming
<1>2. CASE WaitUntil(t) \/ TakeDue(t)
  <2>1. ~NoneDelayed /\ UNCHANGED time_point
    BY <1>2 DEF WaitUntil, TakeDue, DueTops, Tops, queues, OnlyImmediate
  <2> QED
    BY <2>1 DEF OnlyImmediate, WorkConserving, NoneDelayed
<1>3. CASE TakeFront(t)
  <2>1. /\ queue # <<>> /\ queue' = Tail(queue) /\ t \in Coming /\ Coming' = Coming \ {t}
        /\ UNCHANGED <<active, scheduled_queue, time_point>>
    BY <1>3 DEF TakeFront, InNext, Goto, Coming
  <2>2. Len(queue') = Len(queue) - 1
    BY <2>1
  <2>3. Cardinality(Coming') = Cardinality(Coming) - 1 /\ Cardinality(Coming) \in Nat
    BY <1>0, <2>1, ComingFinite
  <2>4. \A u \in Threads : pc'[u] \in {"wait", "timed"} => pc'[u] = pc[u]
    BY <1>3 DEF TakeFront, Goto
  <2>5. OnlyImmediate'
    BY <2>1, <2>4 DEF OnlyImmediate, NoneDelayed
  <2>6. active' /\ NoneDelayed' /\ SomeoneWaits' => Len(queue) <= Cardinality(Coming)
    BY <2>1, <2>4 DEF WorkConserving, NoneDelayed, SomeoneWaits, Coming
  <2>7. active' /\ NoneDelayed' /\ SomeoneWaits' => Len(queue') <= Cardinality(Coming')
    BY <1>0, <2>2, <2>3, <2>6
  <2> QED
    BY <2>5, <2>7 DEF WorkConserving, SomeoneWaits, Coming
<1>4. CASE Spin(t) \/ Timeout(t) \/ Begin(t) \/ Finish(t) \/ Release(t)
  <2>1. /\ UNCHANGED <<active, queue, scheduled_queue, time_point>>
        /\ \E to \in {"spin", "woken", "running", "spent", "stop", "next"} : Goto(t, to)
        /\ active => pc[t] \notin {"next", "woken"}
    BY <1>4 DEF Spin, Timeout, Begin, Finish, Release, queues
  <2>2. CASE active
    <3>1. Coming \subseteq Coming'
      BY <2>1, <2>2 DEF Goto, Coming
    <3>2. \A u \in Threads : pc'[u] \in {"wait", "timed"} => pc'[u] = pc[u]
      BY <2>1 DEF Goto
    <3> QED
      BY <2>1, <3>1, <3>2, ConservingKept
  <2>3. CASE ~active
    BY <2>1, <2>3 DEF Goto, OnlyImmediate, WorkConserving, NoneDelayed
  <2> QED
    BY <2>2, <2>3
<1>5. CASE Exit(t)
  <2>1. ~active' /\ UNCHANGED <<scheduled_queue, time_point>>
    BY <1>5 DEF Exit, queues
  <2>2. \A u \in Threads : pc'[u] = "timed" => pc[u] = "timed"
    <3> DEFINE loc == [pc EXCEPT ![t] = "exited"]
    <3>1. loc \in [Procs -> PCs] /\ pc' \in NotifyOne(loc)
      BY <1>5 DEF Exit, PCs, WorkerPC
    <3>2. Woken(loc, pc')
      BY <3>1, NotifyOneWakes
    <3> QED
      BY <3>2 DEF Woken, Procs
  <2> QED
    BY <2>1, <2>2 DEF OnlyImmediate, WorkConserving, NoneDelayed
<1> QED
  BY <1>1, <1>2, <1>3, <1>4, <1>5 DEF Worker

LEMMA ConservingStep ==
  ASSUME Delays \subseteq Nat, ConservingInv, [Next]_vars
  PROVE  ConservingInv'
<1> USE DEF ConservingInv
<1> pc \in [Procs -> PCs]
  BY DEF WakeupInv, TypeInv, TypeButCounters
<1>1. WakeupInv'
  BY WakeupStep
<1>2. ASSUME NEW p \in Procs, SpuriousWakeup(p) PROVE OnlyImmediate' /\ WorkConserving'
  <2>1. Woken(pc, pc') /\ UNCHANGED <<active, queue, scheduled_queue, time_point>>
    BY <1>2, AwakeWakes DEF SpuriousWakeup, queues
  <2>2. Coming \subseteq Coming' /\ \A t \in Threads : pc'[t] \in {"wait", "timed"} => pc'[t] = pc[t]
    BY <2>1 DEF Woken, Procs, Coming
  <2> QED
    BY <2>1, <2>2, ConservingKept
<1>3. ASSUME NEW p \in Procs, Destructor(p) PROVE OnlyImmediate' /\ WorkConserving'
  <2>1. ~active' /\ UNCHANGED <<scheduled_queue, time_point>>
    BY <1>3 DEF Destructor, stop, StopResume, Join, queues, WakeupInv, Up
  <2>2. \A t \in Threads : pc'[t] = "timed" => pc[t] = "timed"
    <3>1. CASE stop(p)
      <4>1. Woken(pc, NotifyAll(pc))
        BY AwakeWakes DEF NotifyAll
      <4>2. PICK to \in {"join", "stop_wait"} : pc' = [NotifyAll(pc) EXCEPT ![p] = to]
        BY <3>1 DEF stop
      <4>3. \A t \in Threads : pc'[t] \in {NotifyAll(pc)[t], "join", "stop_wait"}
        BY <4>1, <4>2 DEF Woken, Procs
      <4> QED
        BY <4>1, <4>3 DEF Woken, Procs
    <3>2. CASE StopResume(p) \/ Join(p)
      <4>1. \E to \in {"join", "stop_wait", "gone"} : Goto(p, to)
        BY <3>2 DEF StopResume, Join
      <4> QED
        BY <4>1 DEF Goto, Procs
    <3> QED
      BY <1>3, <3>1, <3>2 DEF Destructor
  <2> QED
    BY <2>1, <2>2 DEF OnlyImmediate, WorkConserving, NoneDelayed
<1>4. ASSUME Counting \/ Drop \/ Tick \/ UNCHANGED vars PROVE OnlyImmediate' /\ WorkConserving'
  <2>1. UNCHANGED <<active, queue, scheduled_queue, time_point>>
    BY <1>4 DEF Counting, ReadUseCount, ReadImplCount, Continue, Drop, Tick, vars, queues
  <2>2. \A t \in Threads : pc'[t] = pc[t]
    <3>1. (\E to \in PCs : Goto(Client, to)) \/ UNCHANGED pc
      BY <1>4, SMTT(30)
         DEF Counting, ReadUseCount, ReadImplCount, Continue, Drop, Tick, vars, PCs, ClientPC,
             DestructorPC
    <3> QED
      BY <3>1, SchedulerAssumption DEF Goto, Procs
  <2>3. Coming \subseteq Coming'
    BY <2>2 DEF Coming
  <2> QED
    BY <2>1, <2>2, <2>3, ConservingKept
<1> QED
  BY <1>1, <1>2, <1>3, <1>4, ConservingSchedule, ConservingWorker DEF Next

\* As long as nothing was delayed, no worker sleeps beside a work unless as many as there
\* are works are on their way to them: notify_one() for each work is enough.
THEOREM WorksConserved ==
  ASSUME Delays \subseteq Nat
  PROVE  Spec => []WorkConserving
<1>1. Init => ConservingInv
  <2> SUFFICES ASSUME Init PROVE ConservingInv
    OBVIOUS
  <2>1. WakeupInv
    BY TypeInit, SchedulerAssumption
       DEF Init, WakeupInv, Up, NoLostWakeup, Pending, Range, Procs
  <2>2. \A t \in Threads : pc[t] = "next"
    BY SchedulerAssumption DEF Init, Procs
  <2> QED
    BY <2>1, <2>2 DEF Init, ConservingInv, OnlyImmediate, WorkConserving
<1>2. ConservingInv /\ [Next]_vars => ConservingInv'
  BY ConservingStep
<1>3. ConservingInv => WorkConserving
  BY DEF ConservingInv
<1> QED
  BY <1>1, <1>2, <1>3, PTL DEF Spec

-----------------------------------------------------------------------------
(***************************************************************************)
(* A work is in one place: nobody has scheduled it, or it is in one of the *)
(* queues, or one worker has it.                                           *)
(***************************************************************************)
Distinct(q) == \A i, j \in DOMAIN q : q[i] = q[j] => i = j

AtWork == {"taken", "running", "spent"}

OnePlace ==
  /\ Distinct(queue)
  /\ Range(queue) \cap scheduled_queue = {}
  /\ \A t \in Threads : work[t] \notin Pending
  /\ \A t, u \in Threads : work[t] = work[u] /\ work[t] # NoWork => t = u
  /\ unscheduled \cap (Pending \cup Held) = {}

\* A worker gives up its work before it goes back to next().
IdleHands == \A t \in Threads : pc[t] \notin AtWork => work[t] = NoWork

LEMMA AppendPlaces ==
  ASSUME NEW q \in Seq(Works), NEW w \in Works
  PROVE  /\ Range(Append(q, w)) = Range(q) \cup {w}
         /\ Distinct(q) /\ w \notin Range(q) => Distinct(Append(q, w))
<1> DEFINE r == Append(q, w)
<1>1. /\ DOMAIN q = 1 .. Len(q) /\ DOMAIN r = 1 .. Len(q) + 1 /\ Len(q) \in Nat
      /\ \A i \in 1 .. Len(q) : r[i] = q[i]
      /\ r[Len(q) + 1] = w
  OBVIOUS
<1> HIDE DEF r
<1>2. Range(r) = Range(q) \cup {w}
  BY <1>1 DEF Range
<1>3. ASSUME Distinct(q), w \notin Range(q) PROVE Distinct(r)
  BY <1>1, <1>3 DEF Range, Distinct
<1> QED
  BY <1>2, <1>3 DEF r

LEMMA TailPlaces ==
  ASSUME NEW q \in Seq(Works), q # <<>>, Distinct(q)
  PROVE  /\ Head(q) \in Range(q)
         /\ Range(Tail(q)) = Range(q) \ {Head(q)}
         /\ Distinct(Tail(q))
<1> DEFINE r == Tail(q)
<1>1. /\ DOMAIN q = 1 .. Len(q) /\ DOMAIN r = 1 .. Len(q) - 1 /\ Len(q) \in Nat \ {0}
      /\ \A i \in 1 .. Len(q) - 1 : r[i] = q[i + 1]
      /\ Head(q) = q[1]
  OBVIOUS
<1> HIDE DEF r
<1>2. Head(q) \in Range(q)
  BY <1>1 DEF Range
<1>3. Distinct(r)
  BY <1>1 DEF Distinct
<1>4. Range(r) \subseteq Range(q) \ {Head(q)}
  BY <1>1 DEF Range, Distinct
<1>5. ASSUME NEW x \in Range(q) \ {Head(q)} PROVE x \in Range(r)
  <2>1. PICK i \in 1 .. Len(q) : x = q[i]
    BY <1>1 DEF Range
  <2>2. i # 1 /\ i - 1 \in 1 .. Len(q) - 1
    BY <1>1, <2>1
  <2>3. x = r[i - 1]
    BY <1>1, <2>1, <2>2
  <2> QED
    BY <1>1, <2>2, <2>3 DEF Range
<1> QED
  BY <1>2, <1>3, <1>4, <1>5 DEF r

\* Works move between the places when they are scheduled, taken and destroyed.
LEMMA PlacesKept ==
  ASSUME OnePlace, UNCHANGED <<queues, work, unscheduled>>
  PROVE  OnePlace'
BY DEF OnePlace, queues, Pending, Held, Distinct

LEMMA PlacesSchedule ==
  ASSUME TypeInv, OnePlace, NEW w \in Works, NEW delay \in Delays, schedule(w, delay)
  PROVE  OnePlace'
<1>1. /\ w \in unscheduled /\ w \notin Pending /\ w \notin Held /\ w # NoWork
      /\ unscheduled' = unscheduled \ {w} /\ work' = work
  BY SchedulerAssumption DEF schedule, OnePlace
<1>2. \A t \in Threads : work[t] # w
  BY <1>1 DEF Held
<1>3. CASE ~active
  <2>1. UNCHANGED queues
    BY <1>3 DEF schedule
  <2> QED
    BY <1>1, <2>1 DEF OnePlace, queues, Pending, Held, Distinct
<1>4. CASE active /\ delay # 0
  <2>1. queue' = queue /\ scheduled_queue' = scheduled_queue \cup {w}
    BY <1>4 DEF schedule
  <2> QED
    BY <1>1, <1>2, <2>1 DEF OnePlace, Pending, Held, Distinct
<1>5. CASE active /\ delay = 0
  <2>1. queue' = Append(queue, w) /\ scheduled_queue' = scheduled_queue
    BY <1>5 DEF schedule
  <2>2. queue \in Seq(Works) /\ w \notin Range(queue) /\ Distinct(queue)
    BY <1>1 DEF TypeInv, TypeButCounters, OnePlace, Pending
  <2>3. Range(queue') = Range(queue) \cup {w} /\ Distinct(queue')
    BY <2>1, <2>2, AppendPlaces
  <2> QED
    BY <1>1, <1>2, <2>1, <2>3 DEF OnePlace, Pending, Held
<1> QED
  BY <1>3, <1>4, <1>5

LEMMA PlacesTake ==
  ASSUME TypeInv, OnePlace, IdleHands, NEW t \in Threads, NEW w \in Pending,
         pc[t] \notin AtWork,
         work' = [work EXCEPT ![t] = w], Pending' = Pending \ {w},
         Distinct(queue'), Range(queue') \cap scheduled_queue' = {},
         UNCHANGED unscheduled
  PROVE  OnePlace'
<1>1. work[t] = NoWork /\ \A u \in Threads : work[u] # w
  BY DEF IdleHands, OnePlace
<1>2. \A u \in Threads : work'[u] = IF u = t THEN w ELSE work[u]
  BY DEF TypeInv, TypeButCounters
<1>3. Held' \subseteq Held \cup {w}
  BY <1>2 DEF Held
<1>4. unscheduled' \cap (Pending' \cup Held') = {}
  BY <1>3 DEF OnePlace
<1>5. \A u \in Threads : work'[u] \notin Pending'
  BY <1>2 DEF OnePlace
<1>6. \A u, v \in Threads : work'[u] = work'[v] /\ work'[u] # NoWork => u = v
  BY <1>1, <1>2 DEF OnePlace
<1> QED
  BY <1>4, <1>5, <1>6 DEF OnePlace

LEMMA PlacesWorker ==
  ASSUME TypeInv, OnePlace, IdleHands, NEW t \in Threads, Worker(t)
  PROVE  OnePlace'
<1> USE SchedulerAssumption
<1>1. CASE TakeDue(t)
  <2>1. PICK w \in scheduled_queue : /\ work' = [work EXCEPT ![t] = w]
                                     /\ scheduled_queue' = scheduled_queue \ {w}
    BY <1>1 DEF TakeDue, DueTops, Tops
  <2>2. queue' = queue /\ unscheduled' = unscheduled /\ pc[t] \notin AtWork
    BY <1>1 DEF TakeDue, history, InNext, AtWork
  <2>3. w \in Pending /\ w \notin Range(queue)
    BY DEF Pending, OnePlace
  <2>4. Pending' = Pending \ {w}
    BY <2>1, <2>2, <2>3 DEF Pending
  <2>5. Distinct(queue') /\ Range(queue') \cap scheduled_queue' = {}
    BY <2>1, <2>2 DEF OnePlace
  <2> QED
    BY <2>1, <2>2, <2>3, <2>4, <2>5, PlacesTake
<1>2. CASE TakeFront(t)
  <2> DEFINE w == Head(queue)
  <2>1. /\ queue \in Seq(Works) /\ queue # <<>> /\ Distinct(queue)
        /\ queue' = Tail(queue) /\ scheduled_queue' = scheduled_queue
        /\ work' = [work EXCEPT ![t] = w]
        /\ unscheduled' = unscheduled /\ pc[t] \notin AtWork
    BY <1>2 DEF TakeFront, history, InNext, AtWork, TypeInv, TypeButCounters, OnePlace
  <2>2. w \in Range(queue) /\ Range(queue') = Range(queue) \ {w} /\ Distinct(queue')
    BY <2>1, TailPlaces
  <2> HIDE DEF w
  <2>3. w \in Pending /\ w \notin scheduled_queue
    BY <2>2 DEF Pending, OnePlace
  <2>4. Pending' = Pending \ {w}
    BY <2>1, <2>2, <2>3 DEF Pending
  <2>5. Range(queue') \cap scheduled_queue' = {}
    BY <2>1, <2>2 DEF OnePlace
  <2> QED
    BY <2>1, <2>2, <2>3, <2>4, <2>5, PlacesTake
<1>3. CASE Release(t)
  <2>1. UNCHANGED <<queues, unscheduled>>
    BY <1>3 DEF Release, history
  <2>2. \A u \in Threads : work'[u] = IF u = t THEN NoWork ELSE work[u]
    BY <1>3 DEF Release, TypeInv, TypeButCounters
  <2>3. Pending' = Pending /\ Held' \subseteq Held
    BY <2>1, <2>2 DEF Pending, Held, queues
  <2>4. NoWork \notin Pending
    <3>1. Range(queue) \subseteq Works
      BY DEF Range, TypeInv, TypeButCounters
    <3> QED
      BY <3>1 DEF Pending, TypeInv, TypeButCounters
  <2> QED
    BY <2>1, <2>2, <2>3, <2>4 DEF OnePlace, queues, Distinct
<1>4. CASE ~TakeDue(t) /\ ~TakeFront(t) /\ ~Release(t)
  <2>1. UNCHANGED <<queues, work, unscheduled>>
    BY <1>4 DEF Worker, Wait, WaitUntil, Exit, Spin, Timeout, Begin, Finish, history
  <2> QED
    BY <2>1, PlacesKept
<1> QED
  BY <1>1, <1>2, <1>3, <1>4

\* A thread moves by its own actions or is woken.
LEMMA PcMoves ==
  ASSUME TypeInv, [Next]_vars, NEW p \in Procs
  PROVE  \/ pc'[p] = pc[p]
         \/ pc[p] \in {"wait", "timed"} /\ pc'[p] = "woken"
         \/ pc[p] = "stop_wait" /\ pc'[p] = "stop_woken"
         \/ p \in Threads /\ Worker(p)
         \/ Destructor(p)
         \/ p = Client /\ (Counting \/ Drop)
<1> USE SchedulerAssumption
<1> pc \in [Procs -> PCs]
  BY DEF TypeInv, TypeButCounters
<1> DEFINE Goal == \/ pc'[p] = pc[p]
                   \/ pc[p] \in {"wait", "timed"} /\ pc'[p] = "woken"
                   \/ pc[p] = "stop_wait" /\ pc'[p] = "stop_woken"
                   \/ p \in Threads /\ Worker(p)
                   \/ Destructor(p)
                   \/ p = Client /\ (Counting \/ Drop)
<1> HIDE DEF Goal
<1>w. ASSUME Woken(pc, pc') PROVE Goal
  BY <1>w DEF Goal, Woken
<1>1. ASSUME NEW w \in Works, NEW delay \in Delays, schedule(w, delay) PROVE Goal
  <2>1. pc' = pc \/ pc' \in NotifyOne(pc)
    BY <1>1 DEF schedule
  <2> QED
    BY <1>w, <2>1, NotifyOneWakes DEF Goal
<1>2. ASSUME NEW t \in Threads, Worker(t) PROVE Goal
  <2>1. CASE p = t
    BY <1>2, <2>1 DEF Goal
  <2>2. CASE p # t /\ Exit(t)
    <3> DEFINE at == [pc EXCEPT ![t] = "exited"]
    <3>1. at \in [Procs -> PCs] /\ pc' \in NotifyOne(at)
      BY <2>2 DEF Exit, PCs, WorkerPC
    <3>2. Woken(at, pc') /\ at[p] = pc[p]
      BY <2>2, <3>1, NotifyOneWakes
    <3> HIDE DEF at
    <3> QED
      BY <3>2 DEF Goal, Woken
  <2>3. CASE p # t /\ ~Exit(t)
    <3>1. \E to : Goto(t, to)
      BY <1>2, <2>3 DEF Worker, Wait, WaitUntil, TakeDue, TakeFront, Spin, Timeout,
         Begin, Finish, Release
    <3> QED
      BY <2>3, <3>1 DEF Goal, Goto
  <2> QED
    BY <2>1, <2>2, <2>3
<1>3. ASSUME NEW q \in Procs, SpuriousWakeup(q) PROVE Goal
  BY <1>3, <1>w, AwakeWakes DEF SpuriousWakeup
<1>4. ASSUME NEW q \in Procs, Destructor(q) PROVE Goal
  <2>1. CASE p = q
    BY <1>4, <2>1 DEF Goal
  <2>2. CASE p # q /\ stop(q)
    <3>1. Woken(pc, NotifyAll(pc))
      BY AwakeWakes DEF NotifyAll
    <3>2. pc'[p] = NotifyAll(pc)[p]
      BY <2>2, <3>1 DEF stop, Woken
    <3> QED
      BY <3>1, <3>2 DEF Goal, Woken
  <2>3. CASE p # q /\ (StopResume(q) \/ Join(q))
    BY <2>3 DEF Goal, StopResume, Join, Goto
  <2> QED
    BY <1>4, <2>1, <2>2, <2>3 DEF Destructor
<1>5. CASE Counting \/ Drop
  <2>1. CASE p = Client
    BY <1>5, <2>1 DEF Goal
  <2>2. CASE p # Client
    BY <1>5, <2>2 DEF Goal, Counting, ReadUseCount, ReadImplCount, Continue, Drop, Goto
  <2> QED
    BY <2>1, <2>2
<1>6. CASE Tick \/ UNCHANGED vars
  BY <1>6 DEF Goal, Tick, vars
<1> QED
  BY <1>1, <1>2, <1>3, <1>4, <1>5, <1>6 DEF Goal, Next

\* Works change hands in three actions of the worker they belong to.
LEMMA WorkMoves ==
  ASSUME TypeInv, [Next]_vars, NEW t \in Threads
  PROVE  work'[t] = work[t] \/ TakeDue(t) \/ TakeFront(t) \/ Release(t)
<1>1. ASSUME NEW w \in Works, NEW delay \in Delays, schedule(w, delay) PROVE work' = work
  BY <1>1 DEF schedule
<1>2. ASSUME NEW u \in Threads, Worker(u)
      PROVE  work'[t] = work[t] \/ TakeDue(t) \/ TakeFront(t) \/ Release(t)
  <2>1. CASE u # t /\ (TakeDue(u) \/ TakeFront(u) \/ Release(u))
    BY <2>1 DEF TakeDue, TakeFront, Release, TypeInv, TypeButCounters
  <2>2. CASE ~(TakeDue(u) \/ TakeFront(u) \/ Release(u))
    BY <1>2, <2>2 DEF Worker, Wait, WaitUntil, Exit, Spin, Timeout, Begin, Finish
  <2> QED
    BY <2>1, <2>2
<1>3. ASSUME NEW p \in Procs, SpuriousWakeup(p) \/ Destructor(p) PROVE work' = work
  BY <1>3 DEF SpuriousWakeup, Destructor, stop, StopResume, Join
<1>4. CASE Counting \/ Drop
  BY <1>4 DEF Counting, ReadUseCount, ReadImplCount, Continue, Drop
<1>5. CASE Tick \/ UNCHANGED vars
  BY <1>5 DEF Tick, vars
<1> QED
  BY <1>1, <1>2, <1>3, <1>4, <1>5 DEF Next

LEMMA IdleHandsStep ==
  ASSUME TypeInv, IdleHands, [Next]_vars
  PROVE  IdleHands'
<1> USE SchedulerAssumption
<1> SUFFICES ASSUME NEW t \in Threads, pc'[t] \notin AtWork PROVE work'[t] = NoWork
  BY DEF IdleHands
<1> t \in Procs /\ t # Client /\ pc \in [Procs -> PCs]
  BY DEF Procs, TypeInv, TypeButCounters
<1>1. CASE Release(t)
  BY <1>1 DEF Release, TypeInv, TypeButCounters
<1>2. ~TakeDue(t) /\ ~TakeFront(t)
  BY DEF TakeDue, TakeFront, Goto, AtWork
<1>3. CASE ~Release(t)
  <2>1. work'[t] = work[t]
    BY <1>2, <1>3, WorkMoves
  <2>2. pc[t] \notin AtWork
    <3>1. CASE Worker(t)
      BY <1>2, <1>3, <3>1 DEF Worker, Wait, WaitUntil, Exit, Spin, Timeout, Begin, Finish,
         Goto, InNext, AtWork
    <3>2. CASE Destructor(t)
      BY <3>2 DEF Destructor, stop, StopResume, Join, AtWork
    <3> QED
      BY <3>1, <3>2, PcMoves DEF AtWork
  <2> QED
    BY <2>1, <2>2 DEF IdleHands
<1> QED
  BY <1>1, <1>3

LEMMA PlacesStep ==
  ASSUME TypeInv, OnePlace, IdleHands, [Next]_vars
  PROVE  OnePlace'
<1>1. ASSUME NEW p \in Procs, SpuriousWakeup(p) \/ Destructor(p) PROVE OnePlace'
  BY <1>1, PlacesKept DEF SpuriousWakeup, Destructor, stop, StopResume, Join, history
<1>2. CASE Counting \/ Drop
  BY <1>2, PlacesKept DEF Counting, ReadUseCount, ReadImplCount, Continue, Drop, history
<1>3. CASE Tick \/ UNCHANGED vars
  BY <1>3, PlacesKept DEF Tick, vars, history
<1> QED
  BY <1>1, <1>2, <1>3, PlacesSchedule, PlacesWorker DEF Next

-----------------------------------------------------------------------------
(***************************************************************************)
(* count() = 0.  When the closures hold the scheduler, a pool in which no  *)
(* work is left can get one from a client that is not counting only, so    *)
(* that a zero of the first counter read still holds at the second.        *)
(***************************************************************************)
Empty == Pending \cup Held = {}

LEMMA EmptyIdle ==
  ASSUME TypeInv, Empty
  PROVE  /\ queue = <<>> /\ scheduled_queue = {}
         /\ \A t \in Threads : work[t] = NoWork
         /\ \A t \in Threads : pc[t] \notin {"taken", "running", "spent"}
<1>1. queue = <<>>
  <2>1. queue \in Seq(Works) /\ Range(queue) = {}
    BY DEF Empty, Pending, TypeInv, TypeButCounters
  <2>2. Len(queue) = 0
    <3>1. ASSUME Len(queue) # 0 PROVE FALSE
      <4>1. 1 \in DOMAIN queue
        BY <2>1, <3>1
      <4> QED
        BY <2>1, <4>1 DEF Range
    <3> QED
      BY <3>1
  <2> QED
    BY <2>1, <2>2
<1>2. scheduled_queue = {} /\ \A t \in Threads : work[t] = NoWork
  BY DEF Empty, Pending, Held
<1>3. \A t \in Threads : pc[t] \notin {"taken", "running", "spent"}
  BY <1>2, SchedulerAssumption DEF TypeInv, HasWork
<1> QED
  BY <1>1, <1>2, <1>3

LEMMA EmptyStays ==
  ASSUME TypeInv, Empty, pc[Client] # "holding", [Next]_vars
  PROVE  Empty'
<1> USE EmptyIdle
<1>1. ASSUME UNCHANGED <<queues, work>> PROVE Empty'
  BY <1>1 DEF Empty, Pending, Held, queues
<1>2. ASSUME NEW w \in Works, NEW delay \in Delays, schedule(w, delay) PROVE Empty'
  <2>1. Running = {}
    BY DEF Running
  <2>2. ~MaySchedule(w)
    BY <2>1 DEF MaySchedule
  <2> QED
    BY <1>2, <2>2 DEF schedule
<1>3. ASSUME NEW t \in Threads, Worker(t) PROVE Empty'
  <2>1. ~TakeDue(t) /\ ~TakeFront(t) /\ ~Release(t)
    BY DEF TakeDue, TakeFront, Release, DueTops, Tops
  <2>2. UNCHANGED <<queues, work>>
    BY <1>3, <2>1 DEF Worker, Wait, WaitUntil, Exit, Spin, Timeout, Begin, Finish
  <2> QED
    BY <1>1, <2>2
<1>4. ASSUME NEW p \in Procs, SpuriousWakeup(p) \/ Destructor(p) PROVE Empty'
  BY <1>1, <1>4 DEF SpuriousWakeup, Destructor, stop, StopResume, Join
<1>5. CASE Counting \/ Drop
  BY <1>1, <1>5 DEF Counting, ReadUseCount, ReadImplCount, Continue, Drop
<1>6. CASE Tick \/ UNCHANGED vars
  BY <1>1, <1>6 DEF Tick, vars, queues
<1> QED
  BY <1>2, <1>3, <1>4, <1>5, <1>6 DEF Next

CountInv ==
  KeepersOnly =>
  /\ pc[Client] \in {"uses_read", "queues_read", "counted"} => seen >= 0
  /\ pc[Client] \in {"uses_read", "counted"} /\ seen = 0 => Empty

\* With no handle but the client's, no closure holds the scheduler.
LEMMA UnusedEmpty ==
  ASSUME TypeInv, OnePlace, KeepersOnly, ClientHolds, use_count = 1
  PROVE  Empty
<1>1. IsFiniteSet(KeepersAlive)
  <2>1. KeepersAlive \subseteq Works
    BY SchedulerAssumption DEF KeepersAlive
  <2> QED
    BY <2>1, SchedulerAssumption, FS_Subset
<1>2. Cardinality(KeepersAlive) = 0
  BY <1>1, FS_CardinalityType DEF use_count
<1>3. KeepersAlive = {}
  BY <1>1, <1>2, FS_EmptySet
<1>4. Range(queue) \subseteq Works
  BY DEF Range, TypeInv, TypeButCounters
<1>5. Pending \cup Held \subseteq Works
  BY <1>4 DEF Pending, Held, TypeInv, TypeButCounters
<1>6. Pending \cup Held \subseteq Keepers
  BY <1>5 DEF OnePlace, KeepersOnly
<1> QED
  BY <1>3, <1>6 DEF Empty, KeepersAlive

LEMMA UseCountPositive ==
  ASSUME TypeInv, ClientHolds
  PROVE  use_count \in Nat /\ use_count >= 1
<1>1. IsFiniteSet(KeepersAlive)
  <2>1. KeepersAlive \subseteq Works
    BY SchedulerAssumption DEF KeepersAlive
  <2> QED
    BY <2>1, SchedulerAssumption, FS_Subset
<1> QED
  BY <1>1, FS_CardinalityType DEF use_count

\* The client moves by its own actions, and by those of the destructor.
LEMMA ClientMoves ==
  ASSUME TypeInv, [Next]_vars
  PROVE  \/ pc'[Client] = pc[Client] /\ seen' = seen
         \/ pc'[Client] \in DestructorPC \cup {"gone"} /\ pc[Client] \in DestructorPC
         \/ Counting \/ Drop
<1> USE SchedulerAssumption
<1> pc \in [Procs -> PCs] /\ pc[Client] \notin WorkerPC /\ Client \in Procs
  BY DEF TypeInv, TypeButCounters, Procs
<1> DEFINE Goal == \/ pc'[Client] = pc[Client] /\ seen' = seen
                   \/ pc'[Client] \in DestructorPC \cup {"gone"} /\ pc[Client] \in DestructorPC
                   \/ Counting \/ Drop
<1> HIDE DEF Goal
<1>w. ASSUME Woken(pc, pc'), UNCHANGED seen PROVE Goal
  BY <1>w DEF Goal, Woken, WorkerPC, DestructorPC
<1>1. ASSUME NEW w \in Works, NEW delay \in Delays, schedule(w, delay) PROVE Goal
  <2>1. pc' = pc \/ pc' \in NotifyOne(pc)
    BY <1>1 DEF schedule
  <2>2. UNCHANGED seen
    BY <1>1 DEF schedule
  <2>3. pc' = pc \/ Woken(pc, pc')
    BY <2>1, NotifyOneWakes
  <2> QED
    BY <1>w, <2>2, <2>3 DEF Goal
<1>2. ASSUME NEW t \in Threads, Worker(t) PROVE Goal
  <2>1. UNCHANGED seen
    BY <1>2 DEF Worker, Wait, WaitUntil, TakeDue, TakeFront, Exit, Spin, Timeout,
       Begin, Finish, Release
  <2>2. CASE Exit(t)
    <3> DEFINE at == [pc EXCEPT ![t] = "exited"]
    <3>1. at \in [Procs -> PCs] /\ pc' \in NotifyOne(at)
      BY <2>2 DEF Exit, PCs, WorkerPC
    <3>2. Woken(at, pc')
      BY <3>1, NotifyOneWakes
    <3>3. at[Client] = pc[Client]
      OBVIOUS
    <3> QED
      BY <2>1, <3>2, <3>3 DEF Goal, Woken, WorkerPC, DestructorPC
  <2>3. CASE ~Exit(t)
    <3>1. \E to : Goto(t, to)
      BY <1>2, <2>3 DEF Worker, Wait, WaitUntil, TakeDue, TakeFront, Spin, Timeout,
         Begin, Finish, Release
    <3> QED
      BY <2>1, <3>1 DEF Goal, Goto
  <2> QED
    BY <2>2, <2>3
<1>3. ASSUME NEW p \in Procs, SpuriousWakeup(p) PROVE Goal
  BY <1>3, <1>w, AwakeWakes DEF SpuriousWakeup
<1>4. ASSUME NEW p \in Procs, stop(p) PROVE Goal
  <2>1. Woken(pc, NotifyAll(pc))
    BY AwakeWakes DEF NotifyAll
  <2>2. pc'[Client] = IF p = Client THEN (IF threads_count = 0 THEN "join" ELSE "stop_wait")
                      ELSE NotifyAll(pc)[Client]
    BY <1>4, <2>1 DEF stop, Woken
  <2>3. UNCHANGED seen /\ (p = Client => pc[Client] \in DestructorPC)
    BY <1>4 DEF stop, DestructorPC
  <2> QED
    BY <2>1, <2>2, <2>3 DEF Goal, Woken, WorkerPC, DestructorPC
<1>5. ASSUME NEW p \in Procs, StopResume(p) \/ Join(p) PROVE Goal
  BY <1>5 DEF Goal, StopResume, Join, Goto, DestructorPC
<1>6. CASE Counting \/ Drop
  BY <1>6 DEF Goal
<1>7. CASE Tick \/ UNCHANGED vars
  BY <1>7 DEF Goal, Tick, vars
<1> QED
  BY <1>1, <1>2, <1>3, <1>4, <1>5, <1>6, <1>7 DEF Goal, Next, Destructor

\* Only the client writes what count() returned to it.
LEMMA SeenKept ==
  ASSUME [Next]_vars, ~Counting, ~Drop
  PROVE  seen' = seen
<1>1. ASSUME NEW w \in Works, NEW delay \in Delays, schedule(w, delay) PROVE seen' = seen
  BY <1>1 DEF schedule
<1>2. ASSUME NEW t \in Threads, Worker(t) PROVE seen' = seen
  BY <1>2 DEF Worker, Wait, WaitUntil, TakeDue, TakeFront, Exit, Spin, Timeout, Begin,
     Finish, Release
<1>3. ASSUME NEW p \in Procs, SpuriousWakeup(p) \/ Destructor(p) PROVE seen' = seen
  BY <1>3 DEF SpuriousWakeup, Destructor, stop, StopResume, Join
<1>4. CASE Tick \/ UNCHANGED vars
  BY <1>4 DEF Tick, vars
<1> QED
  BY <1>1, <1>2, <1>3, <1>4 DEF Next

\* A work that was scheduled stays so.
LEMMA KeepersOnlyBefore ==
  ASSUME KeepersOnly', [Next]_vars
  PROVE  KeepersOnly
<1>1. unscheduled' \subseteq unscheduled
  <2>1. ASSUME NEW w \in Works, NEW delay \in Delays, schedule(w, delay)
        PROVE  unscheduled' \subseteq unscheduled
    BY <2>1 DEF schedule
  <2>2. ASSUME NEW t \in Threads, Worker(t) PROVE unscheduled' = unscheduled
    BY <2>2 DEF Worker, Wait, WaitUntil, TakeDue, TakeFront, Exit, Spin, Timeout,
       Begin, Finish, Release, history
  <2>3. ASSUME NEW p \in Procs, SpuriousWakeup(p) \/ Destructor(p)
        PROVE  unscheduled' = unscheduled
    BY <2>3 DEF SpuriousWakeup, Destructor, stop, StopResume, Join, history
  <2>4. CASE Counting \/ Drop \/ Tick \/ UNCHANGED vars
    BY <2>4 DEF Counting, ReadUseCount, ReadImplCount, Continue, Drop, Tick, vars, history
  <2> QED
    BY <2>1, <2>2, <2>3, <2>4 DEF Next
<1> QED
  BY <1>1 DEF KeepersOnly

LEMMA CountStep ==
  ASSUME TypeInv, OnePlace, CountInv, [Next]_vars
  PROVE  CountInv'
<1> SUFFICES ASSUME KeepersOnly' PROVE CountInv'
  BY DEF CountInv
<1> KeepersOnly
  BY KeepersOnlyBefore
<1> USE SchedulerAssumption
<1> pc \in [Procs -> PCs] /\ Client \in Procs /\ seen \in Int
  BY DEF TypeInv, TypeButCounters, Procs
<1>1. CASE pc'[Client] = pc[Client] /\ seen' = seen
  <2>1. CASE pc[Client] \in {"uses_read", "counted"} /\ seen = 0
    <3>1. Empty'
      BY <2>1, EmptyStays DEF CountInv
    <3> QED
      BY <1>1, <3>1 DEF CountInv
  <2>2. CASE ~(pc[Client] \in {"uses_read", "counted"} /\ seen = 0)
    BY <1>1, <2>2 DEF CountInv
  <2> QED
    BY <2>1, <2>2
<1>2. CASE pc'[Client] \in DestructorPC \cup {"gone"}
  BY <1>2 DEF CountInv, DestructorPC
<1>3. CASE ReadUseCount
  <2>1. ClientHolds /\ use_count \in Nat /\ use_count >= 1
    BY <1>3, UseCountPositive DEF ReadUseCount, ClientHolds
  <2>2. use_count = 1 => Empty
    BY <2>1, UnusedEmpty
  <2>3. Empty => Empty'
    BY <1>3 DEF ReadUseCount, Empty, Pending, Held, queues
  <2>4. CASE pc[Client] = "holding"
    BY <1>3, <2>1, <2>2, <2>3, <2>4 DEF ReadUseCount, Goto, CountInv
  <2>5. CASE pc[Client] = "queues_read"
    BY <1>3, <2>1, <2>2, <2>3, <2>5 DEF ReadUseCount, Goto, CountInv
  <2> QED
    BY <1>3, <2>4, <2>5 DEF ReadUseCount
<1>4. CASE ReadImplCount
  <2>1. impl_count \in Nat
    BY UseCountInt
  <2>2. Empty => Empty'
    BY <1>4 DEF ReadImplCount, Empty, Pending, Held, queues
  <2>3. CASE pc[Client] = "holding"
    BY <1>4, <2>1, <2>3 DEF ReadImplCount, Goto, CountInv
  <2>4. CASE pc[Client] = "uses_read"
    BY <1>4, <2>1, <2>2, <2>4 DEF ReadImplCount, Goto, CountInv
  <2> QED
    BY <1>4, <2>3, <2>4 DEF ReadImplCount
<1>5. CASE Continue \/ Drop
  <2>1. pc'[Client] \in {"holding", "stop", "gone"}
    BY <1>5 DEF Continue, Drop, Goto
  <2> QED
    BY <2>1 DEF CountInv
<1> QED
  BY <1>1, <1>2, <1>3, <1>4, <1>5, ClientMoves DEF Counting

\* What the theorems about count() rest on.
CountingInv == TypeInv /\ OnePlace /\ IdleHands /\ CountInv

LEMMA CountingInit == Init => CountingInv
<1> SUFFICES ASSUME Init PROVE OnePlace /\ IdleHands /\ CountInv
  BY TypeInit DEF CountingInv
<1>1. Pending = {} /\ Held = {}
  BY DEF Init, Pending, Held, Range
<1>2. OnePlace
  BY <1>1 DEF Init, OnePlace, Distinct, Range
<1>3. IdleHands
  BY DEF Init, IdleHands
<1>4. CountInv
  BY DEF Init, CountInv, Procs
<1> QED
  BY <1>2, <1>3, <1>4

LEMMA CountingStep == CountingInv /\ [Next]_vars => CountingInv'
BY TypeStep, PlacesStep, IdleHandsStep, CountStep DEF CountingInv

\* As long as every closure scheduled holds the scheduler, as those of the library
\* do, a count() of zero means that nothing is pending or in execution, although
\* count() reads its two parts at different times and next() leaves a work
\* uncounted between the queue and active_threads_count_.
THEOREM CountZeroQuiet == Spec => []CountZeroMeansQuiet
<1>1. CountingInv => CountZeroMeansQuiet
  BY DEF CountingInv, CountInv, CountZeroMeansQuiet, Empty
<1> QED
  BY <1>1, CountingInit, CountingStep, PTL DEF Spec

-----------------------------------------------------------------------------
(***************************************************************************)
(* A client that waits for count() = 0 leaves an empty pool, so that the   *)
(* threads only have to end: none is left to run the destructor, and none  *)
(* finds a work in an inactive scheduler.                                  *)
(***************************************************************************)
NoneDestroys == \A t \in Threads : pc[t] \notin DestructorPC

\* No worker keeps the mutex for ever in next().
NoSpin == \A t \in Threads : pc[t] # "spin"

LeftEmpty ==
  /\ ~ClientHolds => Empty
  /\ ~active => ~ClientHolds
  /\ NoneDestroys
  /\ NoSpin

\* A client that is gone does not count any more.
LEMMA OrderlyBefore ==
  ASSUME TypeInv, Orderly', [Next]_vars
  PROVE  Orderly
<1>1. KeepersOnly
  BY KeepersOnlyBefore DEF Orderly
<1>2. ASSUME ~ClientHolds PROVE seen = 0
  <2>1. ~Counting /\ ~Drop
    BY <1>2 DEF Counting, ReadUseCount, ReadImplCount, Continue, Drop, Leave, ClientHolds
  <2>2. ~ClientHolds'
    BY <1>2, <2>1, ClientMoves DEF ClientHolds, DestructorPC
  <2>3. seen' = seen
    BY <2>1, SeenKept
  <2> QED
    BY <2>2, <2>3 DEF Orderly
<1> QED
  BY <1>1, <1>2 DEF Orderly

LEMMA LeftEmptyStep ==
  ASSUME CountingInv, LeftEmpty, Orderly, Orderly', [Next]_vars
  PROVE  LeftEmpty'
<1> TypeInv /\ OnePlace /\ CountInv /\ KeepersOnly
  BY DEF CountingInv, Orderly
<1> USE SchedulerAssumption
<1> pc \in [Procs -> PCs] /\ Client \in Procs /\ pc[Client] \notin WorkerPC
  BY DEF TypeInv, TypeButCounters, Procs
<1>1. ~ClientHolds => ~ClientHolds' /\ Empty'
  <2> SUFFICES ASSUME ~ClientHolds PROVE ~ClientHolds' /\ Empty'
    OBVIOUS
  <2>1. Empty /\ pc[Client] # "holding"
    BY DEF LeftEmpty, ClientHolds
  <2>2. Empty'
    BY <2>1, EmptyStays
  <2>3. ~Counting /\ ~Drop
    BY DEF Counting, ReadUseCount, ReadImplCount, Continue, Drop, Leave, ClientHolds
  <2>4. ~ClientHolds'
    BY <2>3, ClientMoves DEF ClientHolds, DestructorPC
  <2> QED
    BY <2>2, <2>4
<1>2. ClientHolds /\ ~ClientHolds' => Empty'
  <2> SUFFICES ASSUME ClientHolds, ~ClientHolds' PROVE Empty'
    OBVIOUS
  <2>1. pc[Client] \notin DestructorPC /\ pc'[Client] # pc[Client]
    BY DEF ClientHolds, DestructorPC
  <2>2. ~Counting
    BY DEF Counting, ReadUseCount, ReadImplCount, Continue, ClientHolds, Goto
  <2>3. Drop
    BY <2>1, <2>2, ClientMoves
  <2>4. seen' = 0
    BY DEF Orderly
  <2>5. pc[Client] = "counted" /\ seen = 0
    BY <2>3, <2>4 DEF Drop, Leave
  <2>6. Empty
    BY <2>5 DEF CountInv
  <2> QED
    BY <2>5, <2>6, EmptyStays
<1>3. NoneDestroys' /\ NoSpin' /\ (~active' => ~ClientHolds')
  <2> DEFINE Goal == NoneDestroys' /\ NoSpin' /\ (~active' => ~ClientHolds')
  <2> HIDE DEF Goal
  <2>0. ASSUME UNCHANGED active,
               \A t \in Threads : pc'[t] \in DestructorPC \cup {"spin"} => pc'[t] = pc[t]
        PROVE  Goal
    <3>1. NoneDestroys' /\ NoSpin'
      BY <2>0 DEF LeftEmpty, NoneDestroys, NoSpin, DestructorPC
    <3>2. ~active' => ~ClientHolds'
      BY <1>1, <2>0 DEF LeftEmpty
    <3> QED
      BY <3>1, <3>2 DEF Goal
  <2>w. ASSUME Woken(pc, pc'), UNCHANGED active PROVE Goal
    <3>1. \A t \in Threads : pc'[t] \in DestructorPC \cup {"spin"} => pc'[t] = pc[t]
      BY <2>w DEF Woken, LeftEmpty, NoneDestroys, DestructorPC, Procs
    <3> QED
      BY <2>0, <2>w, <3>1
  <2>1. ASSUME NEW w \in Works, NEW delay \in Delays, schedule(w, delay) PROVE Goal
    <3>1. UNCHANGED active /\ (pc' = pc \/ pc' \in NotifyOne(pc))
      BY <2>1 DEF schedule
    <3> QED
      BY <2>0, <2>w, <3>1, NotifyOneWakes
  <2>2. ASSUME NEW t \in Threads, Worker(t) PROVE Goal
    <3> t \in Procs
      BY DEF Procs
    <3>1. UNCHANGED active
      BY <2>2 DEF Worker, Wait, WaitUntil, TakeDue, TakeFront, Exit, Spin, Timeout,
         Begin, Finish, Release
    <3>2. CASE Exit(t)
      <4> DEFINE at == [pc EXCEPT ![t] = "exited"]
      <4>1. at \in [Procs -> PCs] /\ pc' \in NotifyOne(at)
        BY <3>2 DEF Exit, PCs, WorkerPC
      <4>2. Woken(at, pc')
        BY <4>1, NotifyOneWakes
      <4>3. \A u \in Threads : pc'[u] \in DestructorPC \cup {"spin"} => pc'[u] = pc[u]
        BY <4>2 DEF Woken, LeftEmpty, NoneDestroys, DestructorPC, Procs
      <4> QED
        BY <2>0, <3>1, <4>3
    <3>3. ~Spin(t)
      BY <1>1, EmptyIdle DEF Spin, LeftEmpty
    <3>4. CASE Release(t)
      <4>1. ClientHolds
        BY <3>4, EmptyIdle DEF Release, LeftEmpty
      <4>2. work[t] \in Works
        BY <3>4 DEF Release, TypeInv, HasWork
      <4>3. use_count # 1
        BY <4>1, <4>2, UnusedEmpty, EmptyIdle
      <4>4. Goto(t, "next")
        BY <3>4, <4>3 DEF Release
      <4> QED
        BY <2>0, <3>1, <4>4 DEF Goto, DestructorPC, Procs
    <3>5. CASE ~Exit(t) /\ ~Release(t)
      <4>1. \E to \in {"wait", "timed", "taken", "woken", "running", "spent"} : Goto(t, to)
        BY <2>2, <3>3, <3>5 DEF Worker, Wait, WaitUntil, TakeDue, TakeFront, Timeout,
           Begin, Finish
      <4> QED
        BY <2>0, <3>1, <4>1 DEF Goto, DestructorPC, Procs
    <3> QED
      BY <3>2, <3>4, <3>5
  <2>3. ASSUME NEW p \in Procs, SpuriousWakeup(p) PROVE Goal
    BY <2>3, <2>w, AwakeWakes DEF SpuriousWakeup
  <2>4. ASSUME NEW p \in Procs, Destructor(p) PROVE Goal
    <3>1. pc[p] \in DestructorPC
      BY <2>4 DEF Destructor, stop, StopResume, Join, DestructorPC
    <3>2. p = Client
      BY <3>1 DEF LeftEmpty, NoneDestroys, Procs
    <3>3. ~ClientHolds'
      BY <1>1, <3>1, <3>2 DEF ClientHolds, DestructorPC
    <3>4. CASE stop(p)
      <4>1. Woken(pc, NotifyAll(pc))
        BY AwakeWakes DEF NotifyAll
      <4>2. \A t \in Threads : pc'[t] = NotifyAll(pc)[t]
        BY <3>2, <3>4, <4>1 DEF stop, Woken, Procs
      <4>3. NoneDestroys' /\ NoSpin'
        BY <4>1, <4>2 DEF Woken, LeftEmpty, NoneDestroys, NoSpin, DestructorPC, Procs
      <4> QED
        BY <3>3, <4>3 DEF Goal
    <3>5. CASE StopResume(p) \/ Join(p)
      <4>1. \A t \in Threads : pc'[t] = pc[t]
        BY <3>2, <3>5 DEF StopResume, Join, Goto, Procs
      <4> QED
        BY <3>3, <4>1 DEF Goal, LeftEmpty, NoneDestroys, NoSpin
    <3> QED
      BY <2>4, <3>4, <3>5 DEF Destructor
  <2>5. CASE Counting \/ Drop
    <3>1. UNCHANGED active
      BY <2>5 DEF Counting, ReadUseCount, ReadImplCount, Continue, Drop
    <3>2. \E to : Goto(Client, to)
      BY <2>5 DEF Counting, ReadUseCount, ReadImplCount, Continue, Drop
    <3>3. \A t \in Threads : pc'[t] = pc[t]
      BY <3>2 DEF Goto, Procs
    <3>4. \A t \in Threads : pc'[t] \in DestructorPC \cup {"spin"} => pc'[t] = pc[t]
      BY <3>3
    <3> QED
      BY <2>0, <3>1, <3>4 DEF Goal
  <2>6. CASE Tick \/ UNCHANGED vars
    <3>1. UNCHANGED active
      BY <2>6 DEF Tick, vars
    <3>2. pc' = pc
      BY <2>6 DEF Tick, vars
    <3>3. \A t \in Threads : pc'[t] \in DestructorPC \cup {"spin"} => pc'[t] = pc[t]
      BY <3>2
    <3> QED
      BY <2>0, <3>1, <3>3 DEF Goal
  <2> QED
    BY <2>1, <2>2, <2>3, <2>4, <2>5, <2>6 DEF Goal, Next
<1> QED
  BY <1>1, <1>2, <1>3 DEF LeftEmpty

\* As long as the closures scheduled hold the scheduler, a client that waits for
\* count() = 0 before it drops its Scheduler is the one that destroys it, and no
\* worker spins in next() with the mutex in its hands.
THEOREM PatientClientDestroys == Spec => []NoWorkerDestroys
<1> DEFINE Inv == CountingInv /\ (Orderly => LeftEmpty)
<1>1. Init => Inv
  <2>1. Init => LeftEmpty
    BY SchedulerAssumption DEF Init, LeftEmpty, ClientHolds, NoneDestroys, NoSpin,
       DestructorPC, Procs
  <2> QED
    BY <2>1, CountingInit
<1>2. Inv /\ [Next]_vars => Inv'
  <2> SUFFICES ASSUME Inv, [Next]_vars, Orderly' PROVE LeftEmpty'
    BY CountingStep
  <2>1. Orderly
    BY OrderlyBefore DEF CountingInv
  <2> QED
    BY <2>1, LeftEmptyStep
<1>3. Inv => NoWorkerDestroys
  BY DEF LeftEmpty, NoneDestroys, NoSpin, NoWorkerDestroys
<1> QED
  BY <1>1, <1>2, <1>3, PTL DEF Spec
-----------------------------------------------------------------------------
(***************************************************************************)
(* Who runs the destructor.  When a worker whose closure held the last     *)
(* handle has destroyed it, no other copy of that handle is left.          *)
(***************************************************************************)
\* Nobody owns the scheduler any more.
Dead == KeepersAlive = {} /\ ~ClientHolds

\* Nobody can make a new handle of it then.
LEMMA DeadStays ==
  ASSUME TypeInv, Dead, [Next]_vars
  PROVE  Dead'
<1> USE SchedulerAssumption
<1>1. ~ClientHolds'
  <2>1. ~Counting /\ ~Drop
    BY DEF Dead, Counting, ReadUseCount, ReadImplCount, Continue, Drop, Leave, ClientHolds
  <2> QED
    BY <2>1, ClientMoves DEF Dead, ClientHolds, DestructorPC
<1>2. ASSUME NEW w \in Works, NEW delay \in Delays, schedule(w, delay) PROVE KeepersAlive' = {}
  <2>1. \A t \in Running : work[t] \notin Keepers
    BY DEF Dead, KeepersAlive, Held, Running, TypeInv, HasWork
  <2>2. w \notin Keepers
    BY <1>2, <2>1 DEF schedule, MaySchedule, Dead, ClientHolds
  <2>3. queue' = queue \/ queue' = Append(queue, w)
    BY <1>2 DEF schedule, queues
  <2>4. Range(queue') \subseteq Range(queue) \cup {w}
    <3>1. queue \in Seq(Works)
      BY DEF TypeInv, TypeButCounters
    <3> QED
      BY <2>3, <3>1, AppendPlaces
  <2>5. scheduled_queue' \subseteq scheduled_queue \cup {w} /\ work' = work
    BY <1>2 DEF schedule, queues
  <2> QED
    BY <2>2, <2>4, <2>5 DEF Dead, KeepersAlive, Pending, Held
<1>3. ASSUME NEW t \in Threads, Worker(t) PROVE KeepersAlive' = {}
  <2>1. CASE TakeDue(t)
    <3>1. PICK w \in scheduled_queue : work' = [work EXCEPT ![t] = w]
      BY <2>1 DEF TakeDue, DueTops, Tops
    <3>2. queue' = queue /\ scheduled_queue' \subseteq scheduled_queue
      BY <2>1 DEF TakeDue
    <3>3. Held' \subseteq Held \cup {w}
      BY <3>1 DEF Held, TypeInv, TypeButCounters
    <3> QED
      BY <3>2, <3>3 DEF Dead, KeepersAlive, Pending
  <2>2. CASE TakeFront(t)
    <3>1. queue \in Seq(Works) /\ queue # <<>>
      BY <2>2 DEF TakeFront, TypeInv, TypeButCounters
    <3>2. Head(queue) \in Range(queue) /\ Range(Tail(queue)) \subseteq Range(queue)
      BY <3>1 DEF Range
    <3>3. Held' \subseteq Held \cup {Head(queue)}
      BY <2>2 DEF TakeFront, Held, TypeInv, TypeButCounters
    <3>4. queue' = Tail(queue) /\ scheduled_queue' = scheduled_queue
      BY <2>2 DEF TakeFront
    <3> QED
      BY <3>2, <3>3, <3>4 DEF Dead, KeepersAlive, Pending
  <2>3. CASE Release(t)
    <3>1. Held' \subseteq Held
      BY <2>3 DEF Release, Held, TypeInv, TypeButCounters
    <3> QED
      BY <2>3, <3>1 DEF Release, queues, Dead, KeepersAlive, Pending
  <2>4. CASE ~TakeDue(t) /\ ~TakeFront(t) /\ ~Release(t)
    <3>1. UNCHANGED <<queues, work>>
      BY <1>3, <2>4 DEF Worker, Wait, WaitUntil, Exit, Spin, Timeout, Begin, Finish
    <3> QED
      BY <3>1 DEF queues, Dead, KeepersAlive, Pending, Held
  <2> QED
    BY <2>1, <2>2, <2>3, <2>4
<1>4. ASSUME UNCHANGED <<queues, work>> PROVE KeepersAlive' = {}
  BY <1>4 DEF queues, Dead, KeepersAlive, Pending, Held
<1>5. ASSUME NEW p \in Procs, SpuriousWakeup(p) \/ Destructor(p) PROVE KeepersAlive' = {}
  BY <1>4, <1>5 DEF SpuriousWakeup, Destructor, stop, StopResume, Join
<1>6. ASSUME Counting \/ Drop PROVE KeepersAlive' = {}
  <2>1. UNCHANGED <<queues, work>>
    BY <1>6 DEF Counting, ReadUseCount, ReadImplCount, Continue, Drop
  <2> QED
    BY <1>4, <2>1
<1>7. ASSUME Tick \/ UNCHANGED vars PROVE KeepersAlive' = {}
  <2>1. UNCHANGED <<queues, work>>
    BY <1>7 DEF Tick, vars
  <2> QED
    BY <1>4, <2>1
<1> QED
  BY <1>1, <1>2, <1>3, <1>5, <1>6, <1>7 DEF Dead, Next

\* The destructor begins on a thread that gives up the last handle: it moves alone,
\* the scheduler was owned before, and is not any more.
LEMMA LastHandle ==
  ASSUME TypeInv, OnePlace, [Next]_vars, NEW p \in Procs,
         pc[p] \notin DestructorPC, pc'[p] \in DestructorPC
  PROVE  /\ ~Dead /\ Dead'
         /\ \A q \in Procs \ {p} : pc'[q] = pc[q]
<1> USE SchedulerAssumption
<1> pc \in [Procs -> PCs] /\ Client \in Procs
  BY DEF TypeInv, TypeButCounters, Procs
<1>k. IsFiniteSet(KeepersAlive) /\ Cardinality(KeepersAlive) \in Nat
  <2>1. KeepersAlive \subseteq Works
    BY DEF KeepersAlive
  <2> QED
    BY <2>1, FS_Subset, FS_CardinalityType
<1>1. (p \in Threads /\ Release(p)) \/ (p = Client /\ Drop)
  <2>1. ~Destructor(p)
    BY DEF Destructor, stop, StopResume, Join, DestructorPC
  <2>2. CASE p \in Threads /\ Worker(p)
    <3>1. ASSUME ~Release(p) PROVE FALSE
      <4>1. CASE Exit(p)
        <5> DEFINE at == [pc EXCEPT ![p] = "exited"]
        <5>1. at \in [Procs -> PCs] /\ pc' \in NotifyOne(at) /\ at[p] = "exited"
          BY <4>1 DEF Exit, PCs, WorkerPC
        <5>2. Woken(at, pc')
          BY <5>1, NotifyOneWakes
        <5> HIDE DEF at
        <5> QED
          BY <5>1, <5>2 DEF Woken, DestructorPC
      <4>2. CASE ~Exit(p)
        BY <2>2, <3>1, <4>2 DEF Worker, Wait, WaitUntil, TakeDue, TakeFront, Spin, Timeout,
           Begin, Finish, Goto, DestructorPC
      <4> QED
        BY <4>1, <4>2
    <3> QED
      BY <2>2, <3>1
  <2>3. CASE p = Client /\ Counting
    BY <2>3 DEF Counting, ReadUseCount, ReadImplCount, Continue, Goto, DestructorPC
  <2> QED
    BY <2>1, <2>2, <2>3, PcMoves DEF DestructorPC
<1>2. CASE p \in Threads /\ Release(p)
  <2>1. /\ work[p] \in Keepers /\ use_count = 1
        /\ UNCHANGED queues /\ Goto(p, "stop")
        /\ work' = [work EXCEPT ![p] = NoWork]
    BY <1>2 DEF Release, Goto, DestructorPC
  <2>2. work[p] \in KeepersAlive
    BY <1>2, <2>1 DEF KeepersAlive, Held
  <2>3. Cardinality(KeepersAlive) # 0
    BY <1>k, <2>2, FS_EmptySet
  <2>4. Cardinality(KeepersAlive) = 1 /\ ~ClientHolds
    BY <1>k, <2>1, <2>3 DEF use_count
  <2>5. KeepersAlive = {work[p]}
    BY <1>k, <2>2, <2>4, FS_Singleton
  <2>6. ASSUME NEW k \in KeepersAlive' PROVE FALSE
    <3>1. k \in Keepers /\ k # NoWork
      BY DEF KeepersAlive
    <3>2. CASE k \in Pending
      <4>1. k \in KeepersAlive
        BY <3>1, <3>2 DEF KeepersAlive
      <4> QED
        BY <1>2, <2>5, <3>2, <4>1 DEF OnePlace
    <3>3. CASE k \notin Pending
      <4>1. PICK u \in Threads : k = work'[u]
        BY <2>1, <3>3 DEF KeepersAlive, Pending, Held, queues
      <4>2. u # p /\ k = work[u]
        BY <1>2, <2>1, <3>1, <4>1 DEF TypeInv, TypeButCounters
      <4>3. k \in KeepersAlive
        BY <3>1, <4>2 DEF KeepersAlive, Held
      <4> QED
        BY <1>2, <2>5, <3>1, <4>2, <4>3 DEF OnePlace
    <3> QED
      BY <3>2, <3>3
  <2>7. \A q \in Procs \ {p} : pc'[q] = pc[q]
    BY <2>1 DEF Goto
  <2>8. ~ClientHolds'
    BY <1>2, <2>4, <2>7 DEF ClientHolds
  <2> QED
    BY <2>2, <2>6, <2>7, <2>8 DEF Dead
<1>3. CASE p = Client /\ Drop
  <2>1. ClientHolds /\ use_count = 1 /\ Goto(p, "stop") /\ UNCHANGED <<queues, work>>
    BY <1>3 DEF Drop, Leave, ClientHolds, Goto, DestructorPC
  <2>2. KeepersAlive = {}
    BY <1>k, <2>1, FS_EmptySet DEF use_count
  <2>3. KeepersAlive' = {}
    BY <2>1, <2>2 DEF KeepersAlive, Pending, Held, queues
  <2>4. ~ClientHolds'
    BY <1>3, <2>1 DEF ClientHolds, Goto
  <2>5. \A q \in Procs \ {p} : pc'[q] = pc[q]
    BY <2>1 DEF Goto
  <2> QED
    BY <2>1, <2>3, <2>4, <2>5 DEF Dead
<1> QED
  BY <1>1, <1>2, <1>3

LEMMA UnownedStep ==
  ASSUME TypeInv, OnePlace, DestroyedUnowned, [Next]_vars
  PROVE  DestroyedUnowned'
<1>1. ASSUME NEW p \in Procs, pc'[p] \in DestructorPC PROVE Dead'
  <2>1. CASE pc[p] \in DestructorPC
    BY <2>1, DeadStays DEF DestroyedUnowned, Dead
  <2>2. CASE pc[p] \notin DestructorPC
    BY <1>1, <2>2, LastHandle
  <2> QED
    BY <2>1, <2>2
<1>2. ASSUME NEW p \in Procs, NEW q \in Procs, pc'[p] \in DestructorPC, pc'[q] \in DestructorPC
      PROVE  q = p
  <2>1. CASE pc[p] \in DestructorPC /\ pc[q] \in DestructorPC
    BY <2>1 DEF DestroyedUnowned
  <2>2. ASSUME NEW r \in Procs, NEW s \in Procs, pc[r] \notin DestructorPC,
               pc'[r] \in DestructorPC, pc'[s] \in DestructorPC
        PROVE  s = r
    <3>1. ~Dead /\ \A o \in Procs \ {r} : pc'[o] = pc[o]
      BY <2>2, LastHandle
    <3>2. pc[s] \notin DestructorPC
      BY <3>1 DEF DestroyedUnowned, Dead
    <3> QED
      BY <2>2, <3>1, <3>2
  <2> QED
    BY <1>2, <2>1, <2>2
<1> QED
  BY <1>1, <1>2 DEF DestroyedUnowned, Dead

\* Whoever runs the destructor is alone in it, and no closure that holds the scheduler
\* is left in its queues or with a worker.
THEOREM DestructorOwnsNothing == Spec => []DestroyedUnowned
<1> DEFINE Inv == TypeInv /\ OnePlace /\ IdleHands /\ DestroyedUnowned
<1>1. Init => Inv
  <2> SUFFICES ASSUME Init PROVE OnePlace /\ IdleHands /\ DestroyedUnowned
    BY TypeInit
  <2>1. Pending = {} /\ Held = {}
    BY DEF Init, Pending, Held, Range
  <2>2. OnePlace
    BY <2>1 DEF Init, OnePlace, Distinct, Range
  <2>3. IdleHands
    BY DEF Init, IdleHands
  <2>4. DestroyedUnowned
    BY DEF Init, DestroyedUnowned, DestructorPC
  <2> QED
    BY <2>2, <2>3, <2>4
<1>2. Inv /\ [Next]_vars => Inv'
  BY TypeStep, PlacesStep, IdleHandsStep, UnownedStep
<1>3. Inv => DestroyedUnowned
  OBVIOUS
<1> QED
  BY <1>1, <1>2, <1>3, PTL DEF Spec

-----------------------------------------------------------------------------
(***************************************************************************)
(* The scheduler is a WorkPool: each of its steps is one of the pool's or  *)
(* leaves the pool as it is.                                               *)
(***************************************************************************)
\* What is not delayed is due: it still has the time it began with.
DueAtOnce == \A w \in unscheduled \cup Range(queue) : time_point[w] = 0

PoolInv == TypeInv /\ OnePlace /\ IdleHands /\ DestroyedUnowned /\ DueAtOnce

InHand == {"taken", "running"}

LEMMA SameExecuting ==
  ASSUME TypeInv, [Next]_vars,
         \A t \in Threads : /\ pc'[t] \in InHand <=> pc[t] \in InHand
                            /\ pc[t] \in InHand => work'[t] = work[t]
  PROVE  Executing' = Executing
BY DEF Executing, InHand

\* Works that other threads execute do not keep t from taking one.
LEMMA RoomForOne ==
  ASSUME TypeInv, NEW t \in Threads, pc[t] \notin InHand
  PROVE  Cardinality(Executing) < Cardinality(Threads)
<1> DEFINE S == {u \in Threads : pc[u] \in InHand}
           f == [u \in S |-> work[u]]
<1>1. IsFiniteSet(Threads) /\ Cardinality(Threads) \in Nat
  BY SchedulerAssumption, FS_CardinalityType
<1>2. S \subseteq Threads \ {t}
  OBVIOUS
<1>3. IsFiniteSet(Threads \ {t}) /\ Cardinality(Threads \ {t}) = Cardinality(Threads) - 1
  BY <1>1, FS_RemoveElement
<1>4. IsFiniteSet(S) /\ Cardinality(S) <= Cardinality(Threads) - 1
  BY <1>2, <1>3, FS_Subset
<1>5. Executing = {work[u] : u \in S}
  BY DEF Executing, InHand
<1>6. f \in Surjection(S, Executing)
  BY <1>5 DEF Surjection
<1>7. IsFiniteSet(Executing) /\ Cardinality(Executing) <= Cardinality(S)
  BY <1>4, <1>6, FS_Surjection
<1>8. Cardinality(Executing) \in Nat /\ Cardinality(S) \in Nat
  BY <1>4, <1>7, FS_CardinalityType
<1> QED
  BY <1>1, <1>4, <1>7, <1>8

LEMMA DueAtOnceStep ==
  ASSUME TypeInv, OnePlace, DueAtOnce, [Next]_vars
  PROVE  DueAtOnce'
<1>1. ASSUME UNCHANGED time_point, unscheduled' \subseteq unscheduled,
             Range(queue') \subseteq Range(queue)
      PROVE  DueAtOnce'
  BY <1>1 DEF DueAtOnce
<1>2. ASSUME NEW w \in Works, NEW delay \in Delays, schedule(w, delay) PROVE DueAtOnce'
  <2>1. w \in unscheduled /\ unscheduled' = unscheduled \ {w}
    BY <1>2 DEF schedule
  <2>2. CASE active /\ delay # 0
    <3>1. w \notin Range(queue)
      BY <2>1 DEF OnePlace, Pending
    <3>2. queue' = queue /\ time_point' = [time_point EXCEPT ![w] = clock + delay]
      BY <1>2, <2>2 DEF schedule
    <3>3. \A v \in Works \ {w} : time_point'[v] = time_point[v]
      BY <3>2 DEF TypeInv, TypeButCounters
    <3>4. unscheduled' \cup Range(queue') \subseteq Works \ {w}
      BY <2>1, <3>1, <3>2 DEF Range, TypeInv, TypeButCounters
    <3> QED
      BY <2>1, <3>2, <3>3, <3>4 DEF DueAtOnce
  <2>3. CASE active /\ delay = 0
    <3>1. queue' = Append(queue, w) /\ time_point' = time_point
      BY <1>2, <2>3 DEF schedule
    <3>2. Range(queue') = Range(queue) \cup {w}
      BY <3>1, AppendPlaces DEF TypeInv, TypeButCounters
    <3> QED
      BY <2>1, <3>1, <3>2 DEF DueAtOnce
  <2>4. CASE ~active
    <3>1. UNCHANGED queues
      BY <1>2, <2>4 DEF schedule
    <3> QED
      BY <1>1, <2>1, <3>1 DEF queues
  <2> QED
    BY <2>2, <2>3, <2>4
<1>3. ASSUME NEW t \in Threads, Worker(t) PROVE DueAtOnce'
  <2>1. CASE TakeFront(t)
    <3>1. queue \in Seq(Works) /\ queue # <<>> /\ Distinct(queue) /\ queue' = Tail(queue)
      BY <2>1 DEF TakeFront, TypeInv, TypeButCounters, OnePlace
    <3>2. Range(queue') \subseteq Range(queue)
      BY <3>1, TailPlaces
    <3> QED
      BY <1>1, <2>1, <3>2 DEF TakeFront, history
  <2>2. CASE ~TakeFront(t)
    <3>1. UNCHANGED <<queue, time_point, unscheduled>>
      BY <1>3, <2>2 DEF Worker, Wait, WaitUntil, TakeDue, Exit, Spin, Timeout, Begin, Finish,
         Release, queues, history
    <3> QED
      BY <1>1, <3>1
  <2> QED
    BY <2>1, <2>2
<1>4. ASSUME UNCHANGED <<queues, history>> PROVE DueAtOnce'
  BY <1>1, <1>4 DEF queues, history
<1>5. ASSUME NEW p \in Procs, SpuriousWakeup(p) \/ Destructor(p) PROVE DueAtOnce'
  BY <1>4, <1>5 DEF SpuriousWakeup, Destructor, stop, StopResume, Join
<1>6. CASE Counting \/ Drop
  BY <1>4, <1>6 DEF Counting, ReadUseCount, ReadImplCount, Continue, Drop
<1>7. CASE Tick \/ UNCHANGED vars
  BY <1>4, <1>7 DEF Tick, vars
<1> QED
  BY <1>2, <1>3, <1>5, <1>6, <1>7 DEF Next

\* What the pool sees of a step that neither schedules, takes nor ends a work, nor stops.
PoolVars == <<active, clock, unscheduled, Pending, time_point, Executing, finished>>

LEMMA PoolStutters ==
  ASSUME TypeInv, [Next]_vars, UNCHANGED <<active, clock, queues, history>>,
         \A t \in Threads : /\ pc'[t] \in InHand <=> pc[t] \in InHand
                            /\ pc[t] \in InHand => work'[t] = work[t]
  PROVE  UNCHANGED PoolVars
<1>1. Executing' = Executing
  BY SameExecuting
<1>2. Pending' = Pending /\ UNCHANGED <<active, clock, unscheduled, time_point, finished>>
  BY DEF Pending, queues, history
<1> QED
  BY <1>1, <1>2 DEF PoolVars

LEMMA TakeStarts ==
  ASSUME PoolInv, NEW t \in Threads, TakeDue(t) \/ TakeFront(t)
  PROVE  \E w \in Works : Pool!Start(w)
<1> USE SchedulerAssumption DEF PoolInv
<1>1. PICK w \in Pending :
        /\ work' = [work EXCEPT ![t] = w] /\ Pending' = Pending \ {w}
        /\ clock >= time_point[w]
  <2>1. CASE TakeDue(t)
    <3>1. PICK w \in DueTops : /\ work' = [work EXCEPT ![t] = w]
                               /\ scheduled_queue' = scheduled_queue \ {w}
      BY <2>1 DEF TakeDue
    <3>2. queue' = queue /\ w \in scheduled_queue /\ clock >= time_point[w]
      BY <2>1 DEF TakeDue, DueTops, Tops
    <3>3. w \in Pending /\ w \notin Range(queue)
      BY <3>2 DEF Pending, OnePlace
    <3>4. Pending' = Pending \ {w}
      BY <3>1, <3>2, <3>3 DEF Pending
    <3> QED
      BY <3>1, <3>2, <3>3, <3>4
  <2>2. CASE TakeFront(t)
    <3> DEFINE w == Head(queue)
    <3>1. /\ queue \in Seq(Works) /\ queue # <<>> /\ Distinct(queue)
          /\ queue' = Tail(queue) /\ scheduled_queue' = scheduled_queue
          /\ work' = [work EXCEPT ![t] = w]
      BY <2>2 DEF TakeFront, TypeInv, TypeButCounters, OnePlace
    <3>2. w \in Range(queue) /\ Range(queue') = Range(queue) \ {w}
      BY <3>1, TailPlaces
    <3> HIDE DEF w
    <3>3. w \in Pending /\ w \notin scheduled_queue
      BY <3>2 DEF Pending, OnePlace
    <3>4. Pending' = Pending \ {w}
      BY <3>1, <3>2, <3>3 DEF Pending
    <3>5. clock >= time_point[w]
      BY <3>2 DEF DueAtOnce, TypeInv, TypeButCounters
    <3> QED
      BY <3>1, <3>3, <3>4, <3>5
  <2> QED
    BY <2>1, <2>2
<1>2. /\ active /\ pc[t] \notin InHand /\ Goto(t, "taken")
      /\ UNCHANGED <<active, clock, unscheduled, time_point, finished>>
  BY DEF TakeDue, TakeFront, InNext, InHand, history
<1>3. Cardinality(Executing) < Cardinality(Threads)
  BY <1>2, RoomForOne
<1>4. Executing' = Executing \cup {w}
  <2>1. \A u \in Threads : /\ pc'[u] = IF u = t THEN "taken" ELSE pc[u]
                           /\ work'[u] = IF u = t THEN w ELSE work[u]
    BY <1>1, <1>2 DEF Goto, Procs, TypeInv, TypeButCounters
  <2> QED
    BY <1>2, <2>1 DEF Executing, InHand
<1>5. w \in Works
  BY DEF Pending, Range, TypeInv, TypeButCounters
<1>6. time_point[w] <= clock
  BY <1>1, <1>5 DEF TypeInv, TypeButCounters
<1>7. Pool!Cardinality(Executing) < Cardinality(Threads)
  BY <1>3 DEF Pool!Cardinality, Cardinality
<1>8. Pool!Start(w)
  BY <1>1, <1>2, <1>4, <1>6, <1>7 DEF Pool!Start
<1> QED
  BY <1>5, <1>8

LEMMA FinishEnds ==
  ASSUME PoolInv, NEW t \in Threads, Finish(t)
  PROVE  \E w \in Works : Pool!End(w)
<1> USE SchedulerAssumption DEF PoolInv
<1> DEFINE w == work[t]
<1>1. w \in Works /\ w # NoWork /\ w \in Executing
  BY DEF Finish, TypeInv, HasWork, Executing
<1>2. /\ finished' = finished \cup {w} /\ work' = work
      /\ UNCHANGED <<active, clock, queues, unscheduled>>
  BY DEF Finish
<1>3. \A u \in Threads : pc'[u] = IF u = t THEN "spent" ELSE pc[u]
  BY DEF Finish, Goto, Procs, TypeInv, TypeButCounters
<1>4. \A u \in Threads : work[u] = w => u = t
  BY <1>1 DEF OnePlace
<1>5. Executing' = Executing \ {w}
  BY <1>2, <1>3, <1>4 DEF Executing
<1>6. Pending' = Pending /\ time_point' = time_point
  BY <1>2 DEF Pending, queues
<1> QED
  BY <1>1, <1>2, <1>5, <1>6 DEF Pool!End

LEMMA ScheduleSubmits ==
  ASSUME PoolInv, [Next]_vars, NEW w \in Works, NEW delay \in Delays, schedule(w, delay)
  PROVE  Pool!Submit(w, delay)
<1> USE SchedulerAssumption DEF PoolInv
<1>1. /\ w \in unscheduled /\ clock + delay <= Horizon /\ unscheduled' = unscheduled \ {w}
      /\ UNCHANGED <<active, clock, work, finished>>
      /\ pc' = pc \/ pc' \in NotifyOne(pc)
  BY DEF schedule
<1>2. Executing' = Executing
  <2>1. pc' = pc \/ Woken(pc, pc')
    BY <1>1, NotifyOneWakes DEF TypeInv, TypeButCounters
  <2>2. \A t \in Threads : pc'[t] \in InHand <=> pc[t] \in InHand
    BY <2>1 DEF Woken, Procs, InHand
  <2> QED
    BY <1>1, <2>2, SameExecuting
<1>3. CASE ~active
  <2>1. Pending' = Pending /\ time_point' = time_point
    BY <1>3 DEF schedule, queues, Pending
  <2> QED
    BY <1>1, <1>2, <1>3, <2>1 DEF Pool!Submit
<1>4. CASE active
  <2>1. Pending' = Pending \cup {w}
    <3>1. CASE delay # 0
      BY <1>4, <3>1 DEF schedule, Pending
    <3>2. CASE delay = 0
      <4>1. queue' = Append(queue, w) /\ scheduled_queue' = scheduled_queue
        BY <1>4, <3>2 DEF schedule
      <4>2. Range(queue') = Range(queue) \cup {w}
        BY <4>1, AppendPlaces DEF TypeInv, TypeButCounters
      <4> QED
        BY <4>1, <4>2 DEF Pending
    <3> QED
      BY <3>1, <3>2
  <2>2. time_point' = IF delay = 0 THEN time_point ELSE [time_point EXCEPT ![w] = clock + delay]
    BY <1>4 DEF schedule
  <2> QED
    BY <1>1, <1>2, <1>4, <2>1, <2>2 DEF Pool!Submit
<1> QED
  BY <1>3, <1>4

LEMMA WorkerStep ==
  ASSUME PoolInv, [Next]_vars, NEW t \in Threads, Worker(t)
  PROVE  Pool!Next \/ UNCHANGED PoolVars
<1> USE SchedulerAssumption DEF PoolInv
<1> t \in Procs /\ pc \in [Procs -> PCs]
  BY DEF Procs, TypeInv, TypeButCounters
<1>1. CASE TakeDue(t) \/ TakeFront(t)
  BY <1>1, TakeStarts DEF Pool!Next
<1>2. CASE Finish(t)
  BY <1>2, FinishEnds DEF Pool!Next
<1>3. CASE Exit(t)
  <2> DEFINE at == [pc EXCEPT ![t] = "exited"]
  <2>1. at \in [Procs -> PCs] /\ pc' \in NotifyOne(at)
    BY <1>3 DEF Exit, PCs, WorkerPC
  <2>2. \A u \in Threads : at[u] \in InHand <=> pc[u] \in InHand
    BY <1>3 DEF Exit, InNext, InHand, Procs
  <2>3. Woken(at, pc')
    BY <2>1, NotifyOneWakes
  <2> HIDE DEF at
  <2>4. \A u \in Threads : pc'[u] \in InHand <=> pc[u] \in InHand
    BY <2>2, <2>3 DEF Woken, Procs, InHand
  <2> QED
    BY <1>3, <2>4, PoolStutters DEF Exit
<1>4. CASE Wait(t) \/ WaitUntil(t) \/ Spin(t) \/ Timeout(t) \/ Begin(t) \/ Release(t)
  <2>1. UNCHANGED <<active, clock, queues, history>>
    BY <1>4 DEF Wait, WaitUntil, Spin, Timeout, Begin, Release
  <2>2. \E to : Goto(t, to) /\ (to \in InHand <=> pc[t] \in InHand)
    BY <1>4 DEF Wait, WaitUntil, Spin, Timeout, Begin, Release, InNext, InHand
  <2>3. \A u \in Threads : pc'[u] \in InHand <=> pc[u] \in InHand
    BY <2>2 DEF Goto, Procs
  <2>4. \A u \in Threads : pc[u] \in InHand => work'[u] = work[u]
    BY <1>4 DEF Wait, WaitUntil, Spin, Timeout, Begin, Release, InHand, TypeInv,
       TypeButCounters
  <2> QED
    BY <2>1, <2>3, <2>4, PoolStutters
<1> QED
  BY <1>1, <1>2, <1>3, <1>4 DEF Worker

LEMMA DestructorStep ==
  ASSUME PoolInv, [Next]_vars, NEW p \in Procs, SpuriousWakeup(p) \/ Destructor(p)
  PROVE  Pool!Next \/ UNCHANGED PoolVars
<1> USE SchedulerAssumption DEF PoolInv
<1> pc \in [Procs -> PCs]
  BY DEF TypeInv, TypeButCounters
<1>1. \A t \in Threads : pc'[t] \in InHand <=> pc[t] \in InHand
  <2>1. CASE SpuriousWakeup(p)
    <3>1. Woken(pc, pc')
      BY <2>1, AwakeWakes DEF SpuriousWakeup
    <3> QED
      BY <3>1 DEF Woken, Procs, InHand
  <2>2. CASE stop(p)
    <3>1. Woken(pc, NotifyAll(pc))
      BY AwakeWakes DEF NotifyAll
    <3>2. /\ pc[p] = "stop" /\ pc'[p] \in {"join", "stop_wait"}
          /\ \A q \in Procs \ {p} : pc'[q] = NotifyAll(pc)[q]
      BY <2>2, <3>1 DEF stop, Woken
    <3> QED
      BY <3>1, <3>2 DEF Woken, Procs, InHand
  <2>3. CASE StopResume(p) \/ Join(p)
    BY <2>3 DEF StopResume, Join, Goto, InHand, Procs
  <2> QED
    BY <2>1, <2>2, <2>3 DEF Destructor
<1>2. CASE stop(p) /\ active
  <2>1. /\ active' = FALSE /\ Executing' = Executing
    <3>1. work' = work
      BY <1>2 DEF stop
    <3> QED
      BY <1>1, <1>2, <3>1, SameExecuting DEF stop
  <2>2. /\ Pending' = Pending
        /\ UNCHANGED <<clock, unscheduled, time_point, finished>>
    BY <1>2 DEF stop, queues, history, Pending
  <2>3. pc[p] \in DestructorPC
    BY <1>2 DEF stop, DestructorPC
  <2>4. Keepers \cap (Pending \cup Executing) = {}
    BY <2>3 DEF DestroyedUnowned, KeepersAlive, Executing, Held
  <2> QED
    BY <1>2, <2>1, <2>2, <2>4 DEF Pool!Next, Pool!Close
<1>3. CASE ~(stop(p) /\ active)
  <2>1. UNCHANGED <<active, clock, queues, history, work>>
    BY <1>3 DEF SpuriousWakeup, Destructor, stop, StopResume, Join, TypeInv, TypeButCounters
  <2> QED
    BY <1>1, <2>1, PoolStutters
<1> QED
  BY <1>2, <1>3

LEMMA PoolStep == PoolInv /\ [Next]_vars => [Pool!Next]_PoolVars
<1> SUFFICES ASSUME PoolInv, [Next]_vars PROVE Pool!Next \/ UNCHANGED PoolVars
  OBVIOUS
<1>1. ASSUME NEW w \in Works, NEW delay \in Delays, schedule(w, delay) PROVE Pool!Next
  BY <1>1, ScheduleSubmits DEF Pool!Next
<1>2. ASSUME Counting \/ Drop PROVE UNCHANGED PoolVars
  <2>1. UNCHANGED <<active, clock, queues, history, work>>
    BY <1>2 DEF Counting, ReadUseCount, ReadImplCount, Continue, Drop
  <2>2. \A t \in Threads : pc'[t] = pc[t]
    BY <1>2, SchedulerAssumption DEF Counting, ReadUseCount, ReadImplCount, Continue, Drop,
       Goto, Procs, PoolInv, TypeInv, TypeButCounters
  <2> QED
    BY <2>1, <2>2, PoolStutters DEF PoolInv
<1>3. ASSUME Tick PROVE Pool!Next
  <2>1. Pending' = Pending /\ Executing' = Executing
    BY <1>3 DEF Tick, queues, Pending, Executing
  <2> QED
    BY <1>3, <2>1 DEF Tick, queues, history, Pool!Next, Pool!Tick
<1>4. ASSUME UNCHANGED vars PROVE UNCHANGED PoolVars
  BY <1>4 DEF vars, PoolVars, queues, history, Pending, Executing
<1> QED
  BY <1>1, <1>2, <1>3, <1>4, WorkerStep, DestructorStep DEF Next

\* The scheduler implements WorkPool, but for its fairness: a work is executed once, not
\* before its delay has passed, by one of as many workers as there are threads, and the
\* pool closes on no work that holds it.
THEOREM ImplementsPool == Spec => Pool!Spec
<1>1. Init => PoolInv /\ Pool!Init
  <2> SUFFICES ASSUME Init PROVE PoolInv /\ Pool!Init
    OBVIOUS
  <2>1. Pending = {} /\ Held = {} /\ Executing = {}
    BY DEF Init, Pending, Held, Range, Executing, Procs
  <2>2. OnePlace /\ IdleHands
    BY <2>1 DEF Init, OnePlace, Distinct, Range, IdleHands
  <2>3. DestroyedUnowned
    BY DEF Init, DestroyedUnowned, DestructorPC
  <2>4. DueAtOnce
    BY DEF Init, DueAtOnce, Range
  <2>5. Pool!Init
    BY <2>1 DEF Init, Pool!Init
  <2> QED
    BY <2>2, <2>3, <2>4, <2>5, TypeInit DEF PoolInv
<1>2. PoolInv /\ [Next]_vars => PoolInv'
  BY TypeStep, PlacesStep, IdleHandsStep, UnownedStep, DueAtOnceStep DEF PoolInv
<1>3. PoolInv /\ [Next]_vars => [Pool!Next]_(Pool!vars)
  BY PoolStep DEF PoolVars, Pool!vars
<1> QED
  BY <1>1, <1>2, <1>3, PTL DEF Spec, Pool!Spec
=============================================================================
