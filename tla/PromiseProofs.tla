--------------------------- MODULE PromiseProofs ---------------------------
(***************************************************************************)
(* Proofs about module Promise, for any number of threads, promises and    *)
(* handlers.                                                               *)
(***************************************************************************)
EXTENDS Promise, SequenceTheorems, TLAPS

\* The jobs of callbacks are behind those there were.
LEMMA JobsBehind ==
  ASSUME NEW old \in Seq(Job), NEW callbacks \in Seq(Callback), NEW r \in Results
  PROVE  /\ old \o JobsOf(callbacks, r) \in Seq(Job)
         /\ Len(old \o JobsOf(callbacks, r)) = Len(old) + Len(callbacks)
         /\ \A i \in 1 .. Len(old) : (old \o JobsOf(callbacks, r))[i] = old[i]
         /\ \A i \in 1 .. Len(callbacks) :
              (old \o JobsOf(callbacks, r))[Len(old) + i] = [callback |-> callbacks[i], result |-> r]
<1> DEFINE new == JobsOf(callbacks, r)
<1>1. /\ DOMAIN callbacks = 1 .. Len(callbacks) /\ Len(callbacks) \in Nat
      /\ \A i \in 1 .. Len(callbacks) : callbacks[i] \in Callback
  BY ElementOfSeq, LenProperties
<1>2. new \in [1 .. Len(callbacks) -> Job]
  BY <1>1 DEF JobsOf, Job
<1>3. new \in Seq(Job)
  BY <1>1, <1>2, SeqDef
<1>4. Len(new) = Len(callbacks)
  BY <1>1, <1>2, <1>3, LenProperties
<1>5. \A i \in 1 .. Len(callbacks) : new[i] = [callback |-> callbacks[i], result |-> r]
  BY <1>1 DEF JobsOf
<1>6. Len(old) \in Nat
  BY LenProperties
<1> HIDE DEF new
<1>7. /\ old \o new \in Seq(Job)
      /\ Len(old \o new) = Len(old) + Len(new)
      /\ \A i \in 1 .. Len(old) + Len(new) :
           (old \o new)[i] = IF i <= Len(old) THEN old[i] ELSE new[i - Len(old)]
  BY <1>3, ConcatProperties
<1>8. \A i \in 1 .. Len(callbacks) : (old \o new)[Len(old) + i] = new[i]
  BY <1>1, <1>4, <1>6, <1>7
<1>9. \A i \in 1 .. Len(old) : (old \o new)[i] = old[i]
  BY <1>1, <1>4, <1>6, <1>7
<1> QED
  BY <1>4, <1>5, <1>7, <1>8, <1>9 DEF new

-----------------------------------------------------------------------------
(***************************************************************************)
(* Type correctness.                                                       *)
(***************************************************************************)
Typed == /\ result \in [Promises -> Results]
         /\ value_callbacks \in [Promises -> Seq(Callback)]
         /\ error_callbacks \in [Promises -> Seq(Callback)]
         /\ jobs \in Seq(Job)

LEMMA ScheduleType ==
  ASSUME Typed, NEW p \in Promises, NEW r \in Results,
         NEW vs \in Seq(Callback), NEW es \in Seq(Callback),
         schedule_callbacks(p, r, vs, es)
  PROVE  /\ value_callbacks' \in [Promises -> Seq(Callback)]
         /\ error_callbacks' \in [Promises -> Seq(Callback)]
         /\ jobs' \in Seq(Job)
<1>1. <<>> \in Seq(Callback)
  BY EmptySeq
<1>2. jobs \o JobsOf(vs, r) \in Seq(Job) /\ jobs \o JobsOf(es, r) \in Seq(Job)
  BY JobsBehind DEF Typed
<1>3. jobs' \in Seq(Job)
  BY <1>2 DEF schedule_callbacks, Typed
<1>4. (IF r = Undefined THEN vs ELSE <<>>) \in Seq(Callback)
  BY <1>1
<1>5. (IF r = Undefined THEN es ELSE <<>>) \in Seq(Callback)
  BY <1>1
<1> QED
  BY <1>3, <1>4, <1>5 DEF schedule_callbacks, Typed

LEMMA SetType ==
  ASSUME Typed, NEW p \in Promises, NEW r \in Results, set(p, r)
  PROVE  Typed'
<1>1. CASE result[p] = Undefined /\ schedule_callbacks(p, r, value_callbacks[p], error_callbacks[p])
            /\ result' = [result EXCEPT ![p] = r]
  <2>1. value_callbacks[p] \in Seq(Callback) /\ error_callbacks[p] \in Seq(Callback)
    BY DEF Typed
  <2> QED
    BY <1>1, <2>1, ScheduleType DEF Typed
<1>2. CASE UNCHANGED <<result, jobs, value_callbacks, error_callbacks>>
  BY <1>2 DEF Typed
<1> QED
  BY <1>1, <1>2 DEF set

LEMMA RegisterType ==
  ASSUME Typed, NEW p \in Promises, NEW values \in Seq(Callback), NEW errors \in Seq(Callback),
         register(p, values, errors)
  PROVE  Typed'
<1> DEFINE vs == value_callbacks[p] \o values
           es == error_callbacks[p] \o errors
<1>1. vs \in Seq(Callback) /\ es \in Seq(Callback) /\ result[p] \in Results
  BY ConcatProperties DEF Typed
<1>2. schedule_callbacks(p, result[p], vs, es) /\ result' = result
  BY DEF register
<1> HIDE DEF vs, es
<1> QED
  BY <1>1, <1>2, ScheduleType DEF Typed

\* The callbacks of the four kinds go where they belong.
LEMMA CallbackTypes ==
  /\ <<>> \in Seq(Callback)
  /\ \A c \in Promises, tag \in {"then", "chain", "forward", "adopt"} :
       Cb(tag, c) \in Callback /\ <<Cb(tag, c)>> \in Seq(Callback)
  /\ \A h \in Handlers : <<Cb("handle", h)>> \in Seq(Callback)
  /\ <<Cb("discard", NoPromise)>> \in Seq(Callback)
<1>1. \A cb \in Callback : <<cb>> \in Seq(Callback)
  OBVIOUS
<1>2. \A c \in Promises, tag \in {"then", "chain", "forward", "adopt"} : Cb(tag, c) \in Callback
  BY DEF Cb, Callback
<1>3. \A h \in Handlers : Cb("handle", h) \in Callback
  BY DEF Cb, Callback
<1>4. Cb("discard", NoPromise) \in Callback
  BY DEF Cb, Callback
<1> QED
  BY <1>1, <1>2, <1>3, <1>4, EmptySeq

\* A job in execution is typed.
LEMMA RunsType ==
  ASSUME TypeOK, NEW t \in Threads, NEW tags, Runs(t, tags)
  PROVE  /\ running[t] \in Job
         /\ running[t].result \in Results
         /\ running[t].callback \in Callback
         /\ tags \subseteq {"then", "chain", "forward", "adopt"} => running[t].callback.to \in Promises
         /\ tags = {"handle"} => running[t].callback.to \in Handlers
<1>1. running[t] \in Job
  BY DEF Runs, TypeOK
<1>2. running[t].callback \in Callback /\ running[t].result \in Results
  BY <1>1 DEF Job
<1>3. tags \subseteq {"then", "chain", "forward", "adopt"} => running[t].callback.to \in Promises
  BY <1>2 DEF Runs, Callback
<1>4. tags = {"handle"} => running[t].callback.to \in Handlers
  BY <1>2 DEF Runs, Callback
<1> QED
  BY <1>1, <1>2, <1>3, <1>4

LEMMA TypeStep == TypeOK /\ [Next]_vars => TypeOK'
<1> SUFFICES ASSUME TypeOK, [Next]_vars PROVE TypeOK'
  OBVIOUS
<1> USE PromiseAssumption DEF PromiseAssumption
<1>0. Typed
  BY DEF TypeOK, Typed
<1>1. ASSUME NEW p \in Promises, NEW r \in Results, set_result(p, r) PROVE TypeOK'
  <2>1. Typed'
    BY <1>0, <1>1, SetType DEF set_result
  <2> QED
    BY <1>1, <2>1 DEF set_result, TypeOK, Typed
<1>2. ASSUME NEW p \in Promises, NEW c \in Promises, NEW tag \in {"then", "chain"}, then(p, c, tag)
      PROVE  TypeOK'
  <2>1. Typed'
    BY <1>0, <1>2, RegisterType, CallbackTypes DEF then
  <2>2. parent' \in [Promises \cup Handlers -> Promises \cup {NoPromise}]
    BY <1>2 DEF then, TypeOK
  <2> QED
    BY <1>2, <2>1, <2>2 DEF then, TypeOK, Typed
<1>3. ASSUME NEW p \in Promises, NEW h \in Handlers, fail(p, h) PROVE TypeOK'
  <2>1. Typed'
    BY <1>0, <1>3, RegisterType, CallbackTypes DEF fail
  <2>2. parent' \in [Promises \cup Handlers -> Promises \cup {NoPromise}]
    BY <1>3 DEF fail, TypeOK
  <2> QED
    BY <1>3, <2>1, <2>2 DEF fail, TypeOK, Typed
<1>4. ASSUME NEW proc \in Procs, NEW p \in Promises, NEW q \in Promises, FollowThen(proc, p, q)
      PROVE  /\ Typed'
             /\ following' \in [Procs -> (Promises \X Promises) \cup {<<>>}]
             /\ followed' \in [Promises -> Promises \cup {NoPromise}]
  <2>1. Typed'
    BY <1>0, <1>4, RegisterType, CallbackTypes DEF FollowThen
  <2>2. following' \in [Procs -> (Promises \X Promises) \cup {<<>>}]
    BY <1>4 DEF FollowThen, TypeOK
  <2>3. followed' \in [Promises -> Promises \cup {NoPromise}]
    BY <1>4 DEF FollowThen, TypeOK
  <2> QED
    BY <2>1, <2>2, <2>3
<1>5. ASSUME NEW p \in Promises, NEW q \in Promises, set_result_from_promise(p, q) PROVE TypeOK'
  <2>1. Client \in Procs
    BY DEF Procs
  <2> QED
    BY <1>4, <1>5, <2>1 DEF set_result_from_promise, TypeOK, Typed
<1>6. ASSUME NEW proc \in Procs, FollowFail(proc) PROVE TypeOK'
  <2>1. following[proc][1] \in Promises /\ following[proc][2] \in Promises
    BY <1>6 DEF FollowFail, TypeOK
  <2>2. Typed'
    BY <1>0, <1>6, <2>1, RegisterType, CallbackTypes DEF FollowFail
  <2>3. running' \in [Threads -> Job \cup {NoJob}]
    BY <1>6 DEF FollowFail, TypeOK
  <2>4. following' \in [Procs -> (Promises \X Promises) \cup {<<>>}]
    BY <1>6 DEF FollowFail, TypeOK
  <2> QED
    BY <1>6, <2>2, <2>3, <2>4 DEF FollowFail, TypeOK, Typed
<1>7. ASSUME NEW t \in Threads, TakeJob(t) PROVE TypeOK'
  <2>1. Head(jobs) \in Job /\ Tail(jobs) \in Seq(Job)
    BY <1>7, HeadTailProperties DEF TakeJob, TypeOK
  <2>2. running' \in [Threads -> Job \cup {NoJob}]
    BY <1>7, <2>1 DEF TakeJob, TypeOK
  <2> QED
    BY <1>7, <2>1, <2>2 DEF TakeJob, TypeOK
<1>8. ASSUME NEW t \in Threads, running[t].callback.to \in Promises \cup Handlers, Called(t)
      PROVE  ran' \in [Promises \cup Handlers -> Nat]
  BY <1>8 DEF Called, TypeOK
<1>9. ASSUME NEW t \in Threads, Ends(t) PROVE running' \in [Threads -> Job \cup {NoJob}]
  BY <1>9 DEF Ends, TypeOK
<1>10. ASSUME NEW t \in Threads, RunThen(t) \/ RunForward(t) \/ RunAdopt(t) PROVE TypeOK'
  <2>1. running[t].callback.to \in Promises /\ running[t].result \in Results
    BY <1>10, RunsType DEF RunThen, RunForward, RunAdopt
  <2>2. \E r \in Results : set(running[t].callback.to, r)
    BY <1>10, <2>1 DEF RunThen, RunForward, RunAdopt
  <2>3. Typed'
    BY <1>0, <2>1, <2>2, SetType
  <2>4. running' \in [Threads -> Job \cup {NoJob}] /\ ran' \in [Promises \cup Handlers -> Nat]
    BY <1>8, <1>9, <1>10, <2>1 DEF RunThen, RunForward, RunAdopt, TypeOK
  <2>5. UNCHANGED <<following, parent, followed>>
    BY <1>10 DEF RunThen, RunForward, RunAdopt
  <2> QED
    BY <2>3, <2>4, <2>5 DEF TypeOK, Typed
<1>11. ASSUME NEW t \in Threads, RunChain(t) PROVE TypeOK'
  <2>1. running[t].callback.to \in Promises
    BY <1>11, RunsType DEF RunChain
  <2>2. PICK q \in Promises : FollowThen(t, running[t].callback.to, q)
    BY <1>11 DEF RunChain, Created
  <2>3. t \in Procs
    BY DEF Procs
  <2>4. /\ Typed'
        /\ following' \in [Procs -> (Promises \X Promises) \cup {<<>>}]
        /\ followed' \in [Promises -> Promises \cup {NoPromise}]
    BY <1>4, <2>1, <2>2, <2>3
  <2> QED
    BY <1>8, <1>11, <2>1, <2>4 DEF RunChain, TypeOK, Typed
<1>12. ASSUME NEW t \in Threads, RunHandle(t) \/ RunDiscard(t) PROVE TypeOK'
  <2>1. running' \in [Threads -> Job \cup {NoJob}] /\ ran' \in [Promises \cup Handlers -> Nat]
    BY <1>8, <1>9, <1>12, RunsType DEF RunHandle, RunDiscard, TypeOK
  <2> QED
    BY <1>12, <2>1 DEF RunHandle, RunDiscard, TypeOK
<1>13. CASE UNCHANGED vars
  BY <1>13 DEF vars, TypeOK
<1> QED
  BY <1>1, <1>2, <1>3, <1>5, <1>6, <1>7, <1>10, <1>11, <1>12, <1>13 DEF Next, Worker

LEMMA TypeInit == Init => TypeOK
  BY PromiseAssumption, EmptySeq DEF PromiseAssumption, Init, TypeOK, Results

\* Type correctness, in particular that each callback is for a promise or a handler of
\* its kind wherever it is, for any number of threads, promises and handlers.
THEOREM Typing == Spec => []TypeOK
<1>1. Init => TypeOK
  BY TypeInit
<1>2. TypeOK /\ [Next]_vars => TypeOK'
  BY TypeStep
<1> QED
  BY <1>1, <1>2, PTL DEF Spec

-----------------------------------------------------------------------------
(***************************************************************************)
(* The invariant.  A then() registers two callbacks for its promise, one   *)
(* for each kind of result, and a fail() one: these own what they are for. *)
(* A promise that was not settled has all of them still registered, each   *)
(* once; settling it moves those of one kind to the scheduler, where they  *)
(* stay the only ones for their owner until they are called.               *)
(***************************************************************************)
Own(cb) == cb.tag \in {"then", "chain", "forward", "handle"}

SameOwner(a, b) == Own(a) /\ Own(b) /\ a.to = b.to

Distinct(callbacks) ==
  \A i, j \in DOMAIN callbacks : SameOwner(callbacks[i], callbacks[j]) => i = j

\* What is true of a callback of promise p, given which promises are whose parents and
\* which follow which.
CallbackOk(p, cb, tags, par, fol) ==
  /\ Own(cb) => cb.tag \in tags /\ cb.to \notin Roots /\ par[cb.to] = p
  /\ cb.tag = "adopt" => fol[cb.to] = p

ValueOk(p, cb, par, fol) == CallbackOk(p, cb, {"then", "chain"}, par, fol)
ErrorOk(p, cb, par, fol) == CallbackOk(p, cb, {"forward", "handle"}, par, fol)

\* What is true of a callback in the scheduler: it has the result of its promise.
JobOk(job, res, par, fol) ==
  LET cb == job.callback
  IN  /\ Own(cb) => /\ cb.to \notin Roots /\ par[cb.to] # NoPromise
                    /\ job.result = res[par[cb.to]]
                    /\ job.result \in IF cb.tag \in {"then", "chain"} THEN Values ELSE Errors
      /\ cb.tag = "adopt" => /\ fol[cb.to] # NoPromise
                             /\ job.result = res[fol[cb.to]] /\ job.result # Undefined

Settling ==
  \A p \in Promises : Settled(p) => value_callbacks[p] = <<>> /\ error_callbacks[p] = <<>>

Registered ==
  \A p \in Promises :
    /\ \A i \in DOMAIN value_callbacks[p] : ValueOk(p, value_callbacks[p][i], parent, followed)
    /\ \A i \in DOMAIN error_callbacks[p] : ErrorOk(p, error_callbacks[p][i], parent, followed)
    /\ Distinct(value_callbacks[p]) /\ Distinct(error_callbacks[p])

\* A thread that has still to call its callback.
Active(t) == running[t] # NoJob /\ following[t] = <<>>

Scheduled ==
  /\ \A i \in DOMAIN jobs : JobOk(jobs[i], result, parent, followed)
  /\ \A t \in Threads : Active(t) => JobOk(running[t], result, parent, followed)
  /\ \A i, j \in DOMAIN jobs : SameOwner(jobs[i].callback, jobs[j].callback) => i = j
  /\ \A t \in Threads, i \in DOMAIN jobs :
       Active(t) => ~SameOwner(running[t].callback, jobs[i].callback)
  /\ \A t, u \in Threads :
       Active(t) /\ Active(u) /\ SameOwner(running[t].callback, running[u].callback) => t = u

Counted ==
  /\ \A x \in Promises \cup Handlers :
       \/ ran[x] = 0
       \/ ran[x] = 1 /\ parent[x] # NoPromise /\ Settled(parent[x])
  /\ \A i \in DOMAIN jobs : Own(jobs[i].callback) => ran[jobs[i].callback.to] = 0
  /\ \A t \in Threads : Active(t) /\ Own(running[t].callback) => ran[running[t].callback.to] = 0

Flow ==
  /\ \A proc \in Procs :
       following[proc] # <<>> => followed[following[proc][1]] = following[proc][2]
  /\ \A c \in Promises \ Roots : ran[c] = 0 => ~Settled(c) /\ followed[c] = NoPromise
  /\ \A c \in Promises : parent[c] # NoPromise =>
       /\ c \notin Roots
       /\ result[parent[c]] \in Errors => followed[c] = NoPromise
  /\ ResultsFlow

Inv == TypeOK /\ Settling /\ Registered /\ Scheduled /\ Counted /\ Flow

\* What is set stays: no step takes a parent, a followed promise or a result back.
Grows ==
  /\ \A x \in Promises \cup Handlers : parent[x] # NoPromise => parent'[x] = parent[x]
  /\ \A p \in Promises : followed[p] # NoPromise => followed'[p] = followed[p]
  /\ \A p \in Promises : Settled(p) => result'[p] = result[p]

\* What a step establishes that settles a promise or registers callbacks on it.
Placed ==
  /\ Settling' /\ Registered'
  /\ \A i \in DOMAIN jobs' : /\ JobOk(jobs'[i], result', parent', followed')
                             /\ Own(jobs'[i].callback) => ran[jobs'[i].callback.to] = 0
  /\ \A i, j \in DOMAIN jobs' : SameOwner(jobs'[i].callback, jobs'[j].callback) => i = j
  /\ \A t \in Threads, i \in DOMAIN jobs' :
       Active(t) => ~SameOwner(running[t].callback, jobs'[i].callback)

LEMMA ResultKinds ==
  /\ Values \cap Errors = {} /\ Undefined \notin Values /\ Undefined \notin Errors
  /\ NoPromise \notin Promises
  /\ \A r \in Results : r # Undefined /\ r \notin Values => r \in Errors
  /\ \A r \in Results : r \notin Values /\ r \notin Errors => r = Undefined
  BY PromiseAssumption DEF PromiseAssumption, Results

\* Who a callback is for.
LEMMA OwnerType ==
  ASSUME NEW cb \in Callback
  PROVE  /\ Own(cb) => cb.to \in Promises \cup Handlers
         /\ cb.tag = "adopt" => cb.to \in Promises
         /\ cb.tag \in {"then", "chain", "forward"} => cb.to \in Promises
  BY DEF Callback, Own

LEMMA OkGrows ==
  ASSUME TypeOK, Grows
  PROVE  /\ \A p \in Promises, cb \in Callback :
              /\ ValueOk(p, cb, parent, followed) => ValueOk(p, cb, parent', followed')
              /\ ErrorOk(p, cb, parent, followed) => ErrorOk(p, cb, parent', followed')
         /\ \A job \in Job :
              JobOk(job, result, parent, followed) => JobOk(job, result', parent', followed')
<1>1. ASSUME NEW p \in Promises, NEW cb \in Callback, NEW tags,
             CallbackOk(p, cb, tags, parent, followed)
      PROVE  CallbackOk(p, cb, tags, parent', followed')
  BY <1>1, OwnerType, ResultKinds DEF Grows, CallbackOk
<1>2. ASSUME NEW job \in Job, JobOk(job, result, parent, followed)
      PROVE  JobOk(job, result', parent', followed')
  <2>1. job.callback \in Callback
    BY DEF Job
  <2> DEFINE x == job.callback.to
  <2>2. ASSUME Own(job.callback)
        PROVE  parent'[x] = parent[x] /\ result'[parent[x]] = result[parent[x]]
    <3>1. x \in Promises \cup Handlers /\ parent[x] # NoPromise
      BY <1>2, <2>1, <2>2, OwnerType DEF JobOk
    <3>2. parent[x] \in Promises /\ Settled(parent[x])
      BY <1>2, <2>2, <3>1, ResultKinds DEF JobOk, Settled, TypeOK
    <3> QED
      BY <3>1, <3>2 DEF Grows
  <2>3. ASSUME job.callback.tag = "adopt"
        PROVE  followed'[x] = followed[x] /\ result'[followed[x]] = result[followed[x]]
    <3>1. x \in Promises /\ followed[x] # NoPromise
      BY <1>2, <2>1, <2>3, OwnerType DEF JobOk
    <3>2. followed[x] \in Promises /\ Settled(followed[x])
      BY <1>2, <2>3, <3>1 DEF JobOk, Settled, TypeOK
    <3> QED
      BY <3>1, <3>2 DEF Grows
  <2> QED
    BY <1>2, <2>2, <2>3 DEF JobOk
<1> QED
  BY <1>1, <1>2 DEF ValueOk, ErrorOk

-----------------------------------------------------------------------------
(***************************************************************************)
(* Scheduling callbacks: of a promise that is settled, or that a step      *)
(* settles, with those that a step registers.                              *)
(***************************************************************************)

\* The callback's owner was not called and has no callback in the scheduler: its
\* promise has no result yet, or it is new.
Fresh(cb) ==
  Own(cb) => parent[cb.to] = NoPromise \/ ~Settled(parent[cb.to])

LEMMA FreshIsNew ==
  ASSUME Inv, NEW cb \in Callback, Fresh(cb), Own(cb)
  PROVE  /\ ran[cb.to] = 0
         /\ \A i \in DOMAIN jobs : ~SameOwner(cb, jobs[i].callback)
         /\ \A t \in Threads : Active(t) => ~SameOwner(running[t].callback, cb)
<1>1. cb.to \in Promises \cup Handlers
  BY OwnerType
<1>2. ran[cb.to] = 0
  BY <1>1 DEF Inv, Counted, Fresh
<1>3. ASSUME NEW job, JobOk(job, result, parent, followed) PROVE ~SameOwner(cb, job.callback)
  BY <1>3, ResultKinds DEF JobOk, SameOwner, Fresh, Settled
<1>4. \A i \in DOMAIN jobs : JobOk(jobs[i], result, parent, followed)
  BY DEF Inv, Scheduled
<1>5. \A t \in Threads : Active(t) => JobOk(running[t], result, parent, followed)
  BY DEF Inv, Scheduled
<1>6. \A t \in Threads : Active(t) => ~SameOwner(cb, running[t].callback)
  BY <1>3, <1>5
<1> QED
  BY <1>2, <1>3, <1>4, <1>6 DEF SameOwner

\* The jobs of callbacks cbs, all for the result that p then has.
LEMMA NewJobs ==
  ASSUME Inv, Grows, NEW p \in Promises, NEW r \in Results, NEW cbs \in Seq(Callback),
         NEW tags, \/ tags = {"then", "chain"} /\ r \in Values
                   \/ tags = {"forward", "handle"} /\ r \in Errors,
         result'[p] = r,
         \A i \in DOMAIN cbs : CallbackOk(p, cbs[i], tags, parent', followed') /\ Fresh(cbs[i]),
         Distinct(cbs),
         jobs' = jobs \o JobsOf(cbs, r)
  PROVE  /\ \A i \in DOMAIN jobs' : /\ JobOk(jobs'[i], result', parent', followed')
                                    /\ Own(jobs'[i].callback) => ran[jobs'[i].callback.to] = 0
         /\ \A i, j \in DOMAIN jobs' : SameOwner(jobs'[i].callback, jobs'[j].callback) => i = j
         /\ \A t \in Threads, i \in DOMAIN jobs' :
              Active(t) => ~SameOwner(running[t].callback, jobs'[i].callback)
<1>0. TypeOK /\ Scheduled /\ Counted /\ jobs \in Seq(Job)
  BY DEF Inv, TypeOK
<1>1. /\ Len(jobs) \in Nat /\ DOMAIN jobs = 1 .. Len(jobs)
      /\ Len(cbs) \in Nat /\ DOMAIN cbs = 1 .. Len(cbs)
      /\ \A i \in DOMAIN jobs : jobs[i] \in Job /\ jobs[i].callback \in Callback
      /\ \A i \in DOMAIN cbs : cbs[i] \in Callback
  <2>1. \A i \in 1 .. Len(jobs) : jobs[i] \in Job
    BY <1>0, ElementOfSeq
  <2>2. \A i \in 1 .. Len(cbs) : cbs[i] \in Callback
    BY ElementOfSeq
  <2>3. \A job \in Job : job.callback \in Callback
    BY DEF Job
  <2> QED
    BY <1>0, <2>1, <2>2, <2>3, LenProperties
<1>2. /\ jobs' \in Seq(Job)
      /\ Len(jobs') = Len(jobs) + Len(cbs)
      /\ \A i \in 1 .. Len(jobs) : jobs'[i] = jobs[i]
      /\ \A i \in 1 .. Len(cbs) : jobs'[Len(jobs) + i] = [callback |-> cbs[i], result |-> r]
  BY <1>0, JobsBehind
<1>3. DOMAIN jobs' = 1 .. Len(jobs) + Len(cbs)
  BY <1>2, LenProperties
\* Each job is an old one or that of a callback in cbs.
<1>4. ASSUME NEW i \in DOMAIN jobs', i \notin DOMAIN jobs
      PROVE  i - Len(jobs) \in DOMAIN cbs /\ jobs'[i] = [callback |-> cbs[i - Len(jobs)], result |-> r]
  <2>1. i - Len(jobs) \in 1 .. Len(cbs) /\ i = Len(jobs) + (i - Len(jobs))
    BY <1>1, <1>3, <1>4
  <2> QED
    BY <1>1, <1>2, <2>1
<1>5. \A i \in DOMAIN jobs : jobs'[i] = jobs[i]
  BY <1>1, <1>2
<1>6. ASSUME NEW i \in DOMAIN jobs', i \notin DOMAIN jobs
      PROVE  /\ jobs'[i].callback \in Callback /\ Fresh(jobs'[i].callback)
             /\ JobOk(jobs'[i], result', parent', followed')
  <2>1. PICK k \in DOMAIN cbs : jobs'[i] = [callback |-> cbs[k], result |-> r]
    BY <1>4, <1>6
  <2>2. cbs[k] \in Callback /\ CallbackOk(p, cbs[k], tags, parent', followed') /\ Fresh(cbs[k])
    BY <1>1
  <2>3. jobs'[i].callback = cbs[k] /\ jobs'[i].result = r
    BY <2>1
  <2>4. Own(cbs[k]) => /\ cbs[k].to \notin Roots /\ parent'[cbs[k].to] = p
                       /\ r \in IF cbs[k].tag \in {"then", "chain"} THEN Values ELSE Errors
    BY <2>2 DEF CallbackOk
  <2>5. cbs[k].tag = "adopt" => followed'[cbs[k].to] = p /\ r # Undefined
    BY <2>2, ResultKinds DEF CallbackOk
  <2> QED
    BY <2>2, <2>3, <2>4, <2>5, ResultKinds DEF JobOk
<1>7. ASSUME NEW i \in DOMAIN jobs'
      PROVE  /\ JobOk(jobs'[i], result', parent', followed')
             /\ Own(jobs'[i].callback) => ran[jobs'[i].callback.to] = 0
             /\ \A t \in Threads : Active(t) => ~SameOwner(running[t].callback, jobs'[i].callback)
  <2>1. CASE i \in DOMAIN jobs
    <3>1. jobs'[i] = jobs[i] /\ jobs[i] \in Job /\ JobOk(jobs[i], result, parent, followed)
      BY <1>0, <1>1, <1>5, <2>1 DEF Scheduled
    <3>2. JobOk(jobs'[i], result', parent', followed')
      BY <1>0, <3>1, OkGrows
    <3> QED
      BY <1>0, <2>1, <3>1, <3>2 DEF Scheduled, Counted
  <2>2. CASE i \notin DOMAIN jobs
    <3>1. jobs'[i].callback \in Callback /\ Fresh(jobs'[i].callback)
          /\ JobOk(jobs'[i], result', parent', followed')
      BY <1>6, <2>2
    <3> QED
      BY <3>1, FreshIsNew DEF SameOwner
  <2> QED
    BY <2>1, <2>2
<1>8. ASSUME NEW i \in DOMAIN jobs', NEW j \in DOMAIN jobs',
             SameOwner(jobs'[i].callback, jobs'[j].callback)
      PROVE  i = j
  <2>1. CASE i \in DOMAIN jobs /\ j \in DOMAIN jobs
    BY <1>0, <1>5, <1>8, <2>1 DEF Scheduled
  <2>2. ASSUME NEW k \in DOMAIN jobs', NEW l \in DOMAIN jobs',
               k \in DOMAIN jobs, l \notin DOMAIN jobs
        PROVE  ~SameOwner(jobs'[k].callback, jobs'[l].callback)
    <3>1. jobs'[l].callback \in Callback /\ Fresh(jobs'[l].callback) /\ jobs'[k] = jobs[k]
      BY <1>5, <1>6, <2>2
    <3> QED
      BY <2>2, <3>1, FreshIsNew DEF SameOwner
  <2>3. CASE i \notin DOMAIN jobs /\ j \notin DOMAIN jobs
    <3>0. ASSUME NEW k \in DOMAIN jobs', k \notin DOMAIN jobs
          PROVE  k - Len(jobs) \in DOMAIN cbs /\ jobs'[k].callback = cbs[k - Len(jobs)]
      <4>1. jobs'[k] = [callback |-> cbs[k - Len(jobs)], result |-> r]
        BY <1>4, <3>0
      <4> QED
        BY <1>4, <3>0, <4>1
    <3>1. /\ i - Len(jobs) \in DOMAIN cbs /\ jobs'[i].callback = cbs[i - Len(jobs)]
          /\ j - Len(jobs) \in DOMAIN cbs /\ jobs'[j].callback = cbs[j - Len(jobs)]
      BY <2>3, <3>0
    <3>2. i - Len(jobs) = j - Len(jobs)
      BY <1>8, <3>1 DEF Distinct
    <3> QED
      BY <1>1, <1>3, <3>2
  <2> QED
    BY <1>8, <2>1, <2>2, <2>3 DEF SameOwner
<1> QED
  BY <1>7, <1>8

LEMMA ScheduleStep ==
  ASSUME Inv, Grows, NEW p \in Promises, NEW r \in Results,
         NEW vs \in Seq(Callback), NEW es \in Seq(Callback),
         schedule_callbacks(p, r, vs, es),
         result'[p] = r, \A q \in Promises \ {p} : result'[q] = result[q],
         \A i \in DOMAIN vs : ValueOk(p, vs[i], parent', followed') /\ Fresh(vs[i]),
         \A i \in DOMAIN es : ErrorOk(p, es[i], parent', followed') /\ Fresh(es[i]),
         Distinct(vs), Distinct(es)
  PROVE  Placed
<1> DEFINE JobsPlaced ==
      /\ \A i \in DOMAIN jobs' : /\ JobOk(jobs'[i], result', parent', followed')
                                 /\ Own(jobs'[i].callback) => ran[jobs'[i].callback.to] = 0
      /\ \A i, j \in DOMAIN jobs' : SameOwner(jobs'[i].callback, jobs'[j].callback) => i = j
      /\ \A t \in Threads, i \in DOMAIN jobs' :
           Active(t) => ~SameOwner(running[t].callback, jobs'[i].callback)
<1>0. TypeOK /\ Settling /\ Registered /\ Scheduled /\ Counted
  BY DEF Inv
<1>1. ASSUME r \in Values PROVE JobsPlaced
  <2>1. jobs' = jobs \o JobsOf(vs, r)
    BY <1>1 DEF schedule_callbacks
  <2>2. \A i \in DOMAIN vs : CallbackOk(p, vs[i], {"then", "chain"}, parent', followed') /\ Fresh(vs[i])
    BY DEF ValueOk
  <2> QED
    BY <1>1, <2>1, <2>2, NewJobs
<1>2. ASSUME r \in Errors PROVE JobsPlaced
  <2>1. jobs' = jobs \o JobsOf(es, r)
    BY <1>2, ResultKinds DEF schedule_callbacks
  <2>2. \A i \in DOMAIN es : CallbackOk(p, es[i], {"forward", "handle"}, parent', followed') /\ Fresh(es[i])
    BY DEF ErrorOk
  <2> QED
    BY <1>2, <2>1, <2>2, NewJobs
<1>3. ASSUME r = Undefined PROVE JobsPlaced
  <2>1. jobs' = jobs
    BY <1>3, ResultKinds DEF schedule_callbacks
  <2>2. \A i \in DOMAIN jobs : jobs[i] \in Job
    BY <1>0, ElementOfSeq, LenProperties DEF TypeOK
  <2>3. \A i \in DOMAIN jobs : JobOk(jobs[i], result', parent', followed')
    BY <1>0, <2>2, OkGrows DEF Scheduled
  <2> QED
    BY <1>0, <2>1, <2>3 DEF Scheduled, Counted
<1>4. JobsPlaced
  <2> HIDE DEF JobsPlaced
  <2> QED
    BY <1>1, <1>2, <1>3, ResultKinds
<1>5. \A q \in Promises :
        /\ value_callbacks'[q] = IF q = p THEN IF r = Undefined THEN vs ELSE <<>> ELSE value_callbacks[q]
        /\ error_callbacks'[q] = IF q = p THEN IF r = Undefined THEN es ELSE <<>> ELSE error_callbacks[q]
  BY <1>0 DEF schedule_callbacks, TypeOK
<1>6. Settling'
  BY <1>0, <1>5 DEF Settling, Settled
<1>7. ASSUME NEW q \in Promises
      PROVE  /\ \A i \in DOMAIN value_callbacks'[q] : ValueOk(q, value_callbacks'[q][i], parent', followed')
             /\ \A i \in DOMAIN error_callbacks'[q] : ErrorOk(q, error_callbacks'[q][i], parent', followed')
             /\ Distinct(value_callbacks'[q]) /\ Distinct(error_callbacks'[q])
  <2>1. CASE q = p /\ r = Undefined
    <3>1. value_callbacks'[q] = vs /\ error_callbacks'[q] = es
      BY <1>5, <2>1
    <3> QED
      BY <2>1, <3>1
  <2>2. CASE q = p /\ r # Undefined
    <3>1. value_callbacks'[q] = <<>> /\ error_callbacks'[q] = <<>>
      BY <1>5, <2>2
    <3>2. DOMAIN <<>> = {}
      OBVIOUS
    <3> QED
      BY <3>1, <3>2 DEF Distinct
  <2>3. CASE q # p
    <3>1. value_callbacks'[q] = value_callbacks[q] /\ error_callbacks'[q] = error_callbacks[q]
      BY <1>5, <2>3
    <3>2. \A cbs \in Seq(Callback) : \A i \in DOMAIN cbs : cbs[i] \in Callback
      BY ElementOfSeq, LenProperties
    <3>3. value_callbacks[q] \in Seq(Callback) /\ error_callbacks[q] \in Seq(Callback)
      BY <1>0 DEF TypeOK
    <3> QED
      BY <1>0, <3>1, <3>2, <3>3, OkGrows DEF Registered
  <2> QED
    BY <2>1, <2>2, <2>3
<1>8. Registered'
  BY <1>7 DEF Registered
<1> HIDE DEF JobsPlaced
<1> QED
  BY <1>4, <1>6, <1>8 DEF Placed, JobsPlaced

\* Nothing is scheduled or registered.
LEMMA NothingPlaced ==
  ASSUME Inv, Grows, UNCHANGED <<value_callbacks, error_callbacks, jobs, result, parent>>
  PROVE  Placed
<1>0. TypeOK /\ Settling /\ Registered /\ Scheduled /\ Counted
  BY DEF Inv
<1>1. \A cbs \in Seq(Callback) : \A i \in DOMAIN cbs : cbs[i] \in Callback
  BY ElementOfSeq, LenProperties
<1>2. \A q \in Promises : value_callbacks[q] \in Seq(Callback) /\ error_callbacks[q] \in Seq(Callback)
  BY <1>0 DEF TypeOK
<1>3. Registered'
  BY <1>0, <1>1, <1>2, OkGrows DEF Registered
<1>4. \A i \in DOMAIN jobs : jobs[i] \in Job
  BY <1>0, ElementOfSeq, LenProperties DEF TypeOK
<1>5. \A i \in DOMAIN jobs : JobOk(jobs[i], result', parent', followed')
  BY <1>0, <1>4, OkGrows DEF Scheduled
<1> QED
  BY <1>0, <1>3, <1>5 DEF Placed, Settling, Settled, Scheduled, Counted

LEMMA SetStep ==
  ASSUME Inv, NEW p \in Promises, NEW r \in Results, set(p, r), UNCHANGED <<parent, followed>>
  PROVE  Grows /\ Placed
<1>0. TypeOK /\ Registered
  BY DEF Inv
<1>1. CASE UNCHANGED <<result, jobs, value_callbacks, error_callbacks>>
  <2>1. Grows
    BY <1>1 DEF Grows
  <2> QED
    BY <1>1, <2>1, NothingPlaced
<1>2. CASE /\ result[p] = Undefined /\ result' = [result EXCEPT ![p] = r]
           /\ schedule_callbacks(p, r, value_callbacks[p], error_callbacks[p])
  <2>1. result'[p] = r /\ \A q \in Promises \ {p} : result'[q] = result[q]
    BY <1>0, <1>2 DEF TypeOK
  <2>2. Grows
    BY <1>2, <2>1 DEF Grows, Settled
  <2>3. value_callbacks[p] \in Seq(Callback) /\ error_callbacks[p] \in Seq(Callback)
    BY <1>0 DEF TypeOK
  <2>4. ASSUME NEW cb, NEW tags, CallbackOk(p, cb, tags, parent, followed)
        PROVE  CallbackOk(p, cb, tags, parent', followed') /\ Fresh(cb)
    BY <1>2, <2>4 DEF CallbackOk, Fresh, Settled
  <2>5. /\ \A i \in DOMAIN value_callbacks[p] : /\ ValueOk(p, value_callbacks[p][i], parent', followed')
                                                /\ Fresh(value_callbacks[p][i])
        /\ \A i \in DOMAIN error_callbacks[p] : /\ ErrorOk(p, error_callbacks[p][i], parent', followed')
                                                /\ Fresh(error_callbacks[p][i])
        /\ Distinct(value_callbacks[p]) /\ Distinct(error_callbacks[p])
    BY <1>0, <2>4 DEF Registered, ValueOk, ErrorOk
  <2> QED
    BY <1>2, <2>1, <2>2, <2>3, <2>5, ScheduleStep
<1> QED
  BY <1>1, <1>2 DEF set

\* One callback at most is registered, for somebody new if it owns what it is for.
LEMMA OneMore ==
  ASSUME Inv, Grows, NEW p \in Promises,
         NEW tags, NEW old \in Seq(Callback), NEW more \in Seq(Callback), Len(more) <= 1,
         Settled(p) => old = <<>>,
         \A i \in DOMAIN old : CallbackOk(p, old[i], tags, parent, followed), Distinct(old),
         \A i \in DOMAIN more : /\ CallbackOk(p, more[i], tags, parent', followed')
                                /\ Own(more[i]) => parent[more[i].to] = NoPromise
  PROVE  /\ old \o more \in Seq(Callback)
         /\ \A i \in DOMAIN (old \o more) :
              CallbackOk(p, (old \o more)[i], tags, parent', followed') /\ Fresh((old \o more)[i])
         /\ Distinct(old \o more)
<1> DEFINE all == old \o more
<1>1. /\ Len(old) \in Nat /\ DOMAIN old = 1 .. Len(old)
      /\ Len(more) \in Nat /\ DOMAIN more = 1 .. Len(more)
      /\ \A i \in DOMAIN old : old[i] \in Callback
  BY LenProperties, ElementOfSeq
<1>2. /\ all \in Seq(Callback) /\ Len(all) = Len(old) + Len(more)
      /\ \A i \in 1 .. Len(old) + Len(more) : all[i] = IF i <= Len(old) THEN old[i] ELSE more[i - Len(old)]
  BY ConcatProperties
<1>3. DOMAIN all = 1 .. Len(old) + Len(more)
  BY <1>2, LenProperties
<1> HIDE DEF all
<1>4. ASSUME NEW i \in DOMAIN all
      PROVE  \/ i \in DOMAIN old /\ all[i] = old[i]
             \/ i = Len(old) + 1 /\ 1 \in DOMAIN more /\ all[i] = more[1]
  BY <1>1, <1>2, <1>3
<1>5. ASSUME NEW i \in DOMAIN old
      PROVE  /\ CallbackOk(p, old[i], tags, parent', followed') /\ Fresh(old[i])
             /\ Own(old[i]) => parent[old[i].to] # NoPromise
  <2>1. old[i] \in Callback /\ CallbackOk(p, old[i], tags, parent, followed)
    BY <1>1
  <2>2. CallbackOk(p, old[i], tags, parent', followed')
    BY <2>1, OwnerType, ResultKinds DEF CallbackOk, Grows
  <2>3. ~Settled(p)
    <3>1. DOMAIN <<>> = {}
      OBVIOUS
    <3> QED
      BY <3>1
  <2> QED
    BY <2>1, <2>2, <2>3, ResultKinds DEF CallbackOk, Fresh
<1>6. \A i \in DOMAIN more : Fresh(more[i])
  BY DEF Fresh
<1>7. \A i \in DOMAIN all : CallbackOk(p, all[i], tags, parent', followed') /\ Fresh(all[i])
  BY <1>4, <1>5, <1>6
<1>8. ASSUME NEW i \in DOMAIN all, NEW j \in DOMAIN all, SameOwner(all[i], all[j]) PROVE i = j
  <2>1. CASE i \in DOMAIN old /\ all[i] = old[i] /\ j \in DOMAIN old /\ all[j] = old[j]
    BY <1>8, <2>1 DEF Distinct
  <2>2. ASSUME NEW k \in DOMAIN old, 1 \in DOMAIN more PROVE ~SameOwner(old[k], more[1])
    BY <1>5, <2>2 DEF SameOwner
  <2> QED
    BY <1>4, <1>8, <2>1, <2>2 DEF SameOwner
<1> QED
  BY <1>2, <1>7, <1>8 DEF all, Distinct

LEMMA RegisterStep ==
  ASSUME Inv, Grows, NEW p \in Promises,
         NEW values \in Seq(Callback), NEW errors \in Seq(Callback),
         Len(values) <= 1, Len(errors) <= 1,
         register(p, values, errors),
         \A i \in DOMAIN values : /\ ValueOk(p, values[i], parent', followed')
                                  /\ Own(values[i]) => parent[values[i].to] = NoPromise,
         \A i \in DOMAIN errors : /\ ErrorOk(p, errors[i], parent', followed')
                                  /\ Own(errors[i]) => parent[errors[i].to] = NoPromise
  PROVE  Placed
<1>0. TypeOK /\ Registered /\ Settling
  BY DEF Inv
<1>1. value_callbacks[p] \in Seq(Callback) /\ error_callbacks[p] \in Seq(Callback) /\ result[p] \in Results
  BY <1>0 DEF TypeOK
<1> DEFINE vs == value_callbacks[p] \o values
           es == error_callbacks[p] \o errors
<1>2. /\ vs \in Seq(Callback) /\ Distinct(vs)
      /\ \A i \in DOMAIN vs : ValueOk(p, vs[i], parent', followed') /\ Fresh(vs[i])
  BY <1>0, <1>1, OneMore DEF Registered, Settling, ValueOk
<1>3. /\ es \in Seq(Callback) /\ Distinct(es)
      /\ \A i \in DOMAIN es : ErrorOk(p, es[i], parent', followed') /\ Fresh(es[i])
  BY <1>0, <1>1, OneMore DEF Registered, Settling, ErrorOk
<1>4. schedule_callbacks(p, result[p], vs, es) /\ result' = result
  BY DEF register
<1> HIDE DEF vs, es
<1> QED
  BY <1>1, <1>2, <1>3, <1>4, ScheduleStep

-----------------------------------------------------------------------------
(***************************************************************************)
(* The parts of the invariant that speak of the scheduler, of what was     *)
(* called, and of the results.                                             *)
(***************************************************************************)
NoNewActive == \A t \in Threads : Active(t)' => Active(t) /\ running'[t] = running[t]

\* No callback was called, or thread t called the function of its own.
Counts ==
  \/ ran' = ran
  \/ \E t \in Threads : Active(t) /\ Own(running[t].callback) /\ Called(t) /\ ~Active(t)'

LEMMA ScheduledStep ==
  ASSUME Inv, Grows, Placed, NoNewActive
  PROVE  Scheduled'
<1>0. TypeOK /\ Scheduled
  BY DEF Inv
<1>1. ASSUME NEW t \in Threads, Active(t)' PROVE JobOk(running'[t], result', parent', followed')
  <2>1. Active(t) /\ running'[t] = running[t]
    BY <1>1 DEF NoNewActive
  <2>2. running[t] \in Job /\ JobOk(running[t], result, parent, followed)
    BY <1>0, <2>1 DEF Active, Scheduled, TypeOK
  <2> QED
    BY <1>0, <2>1, <2>2, OkGrows
<1>2. ASSUME NEW t \in Threads, NEW i \in DOMAIN jobs', Active(t)'
      PROVE  ~SameOwner(running'[t].callback, jobs'[i].callback)
  BY <1>2 DEF NoNewActive, Placed
<1>3. ASSUME NEW t \in Threads, NEW u \in Threads, Active(t)', Active(u)',
             SameOwner(running'[t].callback, running'[u].callback)
      PROVE  t = u
  BY <1>0, <1>3 DEF NoNewActive, Scheduled
<1> QED
  BY <1>1, <1>2, <1>3 DEF Scheduled, Placed

LEMMA CalledOnce ==
  ASSUME Inv, NEW t \in Threads, Active(t), Own(running[t].callback), Called(t)
  PROVE  LET x == running[t].callback.to
         IN  /\ x \in Promises \cup Handlers
             /\ ran[x] = 0 /\ parent[x] # NoPromise /\ Settled(parent[x])
             /\ ran'[x] = 1
             /\ \A y \in Promises \cup Handlers : y # x => ran'[y] = ran[y]
<1> DEFINE x == running[t].callback.to
<1>0. TypeOK /\ Scheduled /\ Counted
  BY DEF Inv
<1>1. running[t] \in Job
  BY <1>0 DEF Active, TypeOK
<1>2. running[t].callback \in Callback /\ JobOk(running[t], result, parent, followed)
  BY <1>0, <1>1 DEF Job, Scheduled
<1>3. x \in Promises \cup Handlers /\ ran[x] = 0
  BY <1>0, <1>2, OwnerType DEF Counted
<1>4. parent[x] # NoPromise /\ Settled(parent[x])
  BY <1>2, ResultKinds DEF JobOk, Settled
<1>5. ran' = [ran EXCEPT ![x] = @ + 1] /\ ran \in [Promises \cup Handlers -> Nat]
  BY <1>0 DEF Called, TypeOK
<1> HIDE DEF x
<1>6. ran'[x] = 1 /\ \A y \in Promises \cup Handlers : y # x => ran'[y] = ran[y]
  BY <1>3, <1>5
<1> QED
  BY <1>3, <1>4, <1>6 DEF x

LEMMA CountedStep ==
  ASSUME Inv, TypeOK', Grows, Placed, NoNewActive, Counts
  PROVE  /\ Counted'
         /\ \A x \in Promises \cup Handlers : ran'[x] = 0 => ran[x] = 0
<1>0. TypeOK /\ Scheduled /\ Counted
  BY DEF Inv
<1>1. \A x \in Promises \cup Handlers :
        parent[x] # NoPromise /\ Settled(parent[x]) => parent'[x] # NoPromise /\ result'[parent'[x]] # Undefined
  BY <1>0 DEF Grows, Settled, TypeOK
<1>2. ASSUME NEW i \in DOMAIN jobs' PROVE jobs'[i].callback \in Callback
  <2>1. jobs'[i] \in Job
    BY ElementOfSeq, LenProperties DEF TypeOK
  <2> QED
    BY <2>1 DEF Job
<1>3. ASSUME NEW t \in Threads, Active(t) PROVE running[t].callback \in Callback
  BY <1>0, <1>3 DEF Active, TypeOK, Job
<1>4. CASE ran' = ran
  <2>1. \A x \in Promises \cup Handlers : \/ ran'[x] = 0
                                          \/ ran'[x] = 1 /\ parent'[x] # NoPromise /\ result'[parent'[x]] # Undefined
    BY <1>0, <1>1, <1>4 DEF Counted, Settled
  <2>2. \A t \in Threads : Active(t)' /\ Own(running'[t].callback) => ran'[running'[t].callback.to] = 0
    BY <1>0, <1>4 DEF NoNewActive, Counted
  <2> QED
    BY <1>4, <2>1, <2>2 DEF Counted, Placed, Settled
<1>5. ASSUME NEW t \in Threads, Active(t), Own(running[t].callback), Called(t), ~Active(t)'
      PROVE  /\ Counted'
             /\ \A x \in Promises \cup Handlers : ran'[x] = 0 => ran[x] = 0
  <2> DEFINE x == running[t].callback.to
  <2>1. /\ x \in Promises \cup Handlers
        /\ ran[x] = 0 /\ parent[x] # NoPromise /\ Settled(parent[x])
        /\ ran'[x] = 1
        /\ \A y \in Promises \cup Handlers : y # x => ran'[y] = ran[y]
    BY <1>5, CalledOnce
  <2>2. \A y \in Promises \cup Handlers : \/ ran'[y] = 0
                                          \/ ran'[y] = 1 /\ parent'[y] # NoPromise /\ result'[parent'[y]] # Undefined
    BY <1>0, <1>1, <2>1 DEF Counted
  <2>3. ASSUME NEW i \in DOMAIN jobs', Own(jobs'[i].callback) PROVE ran'[jobs'[i].callback.to] = 0
    <3>1. jobs'[i].callback.to # x /\ ran[jobs'[i].callback.to] = 0
      BY <1>5, <2>3 DEF Placed, SameOwner
    <3> QED
      BY <1>2, <2>1, <2>3, <3>1, OwnerType
  <2>4. ASSUME NEW u \in Threads, Active(u)', Own(running'[u].callback)
        PROVE  ran'[running'[u].callback.to] = 0
    <3>1. u # t /\ Active(u) /\ running'[u] = running[u]
      BY <1>5, <2>4 DEF NoNewActive
    <3>2. running[u].callback.to # x /\ ran[running[u].callback.to] = 0
      BY <1>0, <1>5, <2>4, <3>1 DEF Scheduled, Counted, SameOwner
    <3> QED
      BY <1>3, <2>1, <2>4, <3>1, <3>2, OwnerType
  <2>5. \A y \in Promises \cup Handlers : ran'[y] = 0 => ran[y] = 0
    BY <2>1
  <2> QED
    BY <2>2, <2>3, <2>4, <2>5 DEF Counted, Settled
<1> QED
  BY <1>4, <1>5 DEF Counts

\* A promise p gets a result that it may have.
LEMMA FlowSet ==
  ASSUME Inv, TypeOK', Grows, NEW p \in Promises, NEW r \in Results, set(p, r),
         UNCHANGED <<parent, followed, following>>,
         \A x \in Promises \cup Handlers : ran'[x] = 0 => ran[x] = 0,
         p \in Roots \/ ran'[p] # 0 \/ Settled(p),
         parent[p] # NoPromise /\ r # Undefined =>
           /\ Settled(parent[p])
           /\ result[parent[p]] \in Errors => r = result[parent[p]]
           /\ followed[p] # NoPromise => Settled(followed[p]) /\ r = result[followed[p]]
  PROVE  Flow'
<1>0. TypeOK /\ Flow /\ Counted
  BY DEF Inv
<1>1. /\ \A q \in Promises \ {p} : result'[q] = result[q]
      /\ result'[p] = result[p] \/ (~Settled(p) /\ result'[p] = r)
  BY <1>0 DEF set, TypeOK, Settled
<1>2. \A c \in Promises \ Roots : ran'[c] = 0 => result'[c] = Undefined /\ followed'[c] = NoPromise
  BY <1>0, <1>1 DEF Flow, Settled
<1>3. ASSUME NEW c \in Promises, parent'[c] # NoPromise, result'[parent'[c]] \in Errors
      PROVE  followed'[c] = NoPromise
  <2>1. CASE Settled(parent[c])
    BY <1>0, <1>3, <2>1 DEF Flow, Grows, TypeOK
  <2>2. CASE ~Settled(parent[c])
    BY <1>0, <1>3, <2>2, ResultKinds DEF Flow, Counted
  <2> QED
    BY <2>1, <2>2
<1>4. ASSUME NEW c \in Promises, parent'[c] # NoPromise, result'[c] # Undefined
      PROVE  /\ result'[parent'[c]] # Undefined
             /\ result'[parent'[c]] \in Errors => result'[c] = result'[parent'[c]]
             /\ followed'[c] # NoPromise => result'[c] = result'[followed'[c]]
  <2>1. parent[c] \in Promises /\ (followed[c] # NoPromise => followed[c] \in Promises)
    BY <1>0, <1>4 DEF TypeOK
  <2>2. /\ Settled(parent[c])
        /\ result[parent[c]] \in Errors => result'[c] = result[parent[c]]
        /\ followed[c] # NoPromise => Settled(followed[c]) /\ result'[c] = result[followed[c]]
    <3>1. CASE Settled(c)
      BY <1>0, <1>4, <3>1 DEF Flow, ResultsFlow, Grows, Settled
    <3>2. CASE ~Settled(c)
      <4>1. c = p /\ result'[c] = r
        BY <1>1, <1>4, <3>2 DEF Settled
      <4> QED
        BY <1>4, <4>1
    <3> QED
      BY <3>1, <3>2
  <2>3. result'[parent[c]] = result[parent[c]]
    BY <2>1, <2>2 DEF Grows
  <2>4. followed[c] # NoPromise => result'[followed[c]] = result[followed[c]]
    BY <2>1, <2>2 DEF Grows
  <2> QED
    BY <2>2, <2>3, <2>4 DEF Settled
<1> QED
  BY <1>0, <1>2, <1>3, <1>4 DEF Flow, ResultsFlow, Settled

\* No promise gets a result.
LEMMA FlowSame ==
  ASSUME Inv, Grows, UNCHANGED result,
         \A x \in Promises \cup Handlers : ran'[x] = 0 => ran[x] = 0,
         \A c \in Promises :
           \/ parent'[c] = parent[c]
           \/ c \notin Roots /\ ~Settled(c) /\ followed[c] = NoPromise /\ followed'[c] = NoPromise,
         \A c \in Promises :
           \/ followed'[c] = followed[c]
           \/ /\ parent'[c] = parent[c]
              /\ \/ c \in Roots
                 \/ /\ ~Settled(c) /\ ran'[c] # 0
                    /\ parent[c] # NoPromise /\ result[parent[c]] \notin Errors,
         \A proc \in Procs :
           following'[proc] # <<>> => followed'[following'[proc][1]] = following'[proc][2]
  PROVE  Flow'
<1>0. TypeOK /\ Flow
  BY DEF Inv
<1>1. \A c \in Promises \ Roots : ran'[c] = 0 => result'[c] = Undefined /\ followed'[c] = NoPromise
  BY <1>0 DEF Flow, Settled
<1>2. ASSUME NEW c \in Promises, parent'[c] # NoPromise
      PROVE  /\ c \notin Roots
             /\ result'[parent'[c]] \in Errors => followed'[c] = NoPromise
  BY <1>0, <1>2 DEF Flow
<1>3. ASSUME NEW c \in Promises, parent'[c] # NoPromise, result'[c] # Undefined
      PROVE  /\ result'[parent'[c]] # Undefined
             /\ result'[parent'[c]] \in Errors => result'[c] = result'[parent'[c]]
             /\ followed'[c] # NoPromise => result'[c] = result'[followed'[c]]
  BY <1>0, <1>3 DEF Flow, ResultsFlow, Settled
<1> QED
  BY <1>1, <1>2, <1>3 DEF Flow, ResultsFlow, Settled

\* Setting the result of a promise that is a root, or that the callback of thread t is
\* for, which ends with it.
LEMMA SetPreserves ==
  ASSUME Inv, TypeOK', NEW p \in Promises, NEW r \in Results, set(p, r),
         UNCHANGED <<parent, followed, following>>,
         NoNewActive, Counts,
         p \in Roots \/ ran'[p] # 0 \/ Settled(p),
         parent[p] # NoPromise /\ r # Undefined =>
           /\ Settled(parent[p])
           /\ result[parent[p]] \in Errors => r = result[parent[p]]
           /\ followed[p] # NoPromise => Settled(followed[p]) /\ r = result[followed[p]]
  PROVE  Inv'
<1>1. Grows /\ Placed
  BY SetStep
<1>2. Scheduled' /\ Counted' /\ \A x \in Promises \cup Handlers : ran'[x] = 0 => ran[x] = 0
  BY <1>1, ScheduledStep, CountedStep
<1>3. Flow'
  BY <1>1, <1>2, FlowSet
<1> QED
  BY <1>1, <1>2, <1>3 DEF Inv, Placed

\* Registering callbacks and following promises, with no result for any promise.
LEMMA RegisterPreserves ==
  ASSUME Inv, TypeOK', Grows, Placed, UNCHANGED result, NoNewActive, Counts,
         \A c \in Promises :
           \/ parent'[c] = parent[c]
           \/ c \notin Roots /\ ~Settled(c) /\ followed[c] = NoPromise /\ followed'[c] = NoPromise,
         \A c \in Promises :
           \/ followed'[c] = followed[c]
           \/ /\ parent'[c] = parent[c]
              /\ \/ c \in Roots
                 \/ /\ ~Settled(c) /\ ran'[c] # 0
                    /\ parent[c] # NoPromise /\ result[parent[c]] \notin Errors,
         \A proc \in Procs :
           following'[proc] # <<>> => followed'[following'[proc][1]] = following'[proc][2]
  PROVE  Inv'
<1>1. Scheduled' /\ Counted' /\ \A x \in Promises \cup Handlers : ran'[x] = 0 => ran[x] = 0
  BY ScheduledStep, CountedStep
<1>2. Flow'
  BY <1>1, FlowSame
<1> QED
  BY <1>1, <1>2 DEF Inv, Placed

\* What thread t knows of the callback it is about to call.
LEMMA AboutToCall ==
  ASSUME Inv, NEW t \in Threads, NEW tags, Runs(t, tags)
  PROVE  /\ Active(t) /\ running[t].callback \in Callback /\ running[t].result \in Results
         /\ JobOk(running[t], result, parent, followed)
         /\ running[t].callback.tag \in tags
         /\ Ends(t) => running'[t] = NoJob /\ \A u \in Threads \ {t} : running'[u] = running[u]
<1>1. TypeOK /\ Scheduled
  BY DEF Inv
<1>2. Active(t) /\ running[t].callback.tag \in tags
  BY DEF Runs, Active
<1>3. running[t] \in Job
  BY <1>1, <1>2 DEF Active, TypeOK
<1>4. running[t].callback \in Callback /\ running[t].result \in Results
  BY <1>3 DEF Job
<1>5. Ends(t) => running'[t] = NoJob /\ \A u \in Threads \ {t} : running'[u] = running[u]
  BY <1>1 DEF Ends, TypeOK
<1> QED
  BY <1>1, <1>2, <1>4, <1>5 DEF Scheduled

\* p follows q: proc is the client, or the thread that called p's callback.
LEMMA FollowPreserves ==
  ASSUME Inv, TypeOK', NEW proc \in Procs, NEW p \in Promises, NEW q \in Promises,
         FollowThen(proc, p, q), followed[p] = NoPromise,
         UNCHANGED <<running, parent>>, following[proc] = <<>>, Counts,
         \/ p \in Roots
         \/ ~Settled(p) /\ ran'[p] # 0 /\ parent[p] # NoPromise /\ result[parent[p]] \notin Errors
  PROVE  Inv'
<1>0. TypeOK /\ Flow
  BY DEF Inv
<1>1. /\ followed'[p] = q /\ \A c \in Promises \ {p} : followed'[c] = followed[c]
      /\ following'[proc] = <<p, q>> /\ \A u \in Procs \ {proc} : following'[u] = following[u]
      /\ result' = result
      /\ register(q, <<Cb("adopt", p)>>, <<Cb("discard", NoPromise)>>)
  BY <1>0 DEF FollowThen, register, TypeOK
<1>2. Grows
  BY <1>1 DEF Grows
<1>3. Placed
  <2>1. \A cb : Len(<<cb>>) <= 1 /\ DOMAIN <<cb>> = {1} /\ <<cb>>[1] = cb
    OBVIOUS
  <2>2. ~Own(Cb("adopt", p)) /\ ~Own(Cb("discard", NoPromise))
    BY DEF Own, Cb
  <2>3. /\ ValueOk(q, Cb("adopt", p), parent', followed')
        /\ ErrorOk(q, Cb("discard", NoPromise), parent', followed')
    BY <1>1, <2>2 DEF ValueOk, ErrorOk, CallbackOk, Cb
  <2> QED
    BY <1>1, <1>2, <2>1, <2>2, <2>3, CallbackTypes, RegisterStep
<1>4. NoNewActive
  BY <1>1 DEF NoNewActive, Active, Procs
<1>5. \A u \in Procs :
        following'[u] # <<>> => followed'[following'[u][1]] = following'[u][2]
  <2>1. ASSUME NEW u \in Procs \ {proc}, following[u] # <<>>
        PROVE  followed'[following[u][1]] = following[u][2]
    <3>1. following[u][1] \in Promises /\ following[u][2] \in Promises
      BY <1>0, <2>1 DEF TypeOK
    <3>2. followed[following[u][1]] = following[u][2]
      BY <1>0, <2>1 DEF Flow
    <3> QED
      BY <1>1, <3>1, <3>2, ResultKinds
  <2> QED
    BY <1>1, <2>1
<1> QED
  BY <1>1, <1>2, <1>3, <1>4, <1>5, RegisterPreserves

LEMMA TakePreserves ==
  ASSUME Inv, TypeOK', NEW t \in Threads, TakeJob(t)
  PROVE  Inv'
<1>0. TypeOK /\ Settling /\ Registered /\ Scheduled /\ Counted /\ Flow
  BY DEF Inv
<1>1. /\ jobs # <<>> /\ jobs' = Tail(jobs)
      /\ running'[t] = Head(jobs) /\ running[t] = NoJob
      /\ \A u \in Threads \ {t} : running'[u] = running[u]
      /\ UNCHANGED <<result, value_callbacks, error_callbacks, following, parent, followed, ran>>
  BY <1>0 DEF TakeJob, TypeOK
<1>2. /\ Len(jobs) \in Nat /\ 1 \in DOMAIN jobs /\ running'[t] = jobs[1]
      /\ DOMAIN jobs = 1 .. Len(jobs)
      /\ \A i \in DOMAIN jobs' : /\ i + 1 \in DOMAIN jobs /\ jobs'[i] = jobs[i + 1]
                                 /\ i \in Nat /\ i + 1 # 1
  <2>1. jobs \in Seq(Job)
    BY <1>0 DEF TypeOK
  <2>2. Tail(jobs) \in Seq(Job) /\ Len(Tail(jobs)) = Len(jobs) - 1
        /\ \A i \in 1 .. Len(Tail(jobs)) : Tail(jobs)[i] = jobs[i + 1]
    BY <1>1, <2>1, HeadTailProperties
  <2>3. Len(jobs) \in Nat \ {0} /\ DOMAIN jobs = 1 .. Len(jobs)
    BY <1>1, <2>1, EmptySeq, LenProperties
  <2>4. DOMAIN Tail(jobs) = 1 .. Len(Tail(jobs))
    BY <2>2, LenProperties
  <2>5. Head(jobs) = jobs[1]
    BY <1>1, <2>1
  <2> QED
    BY <1>1, <2>2, <2>3, <2>4, <2>5
<1>3. ASSUME NEW u \in Threads, Active(u)'
      PROVE  \/ u # t /\ Active(u) /\ running'[u] = running[u]
             \/ u = t /\ running'[u] = jobs[1]
  BY <1>1, <1>2, <1>3 DEF Active
<1>4. Scheduled'
  <2>1. \A i \in DOMAIN jobs' : JobOk(jobs'[i], result', parent', followed')
    BY <1>0, <1>1, <1>2 DEF Scheduled
  <2>2. \A u \in Threads : Active(u)' => JobOk(running'[u], result', parent', followed')
    BY <1>0, <1>1, <1>2, <1>3 DEF Scheduled
  <2>3. \A i, j \in DOMAIN jobs' : SameOwner(jobs'[i].callback, jobs'[j].callback) => i = j
    BY <1>0, <1>2 DEF Scheduled
  <2>4. ASSUME NEW u \in Threads, NEW i \in DOMAIN jobs', Active(u)'
        PROVE  ~SameOwner(running'[u].callback, jobs'[i].callback)
    <3>1. i + 1 \in DOMAIN jobs /\ jobs'[i] = jobs[i + 1] /\ i + 1 # 1
      BY <1>2
    <3> QED
      BY <1>0, <1>2, <1>3, <2>4, <3>1 DEF Scheduled
  <2>5. ASSUME NEW u \in Threads, NEW w \in Threads, Active(u)', Active(w)',
               SameOwner(running'[u].callback, running'[w].callback)
        PROVE  u = w
    <3>1. \A a, b : SameOwner(a, b) => SameOwner(b, a)
      BY DEF SameOwner
    <3> QED
      BY <1>0, <1>2, <1>3, <2>5, <3>1 DEF Scheduled
  <2> QED
    BY <2>1, <2>2, <2>3, <2>4, <2>5 DEF Scheduled
<1>5. Counted'
  <2>1. \A i \in DOMAIN jobs' : Own(jobs'[i].callback) => ran'[jobs'[i].callback.to] = 0
    BY <1>0, <1>1, <1>2 DEF Counted
  <2>2. \A u \in Threads : Active(u)' /\ Own(running'[u].callback) => ran'[running'[u].callback.to] = 0
    BY <1>0, <1>1, <1>2, <1>3 DEF Counted
  <2> QED
    BY <1>0, <1>1, <2>1, <2>2 DEF Counted, Settled
<1>6. Settling' /\ Registered' /\ Flow'
  BY <1>0, <1>1 DEF Settling, Registered, Flow, ResultsFlow, Settled
<1> QED
  BY <1>4, <1>5, <1>6 DEF Inv

LEMMA InvStep == Inv /\ [Next]_vars => Inv'
<1> SUFFICES ASSUME Inv, [Next]_vars PROVE Inv'
  OBVIOUS
<1>0. TypeOK /\ TypeOK' /\ Settling /\ Registered /\ Scheduled /\ Counted /\ Flow
  BY TypeStep DEF Inv
<1>a. \A cb : Len(<<cb>>) <= 1 /\ DOMAIN <<cb>> = {1} /\ <<cb>>[1] = cb
  OBVIOUS
<1>b. Len(<<>>) <= 1 /\ DOMAIN <<>> = {}
  OBVIOUS
<1>1. ASSUME NEW p \in Promises, NEW r \in Results, set_result(p, r) PROVE Inv'
  <2>1. p \in Roots /\ set(p, r) /\ UNCHANGED <<running, following, parent, followed, ran>>
    BY <1>1 DEF set_result
  <2>2. parent[p] = NoPromise
    BY <1>0, <2>1 DEF Flow
  <2>3. NoNewActive /\ Counts
    BY <2>1 DEF NoNewActive, Active, Counts
  <2> QED
    BY <1>0, <2>1, <2>2, <2>3, SetPreserves
<1>2. ASSUME NEW p \in Promises, NEW c \in Promises, NEW tag \in {"then", "chain"}, then(p, c, tag)
      PROVE  Inv'
  <2>1. /\ register(p, <<Cb(tag, c)>>, <<Cb("forward", c)>>) /\ result' = result
        /\ c \notin Roots /\ parent[c] = NoPromise /\ p \in Created
        /\ parent' = [parent EXCEPT ![c] = p]
        /\ UNCHANGED <<running, following, followed, ran>>
    BY <1>2 DEF then, register, Created
  <2>2. parent'[c] = p /\ \A x \in Promises \cup Handlers : x # c => parent'[x] = parent[x]
    BY <1>0, <2>1 DEF TypeOK
  <2>3. Grows
    BY <2>1, <2>2 DEF Grows
  <2>4. /\ ValueOk(p, Cb(tag, c), parent', followed') /\ ErrorOk(p, Cb("forward", c), parent', followed')
        /\ Cb(tag, c).to = c /\ Cb("forward", c).to = c
    BY <2>1, <2>2 DEF ValueOk, ErrorOk, CallbackOk, Cb, Own
  <2> DEFINE vs == <<Cb(tag, c)>>
             es == <<Cb("forward", c)>>
  <2>5. Placed
    <3>1. vs \in Seq(Callback) /\ es \in Seq(Callback) /\ Len(vs) <= 1 /\ Len(es) <= 1
      BY <1>a, CallbackTypes
    <3>2. \A i \in DOMAIN vs : vs[i] = Cb(tag, c)
      BY <1>a
    <3>3. \A i \in DOMAIN es : es[i] = Cb("forward", c)
      BY <1>a
    <3>4. register(p, vs, es)
      BY <2>1
    <3> HIDE DEF vs, es
    <3> QED
      BY <2>1, <2>3, <2>4, <3>1, <3>2, <3>3, <3>4, RegisterStep
  <2>6. NoNewActive /\ Counts
    BY <2>1 DEF NoNewActive, Active, Counts
  <2>7. ~Settled(c) /\ followed[c] = NoPromise
    BY <1>0, <2>1 DEF Flow, Counted
  <2>8. \A proc \in Procs :
          following'[proc] # <<>> => followed'[following'[proc][1]] = following'[proc][2]
    BY <1>0, <2>1 DEF Flow
  <2> QED
    BY <1>0, <2>1, <2>2, <2>3, <2>5, <2>6, <2>7, <2>8, RegisterPreserves
<1>3. ASSUME NEW p \in Promises, NEW h \in Handlers, fail(p, h) PROVE Inv'
  <2>1. /\ register(p, <<>>, <<Cb("handle", h)>>) /\ result' = result
        /\ parent[h] = NoPromise
        /\ parent' = [parent EXCEPT ![h] = p]
        /\ UNCHANGED <<running, following, followed, ran>>
    BY <1>3 DEF fail, register
  <2>2. h \notin Promises /\ h \notin Roots
    BY PromiseAssumption DEF PromiseAssumption
  <2>3. parent'[h] = p /\ \A x \in Promises \cup Handlers : x # h => parent'[x] = parent[x]
    BY <1>0, <2>1 DEF TypeOK
  <2>4. Grows
    BY <2>1, <2>3 DEF Grows
  <2>5. ErrorOk(p, Cb("handle", h), parent', followed') /\ Cb("handle", h).to = h
    BY <2>2, <2>3 DEF ErrorOk, CallbackOk, Cb, Own
  <2> DEFINE es == <<Cb("handle", h)>>
  <2>6. Placed
    <3>1. <<>> \in Seq(Callback) /\ es \in Seq(Callback) /\ Len(es) <= 1
      BY <1>a, CallbackTypes
    <3>2. \A i \in DOMAIN es : es[i] = Cb("handle", h)
      BY <1>a
    <3>3. register(p, <<>>, es)
      BY <2>1
    <3> HIDE DEF es
    <3> QED
      BY <1>b, <2>1, <2>4, <2>5, <3>1, <3>2, <3>3, RegisterStep
  <2>7. NoNewActive /\ Counts
    BY <2>1 DEF NoNewActive, Active, Counts
  <2>8. \A proc \in Procs :
          following'[proc] # <<>> => followed'[following'[proc][1]] = following'[proc][2]
    BY <1>0, <2>1 DEF Flow
  <2> QED
    BY <1>0, <2>1, <2>2, <2>3, <2>4, <2>6, <2>7, <2>8, RegisterPreserves
<1>4. ASSUME NEW p \in Promises, NEW q \in Promises, set_result_from_promise(p, q) PROVE Inv'
  <2>1. /\ FollowThen(Client, p, q) /\ p \in Roots /\ followed[p] = NoPromise
        /\ following[Client] = <<>> /\ UNCHANGED <<running, parent, ran>>
        /\ Client \in Procs
    BY <1>4 DEF set_result_from_promise, Idle, Procs
  <2> QED
    BY <1>0, <2>1, FollowPreserves DEF Counts
<1>5. ASSUME NEW proc \in Procs, FollowFail(proc) PROVE Inv'
  <2> DEFINE p == following[proc][1]
             q == following[proc][2]
  <2>1. p \in Promises /\ q \in Promises /\ followed[p] = q
    BY <1>0, <1>5 DEF FollowFail, TypeOK, Flow
  <2>2. /\ register(q, <<>>, <<Cb("adopt", p)>>) /\ result' = result
        /\ following' = [following EXCEPT ![proc] = <<>>]
        /\ running' = [t \in Threads |-> IF t = proc THEN NoJob ELSE running[t]]
        /\ UNCHANGED <<parent, followed, ran>>
    BY <1>5 DEF FollowFail, register
  <2>3. Grows
    BY <2>2 DEF Grows
  <2>4. ErrorOk(q, Cb("adopt", p), parent', followed') /\ ~Own(Cb("adopt", p))
    BY <2>1, <2>2 DEF ErrorOk, CallbackOk, Cb, Own
  <2> DEFINE es == <<Cb("adopt", p)>>
  <2>5. <<>> \in Seq(Callback) /\ es \in Seq(Callback) /\ Len(es) <= 1
    BY <1>a, <2>1, CallbackTypes
  <2>6. Placed
    <3>1. \A i \in DOMAIN es : es[i] = Cb("adopt", p)
      BY <1>a
    <3>2. register(q, <<>>, es)
      BY <2>2
    <3> HIDE DEF p, q, es
    <3> QED
      BY <1>b, <2>1, <2>2, <2>3, <2>4, <2>5, <3>1, <3>2, RegisterStep
  <2>7. \A u \in Procs : following'[u] = IF u = proc THEN <<>> ELSE following[u]
    BY <1>0, <2>2 DEF TypeOK
  <2>8. NoNewActive
    BY <2>2, <2>7 DEF NoNewActive, Active, Procs
  <2>9. \A u \in Procs :
          following'[u] # <<>> => followed'[following'[u][1]] = following'[u][2]
    BY <1>0, <2>2, <2>7 DEF Flow
  <2> QED
    BY <1>0, <2>2, <2>3, <2>6, <2>8, <2>9, RegisterPreserves DEF Counts
<1>6. ASSUME NEW t \in Threads, TakeJob(t) PROVE Inv'
  BY <1>0, <1>6, TakePreserves
\* The threads that end a callback are not active any more.
<1>7. ASSUME NEW t \in Threads, NEW tags, Runs(t, tags), Ends(t), following' = following
      PROVE  NoNewActive /\ ~Active(t)'
  BY <1>7, AboutToCall DEF NoNewActive, Active
<1>8. ASSUME NEW t \in Threads, RunThen(t) PROVE Inv'
  <2> DEFINE x == running[t].callback.to
  <2>1. /\ Runs(t, {"then"}) /\ Called(t) /\ Ends(t) /\ UNCHANGED <<following, parent, followed>>
    BY <1>8 DEF RunThen
  <2>2. PICK r \in Results : set(x, r)
    BY <1>8, PromiseAssumption DEF RunThen, PromiseAssumption
  <2>3. /\ Active(t) /\ running[t].callback.tag = "then" /\ running[t].callback \in Callback
        /\ JobOk(running[t], result, parent, followed)
    BY <2>1, AboutToCall
  <2>4. Own(running[t].callback) /\ x \in Promises \ Roots
    BY <2>3, OwnerType DEF Own, JobOk
  <2>5. NoNewActive /\ Counts
    BY <1>7, <2>1, <2>3, <2>4 DEF Counts
  <2>6. ran[x] = 0 /\ ran'[x] = 1 /\ Settled(parent[x]) /\ parent[x] # NoPromise
    BY <2>1, <2>3, <2>4, CalledOnce
  <2>7. result[parent[x]] \notin Errors /\ followed[x] = NoPromise
    BY <1>0, <2>3, <2>4, <2>6, ResultKinds DEF JobOk, Flow
  <2> HIDE DEF x
  <2> QED
    BY <1>0, <2>1, <2>2, <2>4, <2>5, <2>6, <2>7, SetPreserves
<1>9. ASSUME NEW t \in Threads, RunChain(t) PROVE Inv'
  <2> DEFINE x == running[t].callback.to
  <2>1. Runs(t, {"chain"}) /\ Called(t) /\ UNCHANGED <<running, parent>>
    BY <1>9 DEF RunChain
  <2>2. PICK q \in Promises : FollowThen(t, x, q)
    BY <1>9, PromiseAssumption DEF RunChain, Created, PromiseAssumption
  <2>3. /\ Active(t) /\ running[t].callback.tag = "chain" /\ running[t].callback \in Callback
        /\ JobOk(running[t], result, parent, followed)
    BY <2>1, AboutToCall
  <2>4. Own(running[t].callback) /\ x \in Promises \ Roots
    BY <2>3, OwnerType DEF Own, JobOk
  <2>5. ~Active(t)' /\ following[t] = <<>> /\ t \in Procs
    BY <1>0, <2>2, <2>3 DEF FollowThen, Active, TypeOK, Procs
  <2>6. Counts
    BY <2>1, <2>3, <2>4, <2>5 DEF Counts
  <2>7. ran[x] = 0 /\ ran'[x] = 1 /\ Settled(parent[x]) /\ parent[x] # NoPromise
    BY <2>1, <2>3, <2>4, CalledOnce
  <2>8. result[parent[x]] \notin Errors /\ followed[x] = NoPromise /\ ~Settled(x)
    BY <1>0, <2>3, <2>4, <2>7, ResultKinds DEF JobOk, Flow
  <2> HIDE DEF x
  <2> QED
    BY <1>0, <2>1, <2>2, <2>4, <2>5, <2>6, <2>7, <2>8, FollowPreserves
<1>10. ASSUME NEW t \in Threads, RunForward(t) PROVE Inv'
  <2> DEFINE x == running[t].callback.to
             r == running[t].result
  <2>1. /\ Runs(t, {"forward"}) /\ set(x, r) /\ Called(t) /\ Ends(t)
        /\ UNCHANGED <<following, parent, followed>>
    BY <1>10 DEF RunForward
  <2>2. /\ Active(t) /\ running[t].callback.tag = "forward" /\ running[t].callback \in Callback
        /\ JobOk(running[t], result, parent, followed) /\ r \in Results
    BY <2>1, AboutToCall
  <2>3. Own(running[t].callback) /\ x \in Promises \ Roots
    BY <2>2, OwnerType DEF Own, JobOk
  <2>4. NoNewActive /\ Counts
    BY <1>7, <2>1, <2>2, <2>3 DEF Counts
  <2>5. ran[x] = 0 /\ ran'[x] = 1 /\ Settled(parent[x]) /\ parent[x] # NoPromise
    BY <2>1, <2>2, <2>3, CalledOnce
  <2>6. r = result[parent[x]] /\ followed[x] = NoPromise
    BY <1>0, <2>2, <2>3, <2>5 DEF JobOk, Flow
  <2> HIDE DEF x, r
  <2> QED
    BY <1>0, <2>1, <2>2, <2>3, <2>4, <2>5, <2>6, SetPreserves
<1>11. ASSUME NEW t \in Threads, RunAdopt(t) PROVE Inv'
  <2> DEFINE x == running[t].callback.to
             r == running[t].result
  <2>1. /\ Runs(t, {"adopt"}) /\ set(x, r) /\ Ends(t)
        /\ UNCHANGED <<following, parent, followed, ran>>
    BY <1>11 DEF RunAdopt
  <2>2. /\ Active(t) /\ running[t].callback.tag = "adopt" /\ running[t].callback \in Callback
        /\ JobOk(running[t], result, parent, followed) /\ r \in Results
    BY <2>1, AboutToCall
  <2>3. x \in Promises /\ followed[x] # NoPromise /\ r = result[followed[x]] /\ r # Undefined
    BY <2>2, OwnerType DEF JobOk
  <2>4. NoNewActive /\ Counts
    BY <1>7, <2>1 DEF Counts
  <2> HIDE DEF x, r
  <2>5. x \in Roots \/ (ran'[x] # 0 /\ Settled(parent[x]))
    BY <1>0, <2>1, <2>3 DEF Flow, Counted
  <2>6. parent[x] # NoPromise => Settled(parent[x]) /\ result[parent[x]] \notin Errors
    BY <1>0, <2>3, <2>5 DEF Flow
  <2> QED
    BY <1>0, <2>1, <2>2, <2>3, <2>4, <2>5, <2>6, SetPreserves DEF Settled
<1>12. ASSUME NEW t \in Threads, RunHandle(t) \/ RunDiscard(t) PROVE Inv'
  <2>1. UNCHANGED <<result, value_callbacks, error_callbacks, jobs, following, parent, followed>>
    BY <1>12 DEF RunHandle, RunDiscard
  <2>2. Grows /\ Placed
    BY <2>1, NothingPlaced DEF Grows
  <2>3. NoNewActive /\ ~Active(t)'
    BY <1>7, <1>12, <2>1 DEF RunHandle, RunDiscard
  <2>4. Counts
    BY <1>12, <2>3, AboutToCall DEF RunHandle, RunDiscard, Counts, Own
  <2>5. \A proc \in Procs :
          following'[proc] # <<>> => followed'[following'[proc][1]] = following'[proc][2]
    BY <1>0, <2>1 DEF Flow
  <2> QED
    BY <1>0, <2>1, <2>2, <2>3, <2>4, <2>5, RegisterPreserves
<1>13. CASE UNCHANGED vars
  BY <1>0, <1>13 DEF vars, Inv, Settling, Registered, Scheduled, Counted, Flow, ResultsFlow,
     Settled, Active
<1> QED
  BY <1>1, <1>2, <1>3, <1>4, <1>5, <1>6, <1>8, <1>9, <1>10, <1>11, <1>12, <1>13
     DEF Next, Worker

LEMMA InvInit == Init => Inv
<1> SUFFICES ASSUME Init PROVE Inv
  OBVIOUS
<1>1. TypeOK
  BY TypeInit
<1>2. DOMAIN <<>> = {}
  OBVIOUS
<1>3. Settling /\ Registered /\ Scheduled
  BY <1>2 DEF Init, Settling, Registered, Distinct, Scheduled, Active
<1>4. Counted /\ Flow
  BY <1>2, ResultKinds, PromiseAssumption DEF Init, Counted, Active, Flow, ResultsFlow, Settled,
     PromiseAssumption
<1> QED
  BY <1>1, <1>3, <1>4 DEF Inv

\* No function given to then() or fail() is called twice, and no error is forwarded to
\* a promise whose function was called, for any number of threads and promises.
THEOREM CallbacksRunOnce == Spec => []RunsOnce
<1>1. Init => Inv
  BY InvInit
<1>2. Inv /\ [Next]_vars => Inv'
  BY InvStep
<1>3. Inv => RunsOnce
  BY DEF Inv, Counted, RunsOnce
<1> QED
  BY <1>1, <1>2, <1>3, PTL DEF Spec

\* Results flow down chains as they are: no promise of a then() has a result that is not
\* due to the promise it was called on and to the promise its function returned.
THEOREM ResultsFlowDown == Spec => []ResultsFlow
<1>1. Init => Inv
  BY InvInit
<1>2. Inv /\ [Next]_vars => Inv'
  BY InvStep
<1>3. Inv => ResultsFlow
  BY DEF Inv, Flow
<1> QED
  BY <1>1, <1>2, <1>3, PTL DEF Spec
=============================================================================
