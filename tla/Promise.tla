------------------------------ MODULE Promise ------------------------------
(***************************************************************************)
(* traeger::Promise (src/traeger/actor/Promise.cpp): a result that is set  *)
(* once, and the callbacks that wait for it.  A promise never calls        *)
(* anybody: it schedules callbacks on its scheduler, where they meet the   *)
(* callbacks of other promises.  A callback sets the promise that then()   *)
(* returned, so results flow along chains of promises from thread to       *)
(* thread.                                                                 *)
(*                                                                         *)
(* The scheduler is a FIFO queue of jobs and the threads that take them    *)
(* (module WorkPool: each job is executed once).  Each operation of a      *)
(* promise is one critical section of its mutex, and one action.           *)
(***************************************************************************)
EXTENDS Naturals, Sequences, FiniteSets, Functions

CONSTANTS Threads,    (* the threads of the scheduler                        *)
          Client,     (* a thread that calls promises from outside           *)
          Promises,   (* all promises                                        *)
          Roots,      (* those the client makes itself: Promise{scheduler}   *)
          Handlers,   (* the error callbacks given to fail()                 *)
          Values, Errors, Undefined,  (* Results                             *)
          Returned,   (* the results that callbacks return                   *)
          NoPromise, NoJob

Results == Values \cup Errors \cup {Undefined}

ASSUME PromiseAssumption ==
  /\ Client \notin Threads
  /\ Roots \subseteq Promises /\ NoPromise \notin Promises
  /\ Promises \cap Handlers = {}
  /\ Values \cap Errors = {} /\ Undefined \notin Values \cup Errors
  /\ Returned \subseteq Results

Procs == Threads \cup {Client}

(***************************************************************************)
(* A callback: what it does, and which promise or handler it is for.       *)
(*   then    call the user's function, set the promise to what it returns  *)
(*   chain   the same, for a function that returns a promise               *)
(*   forward set the promise to the error                                  *)
(*   handle  call the user's error function                                *)
(*   adopt   set the promise to the result of the promise it follows       *)
(*   discard set a promise that nobody holds                               *)
(***************************************************************************)
Callback == [tag : {"then", "chain", "forward", "adopt"}, to : Promises]
              \cup [tag : {"handle"}, to : Handlers]
              \cup [tag : {"discard"}, to : {NoPromise}]
Cb(tag, to) == [tag |-> tag, to |-> to]

Job == [callback : Callback, result : Results]

VARIABLES
  result,           (* result_                                               *)
  value_callbacks,  (* value_callbacks_                                      *)
  error_callbacks,  (* error_callbacks_                                      *)
  jobs,             (* the callbacks in the scheduler                        *)
  running,          (* the callback a thread executes                        *)
  following,        (* a thread inside set_result_from_promise, between its  *)
                    (* then() and its fail(): <<promise, the one it follows>> *)
  parent,           (* the promise that then() or fail() was called on       *)
  followed,         (* the promise that set_result_from_promise() was given  *)
  ran               (* how often the function of a callback was called, the  *)
                    (* forwarding of an error counted as one                 *)

vars == <<result, value_callbacks, error_callbacks, jobs, running, following,
          parent, followed, ran>>

Created == Roots \cup {p \in Promises : parent[p] # NoPromise}

TypeOK ==
  /\ result \in [Promises -> Results]
  /\ value_callbacks \in [Promises -> Seq(Callback)]
  /\ error_callbacks \in [Promises -> Seq(Callback)]
  /\ jobs \in Seq(Job)
  /\ running \in [Threads -> Job \cup {NoJob}]
  /\ following \in [Procs -> (Promises \X Promises) \cup {<<>>}]
  /\ parent \in [Promises \cup Handlers -> Promises \cup {NoPromise}]
  /\ followed \in [Promises -> Promises \cup {NoPromise}]
  /\ ran \in [Promises \cup Handlers -> Nat]

Init ==
  /\ result = [p \in Promises |-> Undefined]
  /\ value_callbacks = [p \in Promises |-> <<>>]
  /\ error_callbacks = [p \in Promises |-> <<>>]
  /\ jobs = <<>>
  /\ running = [t \in Threads |-> NoJob]
  /\ following = [p \in Procs |-> <<>>]
  /\ parent = [x \in Promises \cup Handlers |-> NoPromise]
  /\ followed = [p \in Promises |-> NoPromise]
  /\ ran = [x \in Promises \cup Handlers |-> 0]

\* The jobs of callbacks for a result, in the order of the callbacks.
JobsOf(callbacks, r) ==
  [i \in DOMAIN callbacks |-> [callback |-> callbacks[i], result |-> r]]

\* Mutant: the callbacks are scheduled and stay in the queue.
schedule_callbacks_Kept(p, r, values, errors) ==
  /\ jobs' = IF r \in Values THEN jobs \o JobsOf(values, r)
             ELSE IF r \in Errors THEN jobs \o JobsOf(errors, r) ELSE jobs
  /\ value_callbacks' = [value_callbacks EXCEPT ![p] = values]
  /\ error_callbacks' = [error_callbacks EXCEPT ![p] = errors]

\* schedule_callbacks() of p, with result r and the given callbacks: those of the
\* result's kind go to the scheduler and the others are dropped.
schedule_callbacks(p, r, values, errors) ==
  LET kept == r = Undefined IN
  /\ jobs' = IF r \in Values THEN jobs \o JobsOf(values, r)
             ELSE IF r \in Errors THEN jobs \o JobsOf(errors, r) ELSE jobs
  /\ value_callbacks' = [value_callbacks EXCEPT ![p] = IF kept THEN values ELSE <<>>]
  /\ error_callbacks' = [error_callbacks EXCEPT ![p] = IF kept THEN errors ELSE <<>>]

\* Mutant: the last result counts.
set_Last(p, r) ==
  /\ result' = [result EXCEPT ![p] = r]
  /\ schedule_callbacks(p, r, value_callbacks[p], error_callbacks[p])

\* set(): only the first result counts; an Undefined one sets nothing.
set(p, r) ==
  \/ /\ result[p] = Undefined
     /\ result' = [result EXCEPT ![p] = r]
     /\ schedule_callbacks(p, r, value_callbacks[p], error_callbacks[p])
  \/ /\ result[p] # Undefined
     /\ UNCHANGED <<result, jobs, value_callbacks, error_callbacks>>

\* Mutant: a callback that comes after the result waits for the next one.
register_Late(p, values, errors) ==
  /\ value_callbacks' = [value_callbacks EXCEPT ![p] = @ \o values]
  /\ error_callbacks' = [error_callbacks EXCEPT ![p] = @ \o errors]
  /\ UNCHANGED <<result, jobs>>

\* The common part of then() and fail().
register(p, values, errors) ==
  /\ schedule_callbacks(p, result[p], value_callbacks[p] \o values,
                                      error_callbacks[p] \o errors)
  /\ UNCHANGED result

(***************************************************************************)
(* Calls from outside.                                                     *)
(***************************************************************************)
Idle == following[Client] = <<>>

set_result(p, r) ==
  /\ Idle /\ p \in Roots
  /\ set(p, r)
  /\ UNCHANGED <<running, following, parent, followed, ran>>

\* then() makes promise c; tag tells which of the two overloads it is.
then(p, c, tag) ==
  /\ Idle /\ p \in Created /\ c \in Promises \ Created
  /\ register(p, <<Cb(tag, c)>>, <<Cb("forward", c)>>)
  /\ parent' = [parent EXCEPT ![c] = p]
  /\ UNCHANGED <<running, following, followed, ran>>

fail(p, h) ==
  /\ Idle /\ p \in Created /\ h \in Handlers /\ parent[h] = NoPromise
  /\ register(p, <<>>, <<Cb("handle", h)>>)
  /\ parent' = [parent EXCEPT ![h] = p]
  /\ UNCHANGED <<running, following, followed, ran>>

(***************************************************************************)
(* p.set_result_from_promise(q): q.then(...), whose own promise nobody     *)
(* keeps, and then q.fail(...), in two critical sections.                  *)
(***************************************************************************)
\* Mutant: the promise is moved into the first registration.
FollowThen_Moved(proc, p, q) ==
  /\ register(q, <<Cb("adopt", p)>>, <<Cb("discard", NoPromise)>>)
  /\ following' = [following EXCEPT ![proc] = <<p, NoPromise>>]
  /\ followed' = [followed EXCEPT ![p] = q]

FollowThen(proc, p, q) ==
  /\ register(q, <<Cb("adopt", p)>>, <<Cb("discard", NoPromise)>>)
  /\ following' = [following EXCEPT ![proc] = <<p, q>>]
  /\ followed' = [followed EXCEPT ![p] = q]

set_result_from_promise(p, q) ==
  /\ Idle /\ p \in Roots /\ followed[p] = NoPromise /\ q \in Created
  /\ FollowThen(Client, p, q)
  /\ UNCHANGED <<running, parent, ran>>

\* Mutant: set_result_from_promise() follows values only.
FollowFail_ValuesOnly(proc) ==
  /\ following[proc] # <<>>
  /\ following' = [following EXCEPT ![proc] = <<>>]
  /\ running' = [t \in Threads |-> IF t = proc THEN NoJob ELSE running[t]]
  /\ UNCHANGED <<result, value_callbacks, error_callbacks, jobs, parent, followed,
                 ran>>

FollowFail(proc) ==
  /\ following[proc] # <<>>
  /\ register(following[proc][2], <<>>, <<Cb("adopt", following[proc][1])>>)
  /\ following' = [following EXCEPT ![proc] = <<>>]
  /\ running' = [t \in Threads |-> IF t = proc THEN NoJob ELSE running[t]]
  /\ UNCHANGED <<parent, followed, ran>>

(***************************************************************************)
(* The threads.                                                            *)
(***************************************************************************)
TakeJob(t) ==
  /\ running[t] = NoJob /\ jobs # <<>>
  /\ running' = [running EXCEPT ![t] = Head(jobs)]
  /\ jobs' = Tail(jobs)
  /\ UNCHANGED <<result, value_callbacks, error_callbacks, following, parent,
                 followed, ran>>

Runs(t, tags) ==
  /\ running[t] # NoJob /\ following[t] = <<>>
  /\ running[t].callback.tag \in tags

Called(t) == ran' = [ran EXCEPT ![running[t].callback.to] = @ + 1]
Ends(t)   == running' = [running EXCEPT ![t] = NoJob]

RunThen(t) ==
  /\ Runs(t, {"then"})
  /\ \E r \in Returned : set(running[t].callback.to, r)
  /\ Called(t) /\ Ends(t)
  /\ UNCHANGED <<following, parent, followed>>

\* The function returns any promise there is.
RunChain(t) ==
  /\ Runs(t, {"chain"})
  /\ \E q \in Created : FollowThen(t, running[t].callback.to, q)
  /\ Called(t)
  /\ UNCHANGED <<running, parent>>

RunForward(t) ==
  /\ Runs(t, {"forward"})
  /\ set(running[t].callback.to, running[t].result)
  /\ Called(t) /\ Ends(t)
  /\ UNCHANGED <<following, parent, followed>>

RunAdopt(t) ==
  /\ Runs(t, {"adopt"})
  /\ set(running[t].callback.to, running[t].result)
  /\ Ends(t)
  /\ UNCHANGED <<following, parent, followed, ran>>

RunHandle(t) ==
  /\ Runs(t, {"handle"})
  /\ Called(t) /\ Ends(t)
  /\ UNCHANGED <<result, value_callbacks, error_callbacks, jobs, following,
                 parent, followed>>

RunDiscard(t) ==
  /\ Runs(t, {"discard"})
  /\ Ends(t)
  /\ UNCHANGED <<result, value_callbacks, error_callbacks, jobs, following,
                 parent, followed, ran>>

Worker(t) ==
  \/ TakeJob(t)
  \/ RunThen(t) \/ RunChain(t) \/ RunForward(t)
  \/ RunAdopt(t) \/ RunHandle(t) \/ RunDiscard(t)

Next ==
  \/ \E p \in Promises, r \in Results : set_result(p, r)
  \/ \E p, c \in Promises, tag \in {"then", "chain"} : then(p, c, tag)
  \/ \E p \in Promises, h \in Handlers : fail(p, h)
  \/ \E p, q \in Promises : set_result_from_promise(p, q)
  \/ \E proc \in Procs : FollowFail(proc)
  \/ \E t \in Threads : Worker(t)

Spec == Init /\ [][Next]_vars

\* The scheduler executes its jobs and calls return; nobody has to set a promise.
FairSpec ==
  /\ Spec
  /\ \A t \in Threads : WF_vars(Worker(t))
  /\ \A proc \in Procs : WF_vars(FollowFail(proc))

-----------------------------------------------------------------------------
Settled(p) == result[p] # Undefined

\* A then() runs its function or forwards the error, never both and never twice,
\* although it registers a callback of each kind; an error function runs once at
\* most.  Two threads may register and settle at the same time.
RunsOnce == \A x \in Promises \cup Handlers : ran[x] <= 1

\* The result of a promise is not made up: the promise of a then() has a result
\* only after the one it was called on, the same error if that one failed, and
\* the result of the promise the function returned if it returned one.
ResultsFlow ==
  \A c \in Promises : parent[c] # NoPromise /\ Settled(c) =>
    /\ Settled(parent[c])
    /\ result[parent[c]] \in Errors => result[c] = result[parent[c]]
    /\ followed[c] # NoPromise => result[c] = result[followed[c]]

\* No callback is lost: once a promise is settled the function of each then()
\* called on it runs, or its error is forwarded, whether the call came before
\* the result, after it, or at the same time; and so does the function of each
\* fail() when the result is an error.
EveryCallbackRuns ==
  \A c \in Promises \cup Handlers :
    LET Due == /\ parent[c] # NoPromise
               /\ \/ c \in Promises /\ Settled(parent[c])
                  \/ c \in Handlers /\ result[parent[c]] \in Errors
    IN  Due ~> (ran[c] = 1)

\* A promise that follows another gets settled with it, even if the other gets
\* its result between the two registrations.
FollowersSettle ==
  \A p \in Promises :
    (followed[p] # NoPromise /\ Settled(followed[p])) ~> Settled(p)
=============================================================================
