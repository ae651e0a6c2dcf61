# traeger in TLA+

traeger is a C++ actor library: actors whose methods are executed by a pool of
threads, promises for their results, value types, encoders, and sockets that
carry messages between processes, with a C interface and bindings for Go, Rust
and Python. This directory holds a formal model of its core, the TLC
configurations that check it, and proofs that TLAPS checks. Paths are relative
to the repository, and most of them to its directory `src/traeger`.

## 1. Inventory

| Component | State it keeps | Operations | What makes it correct |
|---|---|---|---|
| **Scheduler** `actor/Scheduler.cpp` | `active_`, two thread counters, `queue_`, `scheduled_queue_`, one mutex, one condition variable, shared ownership | `schedule`, `schedule_delayed`, `count`, the loop of each worker, the destructor | every work is executed once, not early, by some worker; no wakeup is lost; `count() == 0` means quiet; the destructor returns |
| **Queue** `actor/Queue.cpp` | `queue_`, `closed_`, mutex, condition variable | `push`, blocking `pop`, `pop(List)`, `close` | every accepted value comes out once and in order; nobody sleeps beside a value; the end is final and everybody sees it |
| **Promise** `actor/Promise.cpp` | `result_`, value and error callbacks, a scheduler | `set_result`, two `then`, `fail`, `set_result_from_promise` | the first result counts; each callback runs once, whenever it is registered; results flow along chains |
| **StatelessActor, Mailbox** `actor/StatelessActor.cpp` | methods, a queue of tasks, a `shared_mutex` | `define_reader`, `define_writer`, `mailbox`, `send`, drainers | writers alone, in order; readers in parallel, and in order with writers; every message answered |
| **StatefulActor** `actor/Actor.hpp` | the state of the actor | `define` by method signature | `const` methods are readers, exceptions become errors |
| **Result** `actor/Result.cpp` | a value, an error, or neither | accessors | three types, exclusive |
| **Context, Socket** `socket/Context.cpp`, `Socket.cpp` | a ZeroMQ socket inside an actor | `recv`, `send`: polling every 10 ms | a promise gets what was received, each message goes to one promise |
| **Requester, Replier** `socket/` | a dealer and a router socket | `send` as request and response; the reply loop | each request gets its own answer |
| **Publisher, Subscriber** `socket/` | pub and sub sockets | `publish`, the listen loop | messages reach the callback in order |
| **Module** `module/Module.cpp` | a loaded library and the mailbox of its actor, behind shared handles | `from_path`, `mailbox`, `send` | code is not unloaded while it is used |
| **Value, List, Map** `value/` | variants, persistent vectors and maps | conversions, `append`, `set`, `find`, `resize`, `erase`, `unpack`, `get`, iterators | one number is one value; what is stored is read back; negative indices; unpacking assigns everything or nothing |
| **Format** `format/` | a registry of encoders | `encode`, `decode`, `by_name` | what is decoded means what was encoded |
| **C interface** `*/traeger_*.cpp` | heap-allocated handles, closures | each operation behind a pointer | null pointers change nothing, where they are looked at; closures are freed once and always |
| **Go, Rust, Python bindings** `../go`, `../rust`, `../python` | handles; in Python the interpreter lock | the same operations in each language | all languages read and store the same values; nobody waits for two locks in a circle |

How they interact: `Mailbox::send` pushes a task and schedules a drainer on the
Scheduler the caller passes; the drainer executes a task, which sets a Promise,
which schedules its callbacks on its own Scheduler; callbacks send more
messages. Nobody calls anybody directly: everything that is concurrent goes
through the Scheduler. What they exchange are Values, made and read by any of the
languages, and encoded by a Format when they go over a socket. Sockets are actors, whose `recv` and `send` are messages
that are sent again after a delay as long as they get nothing. A Scheduler is a
shared handle, held by the client and by the closures that wait in its own
queues; the last one to go runs the destructor.

What is hard: the one condition variable on which workers with different
deadlines and the destructor wait together; the counters behind `count()`,
which are read at different times; ownership that may end on a worker; drainers
that only *try* a lock and rely on one another; callbacks registered while the
result is being set; in the sockets, polling loops, messages without identity
and errors that nobody hears of; in Python, a lock more, which the workers
take inside the scheduler and inside promises and programs hold when they come to them. `PROJECT.json` lists these hazards with their
lines.

## 2. Modules

| Module | What it models | Run by |
|---|---|---|
| `Scheduler` | `actor/Scheduler.cpp`, its one client included | `MCScheduler` |
| `WorkPool` | abstract: what a scheduler promises | refined by `Scheduler` |
| `Queue` | `actor/Queue.cpp` | `MCQueue` |
| `Promise` | `actor/Promise.cpp`, on a FIFO of jobs | `MCPromise` |
| `StatelessActor` | `actor/StatelessActor.cpp`, on a bag of drainers | `MCActor` |
| `SequentialActor` | abstract: an actor that executes one message at a time | refined by `StatelessActor` |
| `Messaging` | `socket/`: the loops of sockets, requesters, repliers, publishers and subscribers, on pipes | `MCMessaging` |
| `Modules` | `module/Module.cpp` and the handles of the C interface by which a client uses it | `MCModules` |
| `Value` | `value/`: values, lists, maps, iterators, as operators | through `Values` |
| `Bindings` | what C, Go, Rust and Python make of these operations | through `Values` |
| `Formats` | `format/`: the three encoders and decoders, as operators | through `Values` |
| `Values` | one program that uses all of them in any language | `MCValues` |
| `Interpreter` | a Python program on a scheduler: the interpreter lock, and the mutexes of the scheduler and of promises | `MCInterpreter` |
| `SchedulerProofs`, `QueueProofs`, `ActorProofs`, `PromiseProofs`, `MessagingProofs`, `ModulesProofs`, `ValuesProofs`, `InterpreterProofs` | theorems | |

`Messaging` and `Modules` are built on what the others promise and not on their
steps: that a job is executed once (`WorkPool`), that a promise is set once and
then its callback runs (`Promise`), that an actor answers every message
(`SequentialActor`). `Interpreter` takes from `Scheduler` that no wakeup is lost,
and splits the critical sections that need a second lock. `Values` composes `Value`, `Bindings` and `Formats`.

A critical section of a mutex is one action everywhere: between locking and
unlocking the code calls nothing that waits, except the condition variable,
where an action ends, and except functions of Python that are copied or destroyed,
which `Interpreter` is about. What happens outside the mutex is an action of its own.

**Scheduler.** `pc` says where each thread is. A worker goes from `"next"`
(about to lock in `next()`) through `"wait"` or `"timed"` (asleep without or
with a deadline) and `"woken"` to `"taken"` (it has a work and the mutex is
free), `"running"`, `"spent"` (executed, the closure still alive) and back.
`"spin"` is the loop of `next()` that no branch leaves, with the mutex in hand;
every action that needs the mutex has the guard `MutexFree`. The client is
`"holding"` its handle, between the two reads of `count()`, or `"gone"`;
`"stop"`, `"stop_wait"`, `"stop_woken"` and `"join"` are the destructor, which
runs on whatever thread dropped the last handle (`Drop` by the client, `Release`
by a worker whose closure held it). The client leaves when `count()` was 0 or without
asking, which `seen` remembers as -1. `KeepersOnly` and `Orderly` say that all
works scheduled so far hold the scheduler and that the client has not left so. `Keepers` are the works whose closure holds a
Scheduler: drainers and the callbacks of `then()` do, a work given to
`schedule()` and an error callback given to `fail()` need not. `notify_one`
wakes any waiter; waits may end spuriously. `MaySchedule` says who can still
call `schedule()`: who has a handle or a work running that has one, or
captured a reference to the client's. Works return and do not throw (`worker()`
is `noexcept`, an exception would end the program).

**Queue.** A consumer calls `pop()` in a loop until it returns nothing, as the
tests do; anybody pushes, closes, or empties the queue with `pop(List)`.

**Promise.** A callback is a record of what it does and for whom; `jobs` is the
scheduler's queue, which executes each job once (`WorkPool`). `then` registers
two callbacks, `fail` one; `FollowThen` and `FollowFail` are the two critical
sections of `set_result_from_promise`, called by the client or by the callback
of the second `then`. Callbacks return any result in `Returned` or any promise
there is, cycles included.

**StatelessActor.** `send` is `push` and then `ScheduleSent`, since each locks
`tasks_mutex_` by itself. A drainer takes the front task if it gets the lock in
the task's mode (`TakeTask`), executes it outside the mutex (`Execute`), gives
the lock back (`Unlock`) and schedules the next drainer if tasks are left
(`EndDrainer`). `loaded` is the state a writer has read when it begins and
overwrites when it ends, so a writer that ran beside another one would lose an
update. A writer that throws may have changed the state before.

**Messaging.** An operation is one call of `Socket::send` or `Socket::recv`, and
`stage` is where its loop is: about to look at its promise (`"poll"`), waiting
for the actor of the socket (`"asked"`), with that actor's value in its callback
(`"got"`), or over. `Ask`, `Await` and `Answer` are the dealer's send and recv
and the router's send for one message, `Listen(k)` the k-th recv of a replier or
subscriber. `RequesterSend`, `ThenRecv` and `ThenUnpack` are the parts of
`Requester::mailbox_type::send`; `ScheduleListen`, `ThenReply`, `Handled` those
of `schedule_reply` and `reply`, which the subscriber shares up to the sending
of an answer. `Stop` is somebody who sets the promise of `reply()` or `listen()`,
`Adopt` what `set_result_from_promise` makes of that. The pipes are ZeroMQ's
(external): FIFO, of bounded length, one in each direction between a requester
and the replier; a full dealer refuses, a full router and a publisher drop, and
`Context.cpp:75` reports that the message was sent. `Waiting` are the messages of a
requester without an answer, `Dropped` the answers that are nowhere any more.
`Throw` is any call of ZeroMQ that throws. A message is known by what becomes of
it: answered with a value, an error or nothing, not understood, or not encodable
to begin with. `Setup` says who sends what.

**Modules.** The C interface gives a client handles on modules, mailboxes and
promises. The handles of the first two, and the mailboxes that closures have
captured, are the shared handles on `Module::impl_type` (`Refs`); when the last
one goes, its destructor frees the functions (`DestroyMailbox`) and then closes
the library (`module_close`). `task` follows a message and its drainer,
`closure` the one closure given to `then_result()`. `count` is
`Scheduler::count()`; the client gives up its last handle when it is 0, as the
examples do. That is the client's discipline (`MayFree`): the library would be closed
under a task that is left, and Go's finalizers do not wait. Since `count` includes the
closures, the last handle is always one of the client's.

**Value, Bindings, Formats, Values.** A value is its type and data; widths
are given by what fits, so that nothing depends on powers of 2: integers by the
largest signed one (`MaxInt`), C's `int` and the 32 bit integers by theirs
(`MaxIndex`, `MaxInt32`), floats by `Significand` and `Units`, the multiples of
a unit below so many of it;
NaN and the infinite floats are values of their own, the sign of zero and numbers
beyond every float are left out; a string is one of the kinds that conversions tell
apart. The operators of
`Value` are the C++ functions, those of `Bindings` what each language adds to
them: Go's type switches, cuts and assignments, Rust's match on a variant,
Python's order of trials (booleans before integers, signed before unsigned),
null pointers of C. Those are ignored but for two places: `traeger_map_set_list` (at
`traeger_value.cpp:555`) reads the list without a look at the pointer, so that a null
list ends the program (`NullList`), and `traeger_map_find` trusts its pointer to the
result, which no binding leaves null. Go's `Append` and `Set` say that they stored the
zero `String`, whose pointer is null, and store nothing (`NilString`). `Formats` writes trees instead of text: which node each
encoder makes of each type and which type each decoder makes of each node; the
text itself is the library's. What the libraries do to floats is part of it: JSON
writes NaN and the infinite ones as null; MessagePack packs a float that equals an
integer of 64 bits as that, for which the first float beyond them is converted in a way
C++ does not define (`Saturates`); YAML writes a whole float like an integer up to
10^17 (`Exponent`), and `.nan` and `.inf`, which `std::stod` does not read. A writer or reader of one node takes what its
elements have become (`elements`), and those of whole values are put together from
three of them (`Write0` to `Write2`), since no value of the program nests
deeper. `Values` is a program that has one object and does
to it, in each step in whatever language, what these offer; `meant` remembers
the argument that was stored in its innermost place, unless it was sent in a format
that loses it (`Loses`: NaN and the infinite floats in JSON and YAML, bytes in YAML),
`unpacked` and `walk` what
an unpacking and an iteration gave so far. `SetIn`, `GetIn`, `AppendIn` and
their like choose the operator of a language.

**Interpreter.** `gil`, `mutex` and `lock` are the owners of the interpreter lock, of
the scheduler's mutex and of the mutex of each promise. Python code runs with the
interpreter lock (`InPython`), of which the interpreter makes its owner give it to
others now and then (`Switch`, `Resume`). The methods of the binding keep it:
`CallSchedule` and `schedule` are the call and the critical section of `schedule()`,
`schedule_delayed()` and `send()`; `CallThen` and `register` those of `then_result()`,
`then_promise()` and `fail()`; `CallSet` and `set` those of a promise's `set()`; and
`queue_next` and `pop` those of `Queue.__next__`. Only `count` releases it until it
returns. A worker takes it to call a function (`Resume`, `Return`), to destroy it
(`Destroy`), and to copy a delayed one out of the heap (`CopyDue`), there with the
mutex in hand (`TakeDue`).

Whoever settles a promise, be it a worker with what a function returned (`Settle`) or
Python, keeps the mutex of the promise while it schedules the handlers of one kind
(`ScheduleCallback`, which needs the scheduler's mutex) and destroys those of the
other (`DiscardHandler`, which needs the interpreter lock), until `Unlock`; so does who
registers at a promise that is settled. A `then()` is two handlers, of which the
function goes with the one for values; the other one passes an error on and is
scheduled without its function (`forwarding`). `Keepers` are as in `Scheduler`, each
with the promise that gets its result. `Kept` are those whose promise the program and
the functions in `Capturing` refer to, until `count()` was 0. The Scheduler of Python
is an object that the program's variable and these functions refer to, and which is one
of the handles; `LastHolder` says who destroys `impl_type`. That nanobind's wrapper of
a function takes the lock to be called, copied and destroyed is external. Only the
program counts and iterates; the time at which a delayed work is due is left open.
Left out are promises that follow the one a function returned, the order of handlers
(both are in `Promise`), and `__repr__` of a promise, which waits for its mutex as
`set()` does.

The abstract specifications say what users rely on. `WorkPool`: works submitted
to an open pool are executed once, by at most as many workers as there are
threads, not before their delay; the pool does not close on a work that holds
it, and every waiting work gets its turn while it is open. `SequentialActor`:
messages are executed one at a time and at once; a writer after everything that
arrived before it and before everything that arrived after it, a reader in
order with the writers; every message is answered.

## 3. Runs

| Run | Instance | What it shows |
|---|---|---|
| `sched_pool` | 2 threads, 3 works, two of them keepers, delays 0 to 2, a client that waits for `count() = 0` or leaves at any time | `NoLostWakeup`, `WorkConserving`, `DestroyedUnowned`; `ImplementsFairPool`: the scheduler implements `WorkPool`, fairness included. While only keepers are scheduled, `CountZeroMeansQuiet`, `NoWorkerDestroys`: waiting for zero is a safe way to leave, although the two halves of `count()` are read at different times; `PatientReturns`: stop() hears of the last worker |
| `sched_hang` | 2 works that hold no scheduler | violates `DestructorReturns` (finding 1) |
| `actor` | 2 threads, 2 senders, 3 messages, a reader, a writer and a name without a method; the reader becomes a writer | `WriterAlone`, `EnoughDrainers`, `NoDrainerLeak`; `ImplementsFairActor`: the actor implements `SequentialActor` |
| `promise` | 2 threads, 3 promises from one source, 1 error callback, callbacks that return every kind of result or a promise | `RunsOnce`, `ResultsFlow`, `EveryCallbackRuns`, `FollowersSettle`: along chains, forks and followers |
| `queue` | 2 consumers, 3 values | `NoLostWakeup`, `DeliveredInOrder`, `EndIsFinal`, `CloseEndsOne` |
| `queue_close` | the same | violates `CloseEnds` (finding 2) |
| `messaging` | 2 messages of one or two requesters or publishers in six setups, pipes of length 1, one fault | `EachMessageOnce`, `AnswersAreResults`, `SerialAnswersAreOwn`: where each message is and whose answer completes it. `EveryRequestAnswered`, `StopEndsListening`: the loops neither die nor survive, and what is not answered is what the router dropped, which happens only to a requester that sends before it has its answer |
| `answers_swapped` | two messages of one requester in flight | violates `AnswersAreOwn` (finding 3) |
| `values` | lists and maps of up to 2 elements, nested up to twice, five languages, three formats | `UIntIsLarge`, `StoresReadBack`, `StoresWhereAsked`, `UnpackAllOrNothing`, `WireKeepsMeaning`, `WalkVisitsOnce` |
| `values_cast` | the same | violates `BadCastIsAnError` (finding 4) |
| `modules` | 2 messages, up to 2 modules and 2 mailboxes | `CodeInUseStaysLoaded`, `EveryClosureFreed` |
| `python` | 2 threads, 2 messages or callbacks, a delayed function, of which a message and the function refer to the scheduler and to the promise of that message, a queue of 1 value | `LeftQuiet`, `ProgramEnds`: programs that only send messages, wait for `count() = 0` and return do so, although they destroy the scheduler with the interpreter lock held. `OnlyKnownWaits`: a work fails to complete, and a handler to be scheduled or destroyed, only in the circular waits `CopyingWaits`, `SettlingWaits` and `IteratingWaits` |

*Bounds.* Two threads are enough for every race of the code: its critical
sections involve one thread and one other that waits or has just read. Three
works on two threads make one of them wait while both threads are busy; two
delays give two deadlines that can come in either order with a worker asleep on
the later one. `Horizon` bounds the clock and with it the delayed works:
`schedule` is not called when the work would come due after it. Each work,
message and value is used once, which bounds the counters. Three messages let
a reader and two writers, or a writer and two readers, meet. Three promises are
a chain of two, a fork, or a promise that follows another.

Two messages fill a request pipe (`RequestMark` 1) and leave one to be refused, and two
answers a response pipe (`ResponseMark` 1), so that the second is dropped; they
race for one dealer, and let a replier be stopped between the first and the
second; a setup pairs a message that goes wrong in each way with one that must
not suffer from it. In `values` integers of 3 bits (`MaxInt` 3) have all that 64 have: a sign, numbers
that fit only unsigned, and for Python's integers some beyond both; 2 significant
bits (`Significand` 4) make floats that are exact, rounded and halfway, whole or not, on both sides of the
`Exponent` 6 of YAML and of the largest integer, with NaN and the infinite ones beside
them; `Saturates` is true in `values`, where MessagePack packs the float 16 as the
integer 15 and it is read as 16 again, and false in `values_cast`; 3 bits of
index let -3 and 8 be cut to another index. Two elements have a first and a last, two keys one
that is there and one that is not. A list in a list in a list is the deepest
object (`MaxNested` keeps those that are nested again to one element). Two
modules and two mailboxes make a handle the last one or not; a closure that
sends the second message with a mailbox that it captured is what outlives them.
A Python program, a worker that copies and a worker that calls are all that can
meet at the interpreter lock and the scheduler's mutex; one promise that is kept
(`Kept`) and one more message, which goes to a worker or is registered at it, are its
two kinds of handler, at a promise that is settled by a worker, by the program or by
both; `MaxValues` is 1, a queue being empty or not.
`MaxFaults` is 1: a requester whose recv failed is the interesting one.

Deadlock is not checked in these runs, since all of these programs may stop: a
scheduler whose client has left, a queue that is closed, an actor without
messages, a client that has freed everything.

*Fairness.* `FairSpec` asks for weak fairness of each thread's own steps: the
mutex is granted, works and methods return, deadlines pass (`Tick`). Nobody is
obliged to schedule, push, close, set a promise or leave. It is what an
operating system gives to threads that are not blocked; the code's mutexes are
held for finitely many steps except in `"spin"`, where the model disables
everybody else, too. In `Messaging` and `Modules` it is that jobs which are
scheduled are executed and actors handle their messages, which is what
`ImplementsFairPool` and `ImplementsFairActor` show of the modules below; nobody
makes a client send, stop a replier, or free a handle. In `Interpreter` a thread
that waits for the interpreter lock gets it even if others keep taking it (strong
fairness: the interpreter makes an owner of 5 ms switch to a waiter), and a
function returns however often it is interrupted; nobody makes the program
schedule, count, iterate or return. `Values` is sequential and
has none.

Each property of a passing run has a mutant in `PROJECT.json`, a definition with
a plausible mistake in it (named `<definition>_<mistake>` and placed before the
definition it changes) under which TLC finds the property violated.

## 4. Findings

1. **The destructor may never return** (`actor/Scheduler.cpp:155`). If works that
   hold no scheduler are still in `queue_` when `active_` is cleared, the worker
   that comes to `next()` loops with the mutex locked.
2. **`Queue::close()` wakes one consumer** (`actor/Queue.cpp:79`); others that are
   blocked in `pop()` sleep for ever. `CloseEndsOne` is what does hold.
3. **Answers have no identity** (`socket/Requester.cpp:46`). Two messages of one
   requester that are in flight together may be completed with each other's
   answers; `SerialAnswersAreOwn` is what does hold, and it survives faults:
   after a failed recv the answer is left in the pipe for the next message, but
   then the requester had not waited for it.
4. **A text that is no number ends the program** (`value/Value.cpp:42`): it is
   read with `std::stol` in a function that is `noexcept`. An argument of the
   wrong type is an error otherwise.

More things to know, which the models show and no run singles out:

- *A delayed Python function may stop everything* (`actor/Scheduler.cpp:142`): it is
  copied with the scheduler's mutex held, which takes the interpreter lock, and
  whoever calls `schedule()` or `send()` from Python has that lock and wants the
  mutex (`CopyingWaits`). Functions that are not delayed are moved and not copied.
- *A promise may stop everything, too* (`actor/Promise.cpp:97` and `114`): the worker that
  settles it destroys the functions that will not be called with the promise's mutex
  held, for which it needs the interpreter lock, while `then_result()`,
  `then_promise()`, `fail()` or `set()` of the same promise, called from Python, has
  that lock and wants the mutex (`SettlingWaits`).
- *A Python function may destroy the scheduler it ran in* (`actor/Scheduler.cpp:109`):
  it is destroyed after it has left `count()`. With a reference to the scheduler it
  may be the last one to have any; without, the program may be in the destructor
  with the interpreter lock by then. What `send()` and `then()` schedule is counted
  until its function is destroyed, which is why `LeftQuiet` and `ProgramEnds` are
  about programs that scheduled nothing else.
- `CountZeroMeansQuiet` is about works that hold a scheduler, as all of the
  library's own do. One that holds none is in no counter between `next()` and
  `++active_threads_count_` (`actor/Scheduler.cpp:107`).
- *A router drops answers* (`socket/Context.cpp:75`): a requester that sends so many
  messages before it reads that its response pipe reaches ZeroMQ's high water mark
  loses answers, its promises are never set, and nobody hears of it.
- *Floats change in formats*: NaN and the infinite ones become null in JSON
  (`format/Format_json.cpp:123`) and words in YAML, and a whole float becomes an
  integer in MessagePack (`format/Format_msgpack.cpp:124`), so that `get_int` and
  `get_uint` answer where they did not. As a float it reads the same.
- *A null list in `traeger_map_set_list` ends the program* (`value/traeger_value.cpp:555`);
  the other functions of its kind ignore null pointers. *Go's zero `String`* is
  ignored although `Append` and `Set` return true (`../go/value.go:145`).

## 5. Proofs

All theorems hold for any finite set of threads (senders, consumers) and any set
of works, messages, promises or values, for pipes of any length and integers of any
width, under the `...Assumption` of each module. TLC evaluates these assumptions in
the runs. Every invariant that a passing run checks is the subject of a theorem.

- **`SchedulerProofs`**
  - `Typing`: `Spec => []TypeOK`. The counters are the problem: that
    `threads_count` does not go below 0 holds because it *is* the number of
    threads that have not exited, and `active_threads_count` the number of those
    that run (`Accounting`); `HasWork` adds that a thread past `next()` has a work.
  - `WakeupsNotLost`: `Spec => []NoLostWakeup`. The invariant is strengthened by
    what sleeping threads know: lemma `NotifyOneWakes` gives that a notification
    reaches a waiter if there is one, and a waiter in `"timed"` has read a deadline
    that bounds the delayed works or somebody else is up.
  - `CountZeroQuiet`: `Spec => []CountZeroMeansQuiet`, for the states in which only
    keepers were scheduled so far (`KeepersOnlyBefore`: then it was so before, too).
    `CountInv` follows the client through the two reads in both orders: a first
    part of zero with the second still to come is only dangerous if works can
    appear in between, and with no keeper alive nobody can schedule one. This is
    where `MaySchedule` is needed.
  - `PatientClientDestroys`: `Spec => []NoWorkerDestroys`, for those in which moreover
    the client has not left without asking. By `LeftEmpty`: once the client has
    given up its handle no work exists, so no worker can be the last owner nor find
    works in an inactive scheduler.
  - `DestructorOwnsNothing`: `Spec => []DestroyedUnowned`. `OnePlace`: a work is in
    one of the two queues or with one worker, and there once; so the number of
    handles counts closures, and the thread that drops the last handle
    (`LastHandle`) leaves none. `DeadStays`: afterwards nobody can schedule.
  - `ImplementsPool`: `Spec => Pool!Spec`, the safety part of `ImplementsFairPool`.
    Every action is a step of `WorkPool` or a stutter; it needs that a work is in
    one place, so that it is started once, that the works in `queue_` are due
    (`DueAtOnce`), and that a thread that takes a work has none (`RoomForOne`).
  - `WorksConserved`: if delays are not negative, `Spec => []WorkConserving`. While
    somebody sleeps without a deadline, the immediate works and the workers on their
    way to look at the queues come and go together; a notification that finds
    nobody asleep found every worker on its way (`ConservingInv`).
- **`QueueProofs`**: `Typing`, `WakeupsNotLost` (one `notify_one` per push is
  enough, by counting the consumers that are awake), `TheEndIsFinal`, and
  `ValuesInOrder`: `Spec => []DeliveredInOrder`. What a consumer has is embedded in
  what was accepted, and all of it is before what is left in the queue; nothing
  is held twice.
- **`PromiseProofs`**: `Typing`, `CallbacksRunOnce` and `ResultsFlowDown`. The
  invariant gives every callback an owner, the promise of a `then()` or a handler
  of `fail()`. A promise without a result has the callbacks of each owner
  registered, one for each kind of result (`Registered`), a settled one has none
  (`Settling`); of the two one is in the scheduler, the only one for its owner and
  with the result of the promise (`Scheduled`), and a function that was called has
  no callback left (`Counted`). What a promise was set to then comes from its
  parent or from the promise it follows (`Flow`).
- **`ActorProofs`**: `Typing`, `WritersAlone`, `DrainersEnough` and
  `DrainersBounded`. The last two count drainers in the scheduler, senders between
  the halves of `send()`, and threads that are about to look at the queue;
  `schedule_next()` gives one drainer for one that ends unless there is no task.
  - `ImplementsActor`: `Spec => Abstract!Spec`, the safety part of
    `ImplementsFairActor`. The tasks are the tail of what was received
    (`QueueIsTail`), and what is before them is answered or being executed
    (`Progress`). A task that conflicts with a message was received before it only
    if it was answered before it was taken (`InOrder`), so what a method has read of
    the state is still the state when it ends (`FreshState`).
- **`MessagingProofs`**: `Typing`, `MessagesMoveOnce`, `AnswersOnce` and
  `WaitersGetTheirs`. The invariant ties the stage of each loop to what it has read
  and to its promise (`LoopInv`), the calls of a request to one another
  (`OrderInv`), and the rounds of a replier to its one listening loop
  (`ListenInv`): each round that is over received a message of its own, which
  bounds the rounds by the number of messages. On that rests where messages are: a
  request in a pipe is there once and in no loop's hands (`PipeInv`), what a loop
  has no other has (`HoldInv`), and what was sent is in a pipe, in a loop, looked
  at, or lost by the last loop of a replier that was stopped (`EndInv`, `LostInv`).
  `SerialInv` says of a requester that waits why it needs no identities: at most one of its
  messages is without an answer, and whatever answer is in the pipe or in a loop
  is that one's.
- **`ValuesProofs`**: `Typing`, `NumbersHaveOneType`, `ReadAsMeant`,
  `StoredWhereAsked`, `UnpackedWhole`, `SentAsMeant` and `EachVisitedOnce`, all from
  `InductiveInvariant`: the object is made of scalars in the one form that
  `Value::Value` gives them (`Canonical`), alone or in lists and maps up to the depth of
  `Values` (`ObjectInv`); what was meant is the one scalar of the object, its text, or
  the integer that MessagePack made of a whole float (`MeantInv`, `Carries`); the variables are what an unpacking of this object
  gives (`UnpackedInv`), and a walk has come to as many elements as its iterator
  says (`WalkInv`). The lemmas go by layer: numbers and the nearest float (`ValueAssumption`
  has units halve each other, `ValuesAssumption` a float near each number); each
  language's operation is the one of C++ on what it makes of its
  arguments; lists and maps of any length; a scalar written and read by each format
  (what YAML makes a text of every getter reads the same); and values, one level
  upon another, which is why the formats are not written with RECURSIVE.
- **`ModulesProofs`**: `Typing` and `CodeStaysLoaded`. Tasks hold no handle, so
  nothing local keeps the library open for them. The argument is about the client:
  when `count()` is 0 nothing of any message is left (`CountZeroQuiet`), and
  without a handle or a closure nothing can come to be again (`OwnedOrQuiet`).
- **`InterpreterProofs`**: `Typing`; and, as long as only keepers were scheduled
  (`KeepersStep`), `LeavesQuiet`: `Spec => []LeftQuiet`, and `NobodyBlocks`:
  `Spec => []NoWorkerBlocks`. Keepers are
  counted until their function and their handle are gone, and so are those that are
  handlers of a promise, so 0 means that no worker has a work and no promise a handler,
  and then only the program can schedule, which ends `quiet` (`QuietInv`). Who has left has left nothing behind, so that no worker is the last
  to hold the scheduler; and where nothing is delayed or left in the queue of an
  inactive scheduler no worker stays with the scheduler's mutex (`BlockInv`); a
  promise's mutex may still be what somebody waits for.

Only model-checked: liveness and fairness (`PatientReturns`, `ImplementsFairPool`,
`ImplementsFairActor`, `EveryCallbackRuns`, `FollowersSettle`, `CloseEndsOne`,
`EveryRequestAnswered`, `StopEndsListening`, `EveryClosureFreed`, `ProgramEnds`,
`OnlyKnownWaits`), which is out of the prover's reach as are `ENABLED` and
induction over data. That is why values nest only as deep as the program of
`Values` makes them: what holds of values of every depth would need that induction.

## 6. Plan

What is left, the most used behaviour first:

1. Works that schedule themselves again, to state the starvation of `queue_` by
   delayed works that come due, which every socket has.
2. Handles of the bindings: the finalizers of Go, and the `RefCell` of Rust that
   readers borrow at the same time.

## 7. Not modelled, and why

- The text of JSON, YAML and MessagePack, and the libraries that write and read
  it, are external; text that no encoder wrote is the kind `"malformed"` of
  `Messaging`. Printing and comparison change nothing and no property is about
  them.
- ZeroMQ is external: connections, subscriptions and reconnections are behind its
  pipes. Errors of `bind` and `connect` are returned before there is a socket.
- The garbage collector and finalizers of Go, the counter of Rust's `RefCell`,
  the way Python's interpreter hands its lock on: each belongs to a run-time system rather than
  to this code. What the bindings do besides values, lists and maps delegates to
  the C interface or to C++; for Python see `Interpreter`.
- The unpacking of arguments by template in `Actor.hpp` and `Function.hpp` is
  `Unpack` of `Value`; exceptions out of a work end the program.
- `count()` and `closed()` of `Queue`, `result()` and `has_result()` of `Promise`
  read one variable under its mutex and change nothing, in Python with the interpreter
  lock.
- What an implementation of `wait_until` does with the reference to the top of the
  heap that it is given, after the heap has changed, is left out: the deadline of
  a wait is the one read when it begins.
