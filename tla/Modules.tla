------------------------------ MODULE Modules ------------------------------
(***************************************************************************)
(* A client of a loaded module (src/traeger/module/Module.cpp) and the     *)
(* handles of the C interface it uses it through.  The functions of the    *)
(* module's actor are code of its library.  They are held by the mailbox   *)
(* that Module::impl_type owns and by the task of every message that was   *)
(* sent; tasks hold no Module.  What keeps the library open is the handles *)
(* on Module::impl_type: the client's modules and mailboxes, and the       *)
(* mailboxes that the client's callbacks have captured.                    *)
(*                                                                         *)
(* The client calls then_result() once for a message, with a closure that  *)
(* may capture a mailbox and send the next message when it is called.  A   *)
(* drainer is bound to its task here: StatelessActor shows that there are  *)
(* enough of them, and what send() does with a name that is not defined.   *)
(***************************************************************************)
EXTENDS Naturals, FiniteSets

CONSTANTS Messages,
          MaxHandles      (* how many modules, and mailboxes, the client has *)

ASSUME ModulesAssumption == IsFiniteSet(Messages) /\ MaxHandles \in Nat \ {0}

VARIABLES
  library,     (* "none", "open" or "closed": Module::impl_type::module_ptr_ *)
  functions,   (* whether Module::impl_type::mailbox_ is alive               *)
  modules,     (* how many traeger_module_t the client holds                 *)
  mailboxes,   (* how many traeger_mailbox_t the client holds                *)
  task,        (* what became of the task of a message, and of its drainer   *)
  result,      (* of the promise that send() returned                        *)
  handles,     (* the promises of send() that the client holds               *)
  children,    (* the promises of then_result() that the client holds        *)
  closure,     (* the closure given to then_result()                         *)
  captured     (* the closures that hold a mailbox                           *)

module  == <<library, functions>>
owned   == <<modules, mailboxes>>
promise == <<result, handles, children>>
vars == <<module, owned, task, promise, closure, captured>>

Kept == {"waiting", "scheduled", "called"}

TypeOK ==
  /\ library \in {"none", "open", "closed"} /\ functions \in BOOLEAN
  /\ modules \in 0 .. MaxHandles /\ mailboxes \in 0 .. MaxHandles
  /\ task \in [Messages -> {"none", "queued", "running", "ran", "released", "gone"}]
  /\ result \in [Messages -> {"unset", "value", "error", "undefined"}]
  /\ handles \subseteq Messages /\ children \subseteq Messages
  /\ closure \in [Messages -> Kept \cup {"none", "passing", "freed"}]
  /\ captured \subseteq {m \in Messages : closure[m] \in Kept}

Init ==
  /\ library = "none" /\ functions = FALSE
  /\ modules = 0 /\ mailboxes = 0
  /\ task = [m \in Messages |-> "none"]
  /\ result = [m \in Messages |-> "unset"]
  /\ handles = {} /\ children = {}
  /\ closure = [m \in Messages |-> "none"] /\ captured = {}

-----------------------------------------------------------------------------
\* The shared_ptr of Module::impl_type: Module::mailbox() returns it as a mailbox.
Refs == modules + mailboxes + Cardinality(captured)

\* A task holds its function, the arguments and the promise until it was executed.
HasFunction(m) == task[m] \in {"queued", "running", "ran"}

\* Mutant: the task keeps its promise.
PromiseAlive_Task(m) == m \in handles \/ task[m] # "none"

PromiseAlive(m) == m \in handles \/ HasFunction(m)

\* The callbacks of then_result() hold its promise, scheduled or not.
ChildAlive(m) == m \in children \/ closure[m] \in Kept \cup {"passing"}

\* Mutant: only drainers are counted.
count_Drainers == Cardinality({m \in Messages : task[m] \in {"queued"}})

\* Scheduler::count(): works, and the handles in drainers and promises.
count ==
  Cardinality({m \in Messages : HasFunction(m) \/ task[m] = "released"})
  + Cardinality({m \in Messages : closure[m] \in {"scheduled", "called", "passing"}})
  + Cardinality({m \in Messages : PromiseAlive(m)})
  + Cardinality({m \in Messages : ChildAlive(m)})

-----------------------------------------------------------------------------
(***************************************************************************)
(* The client.                                                             *)
(***************************************************************************)

\* Module::from_path: the library is opened and closed again when it has no initial
\* symbol or returns no mailbox; functions and actor of an initialisation that fails
\* are gone by then.
from_path ==
  /\ library = "none"
  /\ \/ library' = "open" /\ functions' = TRUE /\ modules' = 1
     \/ library' = "closed" /\ UNCHANGED <<functions, modules>>
  /\ UNCHANGED <<mailboxes, task, promise, closure, captured>>

module_copy ==
  /\ modules \in 1 .. MaxHandles - 1
  /\ modules' = modules + 1
  /\ UNCHANGED <<module, mailboxes, task, promise, closure, captured>>

module_get_mailbox ==
  /\ modules > 0 /\ mailboxes < MaxHandles
  /\ mailboxes' = mailboxes + 1
  /\ UNCHANGED <<module, modules, task, promise, closure, captured>>

mailbox_copy ==
  /\ mailboxes \in 1 .. MaxHandles - 1
  /\ mailboxes' = mailboxes + 1
  /\ UNCHANGED <<module, modules, task, promise, closure, captured>>

\* The client gives up its last handle when count() has returned 0, as in
\* src/examples/example-module-actor.cpp:36, and the others when it likes.
MayFree == modules + mailboxes > 1 \/ count = 0

module_free ==
  /\ modules > 0 /\ MayFree
  /\ modules' = modules - 1
  /\ UNCHANGED <<module, mailboxes, task, promise, closure, captured>>

mailbox_free ==
  /\ mailboxes > 0 /\ MayFree
  /\ mailboxes' = mailboxes - 1
  /\ UNCHANGED <<module, modules, task, promise, closure, captured>>

\* Module::impl_type::send by the client, or by a closure that is being called: the
\* mailbox pushes a task and schedules a drainer.  A closure does not keep the
\* promise.
mailbox_send(m) ==
  /\ task[m] = "none"
  /\ \/ mailboxes > 0 /\ handles' = handles \cup {m}
     \/ (\E c \in captured : closure[c] = "called") /\ UNCHANGED handles
  /\ task' = [task EXCEPT ![m] = "queued"]
  /\ UNCHANGED <<module, owned, result, children, closure, captured>>

\* What then() and set() make of the callbacks of a promise that has a result: the
\* one for it is scheduled, and the others are destroyed.
After(r, state) ==
  CASE state = "waiting" /\ r = "value" -> "scheduled"
    [] state = "waiting" /\ r = "error" -> "passing"
    [] OTHER                            -> state

promise_then_result(m) ==
  /\ m \in handles /\ closure[m] = "none"
  /\ closure' = [closure EXCEPT ![m] = After(result[m], "waiting")]
  /\ children' = children \cup {m}
  /\ \/ UNCHANGED captured
     \/ mailboxes > 0 /\ captured' = captured \cup ({m} \cap {n \in Messages : closure'[n] \in Kept})
  /\ UNCHANGED <<module, owned, task, result, handles>>

\* A promise that nobody holds any more takes its callbacks with it.
FreeUnheld(m) ==
  /\ closure' = [closure EXCEPT ![m] =
                   IF @ = "waiting" /\ ~PromiseAlive(m)' THEN "freed" ELSE @]
  /\ captured' = captured \cap {n \in Messages : closure'[n] \in Kept}

promise_free(m) ==
  /\ UNCHANGED <<module, owned, task, result>>
  /\ \/ m \in handles /\ handles' = handles \ {m} /\ UNCHANGED children
     \/ m \in children /\ children' = children \ {m} /\ UNCHANGED handles
  /\ FreeUnheld(m)

-----------------------------------------------------------------------------
(***************************************************************************)
(* The workers of the scheduler.                                           *)
(***************************************************************************)
Execute(m) ==
  /\ task[m] = "queued"
  /\ task' = [task EXCEPT ![m] = "running"]
  /\ UNCHANGED <<module, owned, promise, closure, captured>>

\* The function returns and the task sets its promise, which schedules or destroys
\* callbacks; the task is alive.
SetResult(m) ==
  /\ task[m] = "running"
  /\ task' = [task EXCEPT ![m] = "ran"]
  /\ \E r \in {"value", "error", "undefined"} :
       /\ result' = [result EXCEPT ![m] = r]
       /\ closure' = [closure EXCEPT ![m] = After(r, @)]
  /\ captured' = captured \cap {n \in Messages : closure'[n] \in Kept}
  /\ UNCHANGED <<module, owned, handles, children>>

\* The end of try_to_execute_next.
DropTask(m) ==
  /\ task[m] = "ran"
  /\ task' = [task EXCEPT ![m] = "released"]
  /\ UNCHANGED <<module, owned, promise>>
  /\ FreeUnheld(m)

\* The drainer's closure, which holds the scheduler, is destroyed last.
EndDrainer(m) ==
  /\ task[m] = "released"
  /\ task' = [task EXCEPT ![m] = "gone"]
  /\ UNCHANGED <<module, owned, promise, closure, captured>>

CallThen(m) ==
  /\ closure[m] = "scheduled"
  /\ closure' = [closure EXCEPT ![m] = "called"]
  /\ UNCHANGED <<module, owned, task, promise, captured>>

\* Mutant: the closure is freed and what it captured is not.
EndThen_Kept(m) ==
  /\ closure[m] \in {"called", "passing"}
  /\ closure' = [closure EXCEPT ![m] = "freed"]
  /\ UNCHANGED <<module, owned, task, promise, captured>>

\* The work of a callback is destroyed: the closure with what it captured, and the
\* promise of then_result().
EndThen(m) ==
  /\ closure[m] \in {"called", "passing"}
  /\ closure' = [closure EXCEPT ![m] = "freed"]
  /\ captured' = captured \ {m}
  /\ UNCHANGED <<module, owned, task, promise>>

\* ~impl_type by whoever gave up the last handle: the mailbox with the functions, and
\* then the library.
DestroyMailbox ==
  /\ Refs = 0 /\ functions
  /\ functions' = FALSE
  /\ UNCHANGED <<library, owned, task, promise, closure, captured>>

module_close ==
  /\ Refs = 0 /\ library = "open" /\ ~functions
  /\ library' = "closed"
  /\ UNCHANGED <<functions, owned, task, promise, closure, captured>>

Worker(m) ==
  \/ Execute(m) \/ SetResult(m) \/ DropTask(m) \/ EndDrainer(m)
  \/ CallThen(m) \/ EndThen(m)

Next ==
  \/ from_path \/ module_copy \/ module_get_mailbox \/ mailbox_copy
  \/ module_free \/ mailbox_free
  \/ \E m \in Messages : mailbox_send(m) \/ promise_then_result(m) \/ promise_free(m)
  \/ \E m \in Messages : Worker(m)
  \/ DestroyMailbox \/ module_close

Spec == Init /\ [][Next]_vars

\* Works are executed and end; nobody makes the client free anything.
FairSpec == Spec /\ \A m \in Messages : WF_vars(Worker(m))

-----------------------------------------------------------------------------
(***************************************************************************)
(* Properties.                                                             *)
(***************************************************************************)
CodeInUse == functions \/ \E m \in Messages : HasFunction(m)

\* No function of the module is waiting, in execution or yet to be destroyed when its
\* library is closed, whichever handle was the last and although tasks hold none: what
\* protects them is the client that waits for count() = 0, and the order in which
\* drainers, tasks and the module itself are destroyed.
CodeInUseStaysLoaded == CodeInUse => library = "open"

\* A closure that was given to then_result() is freed, with the mailbox it captured,
\* once the client let go of the promise: called or not, also when the promise never
\* gets a result.
EveryClosureFreed ==
  \A m \in Messages :
    closure[m] # "none" /\ m \notin handles ~> closure[m] = "freed" /\ m \notin captured
=============================================================================
