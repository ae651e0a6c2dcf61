---------------------------- MODULE ModulesProofs ----------------------------
(***************************************************************************)
(* The library of a module stays open as long as its code is in use, for   *)
(* any number of messages and handles.  Tasks hold no handle, so nothing   *)
(* local keeps the library open for them; the argument is about the client *)
(* that gives up its last handle only when count() = 0.  At that moment no *)
(* task, no promise and no callback is left (CountZeroQuiet), and without  *)
(* a handle none can come to be again: that is OwnedOrQuiet.               *)
(***************************************************************************)
EXTENDS Modules, FiniteSetTheorems, TLAPS

\* Nothing of a message is left, and no closure will send another one.
Quiet ==
  /\ \A m \in Messages : /\ ~HasFunction(m)
                         /\ closure[m] \notin Kept \cup {"passing"}
  /\ handles = {} /\ children = {} /\ captured = {}

OwnedOrQuiet == modules + mailboxes = 0 => Quiet

\* Before the library is open, and after it was closed, nothing of it exists.
NoneBeforeOpen == library # "open" => modules + mailboxes = 0 /\ ~functions

Inv == TypeOK /\ OwnedOrQuiet /\ NoneBeforeOpen /\ CodeInUseStaysLoaded

-----------------------------------------------------------------------------
(***************************************************************************)
(* Type correctness.                                                       *)
(***************************************************************************)
LEMMA TypeInit == Init => TypeOK
<1> SUFFICES ASSUME Init PROVE TypeOK
  OBVIOUS
<1>1. functions \in BOOLEAN
  BY DEF Init
<1>2. modules \in 0 .. MaxHandles /\ mailboxes \in 0 .. MaxHandles
  BY ModulesAssumption DEF ModulesAssumption, Init
<1> QED
  BY <1>1, <1>2 DEF Init, TypeOK

\* FreeUnheld() only turns closures that wait into freed ones.
LEMMA FreeUnheldType ==
  ASSUME TypeOK, NEW m \in Messages, FreeUnheld(m)
  PROVE  /\ closure' \in [Messages -> Kept \cup {"none", "passing", "freed"}]
         /\ captured' \subseteq {n \in Messages : closure'[n] \in Kept}
         /\ captured' \subseteq captured
         /\ \A n \in Messages : closure'[n] \in {closure[n], "freed"}
  BY DEF FreeUnheld, TypeOK, Kept

LEMMA TypeStep == TypeOK /\ [Next]_vars => TypeOK'
<1> SUFFICES ASSUME TypeOK, [Next]_vars PROVE TypeOK'
  OBVIOUS
<1> USE ModulesAssumption DEF ModulesAssumption, module, owned, promise
<1>1. CASE from_path
  <2>1. functions' \in BOOLEAN
    BY <1>1 DEF from_path, TypeOK
  <2>2. modules' \in 0 .. MaxHandles
    BY <1>1 DEF from_path, TypeOK
  <2> QED
    BY <1>1, <2>1, <2>2 DEF from_path, TypeOK
<1>2. CASE module_copy
  BY <1>2 DEF module_copy, TypeOK
<1>3. CASE module_get_mailbox
  BY <1>3 DEF module_get_mailbox, TypeOK
<1>4. CASE mailbox_copy
  BY <1>4 DEF mailbox_copy, TypeOK
<1>5. CASE module_free
  BY <1>5 DEF module_free, TypeOK
<1>6. CASE mailbox_free
  BY <1>6 DEF mailbox_free, TypeOK
<1>7. ASSUME NEW m \in Messages, mailbox_send(m) PROVE TypeOK'
  BY <1>7 DEF mailbox_send, TypeOK
<1>8. ASSUME NEW m \in Messages, promise_then_result(m) PROVE TypeOK'
  <2>1. closure'[m] \in Kept \cup {"passing"} /\ closure[m] \notin Kept
    BY <1>8 DEF promise_then_result, After, TypeOK, Kept
  <2>2. closure' \in [Messages -> Kept \cup {"none", "passing", "freed"}]
    BY <1>8, <2>1 DEF promise_then_result, TypeOK
  <2>3. \A n \in captured : n \in Messages /\ closure'[n] = closure[n]
    BY <1>8, <2>1 DEF promise_then_result, TypeOK
  <2>4. captured' \subseteq {n \in Messages : closure'[n] \in Kept}
    BY <1>8, <2>3 DEF promise_then_result, TypeOK
  <2> QED
    BY <1>8, <2>2, <2>4 DEF promise_then_result, TypeOK
<1>9. ASSUME NEW m \in Messages, promise_free(m) PROVE TypeOK'
  BY <1>9, FreeUnheldType DEF promise_free, TypeOK
<1>10. ASSUME NEW m \in Messages, Execute(m) PROVE TypeOK'
  BY <1>10 DEF Execute, TypeOK
<1>11. ASSUME NEW m \in Messages, SetResult(m) PROVE TypeOK'
  <2>1. \A r : After(r, closure[m]) \in Kept \cup {"none", "passing", "freed"}
    BY DEF After, TypeOK, Kept
  <2> QED
    BY <1>11, <2>1 DEF SetResult, TypeOK
<1>12. ASSUME NEW m \in Messages, DropTask(m) PROVE TypeOK'
  BY <1>12, FreeUnheldType DEF DropTask, TypeOK
<1>13. ASSUME NEW m \in Messages, EndDrainer(m) PROVE TypeOK'
  BY <1>13 DEF EndDrainer, TypeOK
<1>14. ASSUME NEW m \in Messages, CallThen(m) PROVE TypeOK'
  BY <1>14 DEF CallThen, TypeOK, Kept
<1>15. ASSUME NEW m \in Messages, EndThen(m) PROVE TypeOK'
  BY <1>15 DEF EndThen, TypeOK
<1>16. CASE DestroyMailbox
  BY <1>16 DEF DestroyMailbox, TypeOK
<1>17. CASE module_close
  BY <1>17 DEF module_close, TypeOK
<1>18. CASE UNCHANGED vars
  BY <1>18 DEF vars, TypeOK
<1> QED
  BY <1>1, <1>2, <1>3, <1>4, <1>5, <1>6, <1>7, <1>8, <1>9, <1>10, <1>11, <1>12,
     <1>13, <1>14, <1>15, <1>16, <1>17, <1>18 DEF Next, Worker

\* Type correctness, in particular that only a closure which exists holds a mailbox,
\* for any number of messages and handles.
THEOREM Typing == Spec => []TypeOK
<1>1. Init => TypeOK
  BY TypeInit
<1>2. TypeOK /\ [Next]_vars => TypeOK'
  BY TypeStep
<1> QED
  BY <1>1, <1>2, PTL DEF Spec

-----------------------------------------------------------------------------
(***************************************************************************)
(* The library.                                                            *)
(***************************************************************************)

\* When count() is 0 no task, promise or callback is left.
LEMMA CountZeroQuiet ==
  ASSUME TypeOK, count = 0
  PROVE  Quiet
<1> DEFINE tasks   == {m \in Messages : HasFunction(m) \/ task[m] = "released"}
           works   == {m \in Messages : closure[m] \in {"scheduled", "called", "passing"}}
           parents == {m \in Messages : PromiseAlive(m)}
           thens   == {m \in Messages : ChildAlive(m)}
<1>1. /\ IsFiniteSet(tasks) /\ IsFiniteSet(works)
      /\ IsFiniteSet(parents) /\ IsFiniteSet(thens)
  BY ModulesAssumption, FS_Subset DEF ModulesAssumption
<1>2. /\ Cardinality(tasks) \in Nat /\ Cardinality(works) \in Nat
      /\ Cardinality(parents) \in Nat /\ Cardinality(thens) \in Nat
  BY <1>1, FS_CardinalityType
<1>3. Cardinality(tasks) + Cardinality(works) + Cardinality(parents) + Cardinality(thens) = 0
  BY DEF count
<1>4. Cardinality(tasks) = 0 /\ Cardinality(parents) = 0 /\ Cardinality(thens) = 0
  <2> HIDE DEF tasks, works, parents, thens
  <2> QED
    BY <1>2, <1>3
<1>5. tasks = {} /\ parents = {} /\ thens = {}
  BY <1>1, <1>4, FS_EmptySet
<1>6. \A m \in Messages : ~HasFunction(m) /\ ~PromiseAlive(m) /\ ~ChildAlive(m)
  BY <1>5
<1> QED
  BY <1>6 DEF Quiet, PromiseAlive, ChildAlive, TypeOK

LEMMA RefsZero ==
  ASSUME TypeOK, Refs = 0
  PROVE  modules + mailboxes = 0
<1>1. Cardinality(captured) \in Nat
  BY ModulesAssumption, FS_Subset, FS_CardinalityType DEF ModulesAssumption, TypeOK
<1> QED
  BY <1>1 DEF Refs, TypeOK

LEMMA InvInit == Init => Inv
  BY TypeInit DEF Init, Inv, OwnedOrQuiet, Quiet, NoneBeforeOpen, CodeInUseStaysLoaded,
     CodeInUse, HasFunction, Kept

LEMMA InvStep == Inv /\ [Next]_vars => Inv'
<1> SUFFICES ASSUME Inv, [Next]_vars PROVE Inv'
  OBVIOUS
<1>0. TypeOK /\ TypeOK'
  BY TypeStep DEF Inv
<1> DEFINE Goal == OwnedOrQuiet' /\ NoneBeforeOpen' /\ CodeInUseStaysLoaded'
<1> USE <1>0 DEF module, owned, promise
<1>01. modules \in Nat /\ mailboxes \in Nat
  BY DEF TypeOK
<1>1. ASSUME from_path PROVE Goal
  <2>1. modules + mailboxes = 0 /\ ~functions /\ ~CodeInUse /\ Quiet
    BY <1>1 DEF from_path, Inv, NoneBeforeOpen, CodeInUseStaysLoaded, OwnedOrQuiet
  <2>2. Quiet'
    BY <1>1, <2>1 DEF from_path, Quiet, HasFunction
  <2>3. ASSUME library' = "open" PROVE Goal
    BY <2>2, <2>3 DEF OwnedOrQuiet, NoneBeforeOpen, CodeInUseStaysLoaded
  <2>4. ASSUME library' = "closed", UNCHANGED <<functions, modules>> PROVE Goal
    <3>1. modules' + mailboxes' = 0 /\ ~functions'
      BY <1>1, <2>1, <2>4 DEF from_path
    <3>2. ~CodeInUse'
      BY <2>2, <3>1 DEF CodeInUse, Quiet
    <3> QED
      BY <2>2, <3>1, <3>2 DEF OwnedOrQuiet, NoneBeforeOpen, CodeInUseStaysLoaded
  <2> QED
    BY <1>1, <2>3, <2>4 DEF from_path
<1>2. ASSUME module_copy \/ module_get_mailbox \/ mailbox_copy PROVE Goal
  <2>1. modules + mailboxes # 0 /\ modules' + mailboxes' # 0
    BY <1>2, <1>01 DEF module_copy, module_get_mailbox, mailbox_copy
  <2>2. library = "open"
    BY <2>1 DEF Inv, NoneBeforeOpen
  <2>3. library' = "open"
    BY <1>2, <2>2 DEF module_copy, module_get_mailbox, mailbox_copy
  <2> QED
    BY <2>1, <2>3 DEF OwnedOrQuiet, NoneBeforeOpen, CodeInUseStaysLoaded
\* The client gives up a handle: it has another, or everything is quiet.
<1>3. ASSUME module_free \/ mailbox_free PROVE Goal
  <2>1. modules + mailboxes > 1 \/ Quiet
    BY <1>3, CountZeroQuiet DEF module_free, mailbox_free, MayFree
  <2>2. UNCHANGED <<library, functions, task, handles, children, closure, captured>>
    BY <1>3 DEF module_free, mailbox_free
  <2>3. OwnedOrQuiet'
    <3>1. CASE modules + mailboxes > 1
      <4>1. modules' + mailboxes' = modules + mailboxes - 1
        BY <1>01, <1>3 DEF module_free, mailbox_free
      <4> QED
        BY <1>01, <3>1, <4>1 DEF OwnedOrQuiet
    <3>2. CASE Quiet
      BY <2>2, <3>2 DEF OwnedOrQuiet, Quiet, HasFunction
    <3> QED
      BY <2>1, <3>1, <3>2
  <2>4. NoneBeforeOpen'
    BY <1>3 DEF module_free, mailbox_free, Inv, TypeOK, NoneBeforeOpen
  <2> QED
    BY <2>2, <2>3, <2>4 DEF Inv, CodeInUseStaysLoaded, CodeInUse, HasFunction
\* Whoever sends has a mailbox, or is a closure that captured one.
<1>4. ASSUME NEW m \in Messages, mailbox_send(m) PROVE Goal
  <2>1. modules + mailboxes # 0
    BY <1>4 DEF mailbox_send, Inv, TypeOK, OwnedOrQuiet, Quiet
  <2>2. library = "open"
    BY <2>1 DEF Inv, NoneBeforeOpen
  <2> QED
    BY <1>4, <2>1, <2>2 DEF mailbox_send, OwnedOrQuiet, NoneBeforeOpen,
       CodeInUseStaysLoaded
<1>5. ASSUME NEW m \in Messages, promise_then_result(m) PROVE Goal
  <2>1. modules + mailboxes # 0
    BY <1>5 DEF promise_then_result, Inv, OwnedOrQuiet, Quiet
  <2> QED
    BY <1>5, <2>1 DEF promise_then_result, Inv, OwnedOrQuiet, NoneBeforeOpen,
       CodeInUseStaysLoaded, CodeInUse, HasFunction
\* The other steps need something that is not there when everything is quiet.
<1>6. ASSUME NEW m \in Messages, promise_free(m) \/ Worker(m) PROVE Goal
  <2>1. ~Quiet \/ EndDrainer(m)
    BY <1>6 DEF Worker, promise_free, Execute, SetResult, DropTask, CallThen, EndThen,
       Quiet, HasFunction, Kept
  <2>2. UNCHANGED <<library, functions, modules, mailboxes>>
    BY <1>6 DEF Worker, promise_free, Execute, SetResult, DropTask, EndDrainer, CallThen,
       EndThen
  <2>3. OwnedOrQuiet'
    <3>1. CASE ~Quiet
      BY <2>2, <3>1 DEF Inv, OwnedOrQuiet
    <3>2. CASE EndDrainer(m)
      BY <2>2, <3>2 DEF EndDrainer, Inv, OwnedOrQuiet, Quiet, HasFunction, TypeOK
    <3> QED
      BY <2>1, <3>1, <3>2
  <2>4. \A n \in Messages : HasFunction(n)' => HasFunction(n)
    BY <1>6 DEF Worker, promise_free, Execute, SetResult, DropTask, EndDrainer, CallThen,
       EndThen, HasFunction, TypeOK
  <2> QED
    BY <2>2, <2>3, <2>4 DEF Inv, NoneBeforeOpen, CodeInUseStaysLoaded, CodeInUse
<1>7. ASSUME DestroyMailbox PROVE Goal
  BY <1>7 DEF DestroyMailbox, Inv, OwnedOrQuiet, NoneBeforeOpen, CodeInUseStaysLoaded,
     CodeInUse, HasFunction, Quiet
<1>8. ASSUME module_close PROVE Goal
  <2>1. modules + mailboxes = 0 /\ Quiet
    BY <1>8, RefsZero DEF module_close, Inv, OwnedOrQuiet
  <2> QED
    BY <1>8, <2>1 DEF module_close, Inv, OwnedOrQuiet, NoneBeforeOpen,
       CodeInUseStaysLoaded, CodeInUse, HasFunction, Quiet
<1>9. ASSUME UNCHANGED vars PROVE Goal
  BY <1>9 DEF vars, Inv, OwnedOrQuiet, NoneBeforeOpen, CodeInUseStaysLoaded, CodeInUse,
     HasFunction, Quiet
<1> QED
  BY <1>1, <1>2, <1>3, <1>4, <1>5, <1>6, <1>7, <1>8, <1>9 DEF Next, Inv

\* No code of a module is in use when its library is closed, for any number of messages
\* and handles.
THEOREM CodeStaysLoaded == Spec => []CodeInUseStaysLoaded
<1>1. Init => Inv
  BY InvInit
<1>2. Inv /\ [Next]_vars => Inv'
  BY InvStep
<1>3. Inv => CodeInUseStaysLoaded
  BY DEF Inv
<1> QED
  BY <1>1, <1>2, <1>3, PTL DEF Spec
=============================================================================
