------------------------------ MODULE WorkPool ------------------------------
(***************************************************************************)
(* What a traeger::Scheduler promises, without its threads, its mutex and  *)
(* its condition variable: a work that was accepted is executed once, by   *)
(* one of Capacity workers, not before its delay has passed, unless the    *)
(* pool closes first; and the pool never closes on a work that holds it.   *)
(***************************************************************************)
EXTENDS Integers, FiniteSets

CONSTANTS Capacity,  (* how many works may be in execution at once           *)
          Works,
          Keepers,   (* the works that keep the pool open                    *)
          Delays,
          Horizon    (* the bound of the clock                               *)

VARIABLES open, clock, unscheduled, waiting, not_before, executing, finished
vars == <<open, clock, unscheduled, waiting, not_before, executing, finished>>

Init ==
  /\ open = TRUE
  /\ clock = 0
  /\ unscheduled = Works
  /\ waiting = {} /\ executing = {} /\ finished = {}
  /\ not_before = [w \in Works |-> 0]

Submit(w, delay) ==
  /\ w \in unscheduled /\ clock + delay <= Horizon
  /\ unscheduled' = unscheduled \ {w}
  /\ \/ /\ open
        /\ waiting' = waiting \cup {w}
        /\ not_before' = IF delay = 0 THEN not_before
                         ELSE [not_before EXCEPT ![w] = clock + delay]
     \/ ~open /\ UNCHANGED <<waiting, not_before>>
  /\ UNCHANGED <<open, clock, executing, finished>>

Start(w) ==
  /\ open /\ w \in waiting
  /\ not_before[w] <= clock
  /\ Cardinality(executing) < Capacity
  /\ waiting' = waiting \ {w}
  /\ executing' = executing \cup {w}
  /\ UNCHANGED <<open, clock, unscheduled, not_before, finished>>

End(w) ==
  /\ w \in executing
  /\ executing' = executing \ {w}
  /\ finished' = finished \cup {w}
  /\ UNCHANGED <<open, clock, unscheduled, waiting, not_before>>

Close ==
  /\ open /\ Keepers \cap (waiting \cup executing) = {}
  /\ open' = FALSE
  /\ UNCHANGED <<clock, unscheduled, waiting, not_before, executing, finished>>

Tick ==
  /\ clock < Horizon
  /\ clock' = clock + 1
  /\ UNCHANGED <<open, unscheduled, waiting, not_before, executing, finished>>

Next ==
  \/ \E w \in Works, delay \in Delays : Submit(w, delay)
  \/ \E w \in Works : Start(w) \/ End(w)
  \/ Close \/ Tick

Spec == Init /\ [][Next]_vars

\* Every work whose time has come gets a worker, again and again if it must.
FairSpec ==
  /\ Spec
  /\ WF_vars(Tick)
  /\ \A w \in Works : SF_vars(Start(w)) /\ WF_vars(End(w))
=============================================================================
