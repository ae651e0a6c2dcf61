-------------------------- MODULE SequentialActor --------------------------
(***************************************************************************)
(* What a traeger actor promises to those who send it messages: every      *)
(* message is executed at once and alone, writers in the order they were   *)
(* received, a reader after the writers received before it and before      *)
(* those received after it, and every message is answered.                 *)
(***************************************************************************)
EXTENDS Naturals, Sequences

CONSTANTS Messages,
          Kinds,      (* EXCLUSIVE for writers, SHARED for readers           *)
          EXCLUSIVE,
          NoAnswer, Error

VARIABLES received,   (* the messages in order of arrival, with their kinds  *)
          unsent,
          applied,    (* the state of the actor: the writers that changed it *)
          answer      (* what a message observed, or Error                   *)
vars == <<received, unsent, applied, answer>>

Init ==
  /\ received = <<>> /\ applied = <<>>
  /\ unsent = Messages
  /\ answer = [m \in Messages |-> NoAnswer]

Receive(m, kind) ==
  /\ m \in unsent
  /\ unsent' = unsent \ {m}
  /\ received' = Append(received, [msg |-> m, kind |-> kind])
  /\ UNCHANGED <<applied, answer>>

\* A message for a method the actor does not have is answered on the spot.
Refuse(m) ==
  /\ m \in unsent
  /\ unsent' = unsent \ {m}
  /\ answer' = [answer EXCEPT ![m] = Error]
  /\ UNCHANGED <<received, applied>>

Answered(i) == answer[received[i].msg] # NoAnswer

\* The i-th message may be executed: what it conflicts with came before it and
\* is answered, or came after it and is not.
InTurn(i) ==
  /\ ~Answered(i)
  /\ \A j \in DOMAIN received \ {i} :
       EXCLUSIVE \in {received[i].kind, received[j].kind} =>
         (Answered(j) <=> j < i)

Write(i) ==
  LET m == received[i].msg IN
  /\ InTurn(i) /\ received[i].kind = EXCLUSIVE
  /\ \/ /\ applied' = Append(applied, m)
        /\ \E a \in {applied', Error} : answer' = [answer EXCEPT ![m] = a]
     \/ UNCHANGED applied /\ answer' = [answer EXCEPT ![m] = Error]
  /\ UNCHANGED <<received, unsent>>

Read(i) ==
  LET m == received[i].msg IN
  /\ InTurn(i) /\ received[i].kind # EXCLUSIVE
  /\ \/ answer' = [answer EXCEPT ![m] = applied]
     \/ answer' = [answer EXCEPT ![m] = Error]
  /\ UNCHANGED <<received, unsent, applied>>

Execute == \E i \in DOMAIN received : Write(i) \/ Read(i)

Next ==
  \/ \E m \in Messages : Refuse(m) \/ \E kind \in Kinds : Receive(m, kind)
  \/ Execute

Spec == Init /\ [][Next]_vars

FairSpec == Spec /\ WF_vars(Execute)
=============================================================================
