---------------------------- MODULE QueueProofs ----------------------------
(***************************************************************************)
(* Proofs about module Queue, for any number of consumers and values.      *)
(***************************************************************************)
EXTENDS Queue, FiniteSetTheorems, SequenceTheorems, TLAPS

\* The consumers on their way to the queue.
Coming == {c \in Consumers : pc[c] \in {"ready", "woken"}}

LEMMA ConsumersFinite ==
  ASSUME NEW S \in SUBSET Consumers
  PROVE  IsFiniteSet(S) /\ Cardinality(S) \in Nat
  BY QueueAssumption, FS_Subset, FS_CardinalityType

\* notify_one changes nothing if nobody waits, and else wakes one who does.
LEMMA NotifyOneWakes ==
  ASSUME pc \in [Consumers -> {"ready", "waiting", "woken", "done"}], pc' \in notify_one
  PROVE  \/ Waiting = {} /\ pc' = pc
         \/ \E c \in Waiting : pc' = [pc EXCEPT ![c] = "woken"]
  BY DEF notify_one

-----------------------------------------------------------------------------
\* push(), pop(), pop(List) and close() keep to the types, whatever the order
\* they are called in.
THEOREM Typing == Spec => []TypeOK
<1>1. Init => TypeOK
  BY EmptySeq DEF Init, TypeOK
<1>2. TypeOK /\ [Next]_vars => TypeOK'
  <2> SUFFICES ASSUME TypeOK, [Next]_vars PROVE TypeOK'
    OBVIOUS
  <2>n. ASSUME pc' \in notify_one
        PROVE  pc' \in [Consumers -> {"ready", "waiting", "woken", "done"}]
    BY <2>n, NotifyOneWakes DEF TypeOK
  <2>1. ASSUME NEW v \in Values, push(v) PROVE TypeOK'
    <3>1. CASE closed
      BY <2>1, <3>1 DEF push, TypeOK
    <3>2. CASE ~closed
      <4>1. Append(queue, v) \in Seq(Values) /\ Append(pushed, v) \in Seq(Values)
        BY AppendProperties DEF TypeOK
      <4> QED
        BY <2>1, <2>n, <3>2, <4>1 DEF push, TypeOK
    <3> QED
      BY <3>1, <3>2
  <2>2. ASSUME NEW c \in Consumers, PopWait(c) \/ PopNothing(c) \/ SpuriousWakeup(c)
        PROVE  TypeOK'
    BY <2>2 DEF PopWait, PopNothing, SpuriousWakeup, TypeOK
  <2>3. ASSUME NEW c \in Consumers, PopValue(c) PROVE TypeOK'
    <3>1. Head(queue) \in Values /\ queue' \in Seq(Values)
      BY <2>3 DEF PopValue, TypeOK
    <3>2. taken' \in [Consumers -> Seq(Values)]
      BY <2>3, <3>1 DEF PopValue, TypeOK
    <3> QED
      BY <2>3, <3>1, <3>2 DEF PopValue, TypeOK
  <2>4. CASE pop_list
    BY <2>4, ConcatProperties DEF pop_list, TypeOK
  <2>5. CASE close
    BY <2>5, <2>n DEF close, TypeOK
  <2>6. CASE UNCHANGED vars
    BY <2>6 DEF vars, TypeOK
  <2> QED
    BY <2>1, <2>2, <2>3, <2>4, <2>5, <2>6 DEF Next, pop
<1> QED
  BY <1>1, <1>2, PTL DEF Spec

-----------------------------------------------------------------------------
\* One notify_one for each push is enough: no value is left behind by everybody
\* who is awake while somebody sleeps.
THEOREM WakeupsNotLost == Spec => []NoLostWakeup
<1> DEFINE Inv == Waiting # {} => Len(queue) <= Cardinality(Coming)
<1>0. Inv <=> NoLostWakeup
  BY DEF NoLostWakeup, Coming
<1>1. Init => Inv
  BY DEF Init, Waiting
<1>2. TypeOK /\ Inv /\ [Next]_vars => Inv'
  <2> SUFFICES ASSUME TypeOK, Inv, [Next]_vars PROVE Inv'
    OBVIOUS
  <2>0. IsFiniteSet(Coming) /\ Cardinality(Coming) \in Nat /\ Len(queue) \in Nat
    BY ConsumersFinite DEF Coming, TypeOK
  <2>1. ASSUME NEW c \in Waiting, pc' = [pc EXCEPT ![c] = "woken"]
        PROVE  Waiting # {} /\ Cardinality(Coming') = Cardinality(Coming) + 1
    <3>1. Coming' = Coming \cup {c} /\ c \notin Coming
      BY <2>1 DEF Coming, Waiting, TypeOK
    <3> QED
      BY <2>0, <3>1, FS_AddElement
  <2>2. ASSUME pc' \in notify_one, Len(queue') <= Len(queue) + 1, queue' \in Seq(Values)
        PROVE  Inv'
    <3>1. CASE Waiting = {} /\ pc' = pc
      BY <3>1 DEF Waiting
    <3>2. ASSUME NEW c \in Waiting, pc' = [pc EXCEPT ![c] = "woken"] PROVE Inv'
      <4>1. Len(queue') \in Nat /\ Len(queue') <= Len(queue) + 1
        BY <2>2
      <4>2. Len(queue) <= Cardinality(Coming)
        BY <3>2
      <4>3. Cardinality(Coming') = Cardinality(Coming) + 1
        BY <2>1, <3>2
      <4> QED
        BY <2>0, <4>1, <4>2, <4>3
    <3> QED
      BY <2>2, <3>1, <3>2, NotifyOneWakes DEF TypeOK
  <2>3. ASSUME NEW v \in Values, push(v) PROVE Inv'
    <3>1. CASE closed
      BY <2>3, <3>1 DEF push, Waiting, Coming
    <3>2. CASE ~closed
      <4>1. pc' \in notify_one /\ queue' = Append(queue, v)
        BY <2>3, <3>2 DEF push
      <4>2. queue' \in Seq(Values) /\ Len(queue') = Len(queue) + 1
        BY <4>1, AppendProperties DEF TypeOK
      <4> QED
        BY <2>0, <2>2, <4>1, <4>2
    <3> QED
      BY <3>1, <3>2
  <2>4. ASSUME NEW c \in Consumers, PopWait(c) \/ PopNothing(c) PROVE Inv'
    <3>1. queue' = <<>>
      BY <2>4 DEF PopWait, PopNothing
    <3>2. Cardinality(Coming') \in Nat
      BY ConsumersFinite DEF Coming
    <3> QED
      BY <3>1, <3>2
  <2>5. ASSUME NEW c \in Consumers, PopValue(c) PROVE Inv'
    <3>1. Coming' = Coming /\ Waiting' = Waiting
      BY <2>5 DEF PopValue, InPop, Coming, Waiting, TypeOK
    <3>2. Len(queue') <= Len(queue) /\ Len(queue') \in Nat
      BY <2>5 DEF PopValue, TypeOK
    <3> QED
      BY <2>0, <3>1, <3>2
  <2>6. ASSUME NEW c \in Consumers, SpuriousWakeup(c) PROVE Inv'
    <3>1. c \in Waiting /\ pc' = [pc EXCEPT ![c] = "woken"] /\ queue' = queue
      BY <2>6 DEF SpuriousWakeup, Waiting
    <3>2. Len(queue) <= Cardinality(Coming)
      BY <3>1
    <3>3. Cardinality(Coming') = Cardinality(Coming) + 1
      BY <2>1, <3>1
    <3> QED
      BY <2>0, <3>1, <3>2, <3>3
  <2>7. CASE pop_list
    <3>1. queue' = <<>> /\ Cardinality(Coming') \in Nat
      BY <2>7, ConsumersFinite DEF pop_list, Coming
    <3> QED
      BY <3>1
  <2>8. CASE close
    BY <2>0, <2>2, <2>8 DEF close, TypeOK
  <2>9. CASE UNCHANGED vars
    BY <2>9 DEF vars, Waiting, Coming
  <2> QED
    BY <2>3, <2>4, <2>5, <2>6, <2>7, <2>8, <2>9 DEF Next, pop
<1> QED
  BY <1>0, <1>1, <1>2, Typing, PTL DEF Spec

-----------------------------------------------------------------------------
EndedInv == Ended => closed /\ queue = <<>>

\* A consumer ends only when the queue is closed and empty, and push() refuses
\* what comes after: no value arrives behind the back of one that has ended.
THEOREM TheEndIsFinal == Spec => EndIsFinal
<1>1. Init => EndedInv
  BY DEF Init, Ended, EndedInv
<1>2. TypeOK /\ EndedInv /\ [Next]_vars => EndedInv'
  <2> SUFFICES ASSUME TypeOK, EndedInv, [Next]_vars PROVE EndedInv'
    OBVIOUS
  <2>1. ASSUME pc' \in notify_one, NEW c \in Consumers, pc'[c] = "done" PROVE pc[c] = "done"
    BY <2>1, NotifyOneWakes DEF TypeOK, Waiting
  <2>2. ASSUME NEW v \in Values, push(v) PROVE EndedInv'
    BY <2>1, <2>2 DEF push, Ended, EndedInv
  <2>3. ASSUME NEW c \in Consumers, pop(c) \/ SpuriousWakeup(c) PROVE EndedInv'
    BY <2>3 DEF pop, PopWait, PopValue, PopNothing, SpuriousWakeup, TypeOK,
       Ended, EndedInv
  <2>4. CASE pop_list
    BY <2>4 DEF pop_list, Ended, EndedInv
  <2>5. CASE close
    BY <2>1, <2>5 DEF close, Ended, EndedInv
  <2>6. CASE UNCHANGED vars
    BY <2>6 DEF vars, Ended, EndedInv
  <2> QED
    BY <2>2, <2>3, <2>4, <2>5, <2>6 DEF Next
<1>3. TypeOK /\ EndedInv /\ EndedInv' /\ [Next]_vars
        => [Ended => queue' = <<>>]_vars
  <2> SUFFICES ASSUME TypeOK, EndedInv, [Next]_vars, Ended
               PROVE  queue' = <<>>
    OBVIOUS
  <2> closed /\ queue = <<>>
    BY DEF EndedInv
  <2> QED
    BY DEF Next, push, pop, PopWait, PopValue, PopNothing, SpuriousWakeup, pop_list,
       close, vars
<1> QED
  BY <1>1, <1>2, <1>3, Typing, PTL DEF Spec, EndIsFinal

-----------------------------------------------------------------------------
(***************************************************************************)
(* Each value in one place, in the order of the pushes.  What has left the *)
(* queue are the first values that were pushed; that they are as many as   *)
(* drained and the consumers have needs no more than that nobody has more  *)
(* than have left, since DeliveredInOrder counts positions in pushed.      *)
(***************************************************************************)
Left == Len(pushed) - Len(queue)

\* The elements of s are among the first n of p, in that order.
Embedded(s, n, p) ==
  \E f \in [1 .. Len(s) -> 1 .. n] :
    /\ \A i, j \in 1 .. Len(s) : i < j => f[i] < f[j]
    /\ \A i \in 1 .. Len(s) : s[i] = p[f[i]]

Held == {p \in Consumers \X DOMAIN pushed : p[2] \in DOMAIN taken[p[1]]}

OrderInv ==
  /\ Left \in Nat
  /\ \A i \in 1 .. Len(queue) : queue[i] = pushed[Left + i]
  /\ Embedded(drained, Left, pushed)
  /\ \A c \in Consumers : Embedded(taken[c], Left, pushed) /\ Len(taken[c]) <= Left
  /\ Len(pushed) = Len(queue) + Len(drained) + Cardinality(Held)

\* The next value goes behind.
LEMMA EmbeddedAppend ==
  ASSUME NEW s \in Seq(Values), NEW p \in Seq(Values), NEW n \in Nat,
         n + 1 <= Len(p), Embedded(s, n, p)
  PROVE  Embedded(Append(s, p[n + 1]), n + 1, p)
<1>1. PICK f \in [1 .. Len(s) -> 1 .. n] :
        /\ \A i, j \in 1 .. Len(s) : i < j => f[i] < f[j]
        /\ \A i \in 1 .. Len(s) : s[i] = p[f[i]]
  BY DEF Embedded
<1>2. Len(s) \in Nat /\ Len(p) \in Nat
  BY LenProperties
<1> DEFINE t == Append(s, p[n + 1])
           g == [i \in 1 .. Len(s) + 1 |-> IF i <= Len(s) THEN f[i] ELSE n + 1]
<1>3. p[n + 1] \in Values
  BY <1>2, ElementOfSeq
<1>4. /\ Len(t) = Len(s) + 1 /\ t[Len(s) + 1] = p[n + 1]
      /\ \A i \in 1 .. Len(s) : t[i] = s[i]
  BY <1>3, AppendProperties
<1>5. g \in [1 .. Len(t) -> 1 .. n + 1]
  BY <1>2, <1>4
<1>6. ASSUME NEW i \in 1 .. Len(t), NEW j \in 1 .. Len(t), i < j PROVE g[i] < g[j]
  BY <1>1, <1>2, <1>4, <1>6
<1>7. ASSUME NEW i \in 1 .. Len(t) PROVE t[i] = p[g[i]]
  BY <1>1, <1>2, <1>4
<1> HIDE DEF g, t
<1> QED
  BY <1>5, <1>6, <1>7 DEF Embedded, t

\* More values are pushed, or leave.
LEMMA EmbeddedGrows ==
  ASSUME NEW s \in Seq(Values), NEW p \in Seq(Values), NEW q \in Seq(Values),
         NEW n \in Nat, NEW m \in Nat, n <= m,
         \A i \in 1 .. n : q[i] = p[i], Embedded(s, n, p)
  PROVE  Embedded(s, m, q)
<1>1. PICK f \in [1 .. Len(s) -> 1 .. n] :
        /\ \A i, j \in 1 .. Len(s) : i < j => f[i] < f[j]
        /\ \A i \in 1 .. Len(s) : s[i] = p[f[i]]
  BY DEF Embedded
<1>2. f \in [1 .. Len(s) -> 1 .. m]
  BY <1>1
<1>3. \A i \in 1 .. Len(s) : s[i] = q[f[i]]
  BY <1>1
<1> QED
  BY <1>1, <1>2, <1>3 DEF Embedded

LEMMA EmbeddedInOrder ==
  ASSUME TypeOK, NEW s \in Seq(Values), NEW n \in Nat, n <= Len(pushed), Embedded(s, n, pushed)
  PROVE  InOrder(s)
<1>1. PICK f \in [1 .. Len(s) -> 1 .. n] :
        /\ \A i, j \in 1 .. Len(s) : i < j => f[i] < f[j]
        /\ \A i \in 1 .. Len(s) : s[i] = pushed[f[i]]
  BY DEF Embedded
<1>2. DOMAIN s = 1 .. Len(s) /\ DOMAIN pushed = 1 .. Len(pushed) /\ Len(pushed) \in Nat
  BY LenProperties DEF TypeOK
<1>3. ASSUME NEW i \in DOMAIN s, NEW j \in DOMAIN s, i < j
      PROVE  \E k, l \in DOMAIN pushed : k < l /\ s[i] = pushed[k] /\ s[j] = pushed[l]
  <2>1. f[i] \in DOMAIN pushed /\ f[j] \in DOMAIN pushed
    BY <1>2
  <2> QED
    BY <1>1, <1>2, <1>3, <2>1
<1> QED
  BY <1>3 DEF InOrder

\* The queue itself, behind what has left it.
LEMMA QueueBehind ==
  ASSUME TypeOK, OrderInv
  PROVE  /\ Embedded(queue, Len(pushed), pushed)
         /\ Embedded(drained \o queue, Len(pushed), pushed)
<1>1. /\ Len(queue) \in Nat /\ Len(drained) \in Nat /\ Len(pushed) \in Nat
      /\ Left \in Nat /\ Len(pushed) = Left + Len(queue)
  BY LenProperties DEF TypeOK, OrderInv, Left
<1>2. PICK f \in [1 .. Len(drained) -> 1 .. Left] :
        /\ \A i, j \in 1 .. Len(drained) : i < j => f[i] < f[j]
        /\ \A i \in 1 .. Len(drained) : drained[i] = pushed[f[i]]
  BY DEF OrderInv, Embedded
<1>3. \A i \in 1 .. Len(queue) : queue[i] = pushed[Left + i]
  BY DEF OrderInv
<1>4. Embedded(queue, Len(pushed), pushed)
  <2> DEFINE h == [i \in 1 .. Len(queue) |-> Left + i]
  <2>1. h \in [1 .. Len(queue) -> 1 .. Len(pushed)]
    BY <1>1
  <2>2. \A i, j \in 1 .. Len(queue) : i < j => h[i] < h[j]
    BY <1>1
  <2>3. \A i \in 1 .. Len(queue) : queue[i] = pushed[h[i]]
    BY <1>3
  <2> HIDE DEF h
  <2> QED
    BY <2>1, <2>2, <2>3 DEF Embedded
<1>5. Embedded(drained \o queue, Len(pushed), pushed)
  <2> DEFINE all == drained \o queue
             g == [i \in 1 .. Len(drained) + Len(queue) |->
                     IF i <= Len(drained) THEN f[i] ELSE Left + (i - Len(drained))]
  <2>1. /\ Len(all) = Len(drained) + Len(queue)
        /\ \A i \in 1 .. Len(drained) + Len(queue) :
             all[i] = IF i <= Len(drained) THEN drained[i] ELSE queue[i - Len(drained)]
    BY ConcatProperties DEF TypeOK
  <2>2. g \in [1 .. Len(drained) + Len(queue) -> 1 .. Len(pushed)]
    BY <1>1
  <2>3. ASSUME NEW i \in 1 .. Len(drained) + Len(queue), NEW j \in 1 .. Len(drained) + Len(queue), i < j
        PROVE  g[i] < g[j]
    <3>1. CASE j <= Len(drained)
      BY <1>1, <1>2, <2>3, <3>1
    <3>2. CASE ~(j <= Len(drained)) /\ i <= Len(drained)
      <4>1. g[i] = f[i] /\ f[i] \in 1 .. Left /\ g[j] = Left + (j - Len(drained))
        BY <1>1, <1>2, <3>2
      <4> QED
        BY <1>1, <3>2, <4>1
    <3>3. CASE ~(j <= Len(drained)) /\ ~(i <= Len(drained))
      BY <1>1, <2>3, <3>3
    <3> QED
      BY <3>1, <3>2, <3>3
  <2>4. ASSUME NEW i \in 1 .. Len(drained) + Len(queue) PROVE all[i] = pushed[g[i]]
    <3>1. CASE i <= Len(drained)
      BY <1>1, <1>2, <2>1, <3>1
    <3>2. CASE ~(i <= Len(drained))
      <4>1. i - Len(drained) \in 1 .. Len(queue)
        BY <1>1, <3>2
      <4> QED
        BY <1>1, <1>3, <2>1, <3>2, <4>1
    <3> QED
      BY <3>1, <3>2
  <2> HIDE DEF all, g
  <2> QED
    BY <2>1, <2>2, <2>3, <2>4 DEF Embedded, all
<1> QED
  BY <1>4, <1>5

LEMMA HeldFinite ==
  ASSUME TypeOK
  PROVE  IsFiniteSet(Held) /\ Cardinality(Held) \in Nat
<1>1. DOMAIN pushed = 1 .. Len(pushed) /\ Len(pushed) \in Nat
  BY LenProperties DEF TypeOK
<1>2. IsFiniteSet(1 .. Len(pushed))
  BY <1>1, FS_Interval
<1>3. IsFiniteSet(Consumers \X DOMAIN pushed)
  BY <1>1, <1>2, QueueAssumption, FS_Product DEF QueueAssumption
<1>4. Held \subseteq Consumers \X DOMAIN pushed
  BY DEF Held
<1> QED
  BY <1>3, <1>4, FS_Subset, FS_CardinalityType

LEMMA OrderStep == TypeOK /\ OrderInv /\ [Next]_vars => OrderInv'
<1> SUFFICES ASSUME TypeOK, OrderInv, [Next]_vars PROVE OrderInv'
  OBVIOUS
<1>1. /\ queue \in Seq(Values) /\ drained \in Seq(Values) /\ pushed \in Seq(Values)
      /\ \A c \in Consumers : taken[c] \in Seq(Values)
  BY DEF TypeOK
<1>2. /\ Len(queue) \in Nat /\ Len(drained) \in Nat /\ Len(pushed) \in Nat
      /\ Left \in Nat /\ Len(pushed) = Left + Len(queue)
      /\ \A c \in Consumers : Len(taken[c]) \in Nat
  BY <1>1, LenProperties DEF OrderInv, Left
<1>3. IsFiniteSet(Held) /\ Cardinality(Held) \in Nat
  BY HeldFinite
<1>4. \A s \in Seq(Values) : DOMAIN s = 1 .. Len(s)
  BY LenProperties
<1>5. ASSUME UNCHANGED <<queue, drained, pushed, taken>> PROVE OrderInv'
  BY <1>5 DEF OrderInv, Left, Held
<1>6. ASSUME NEW v \in Values, push(v) PROVE OrderInv'
  <2>1. CASE closed
    BY <1>5, <1>6, <2>1 DEF push
  <2>2. CASE ~closed
    <3>1. queue' = Append(queue, v) /\ pushed' = Append(pushed, v) /\ UNCHANGED <<drained, taken>>
      BY <1>6, <2>2 DEF push
    <3>2. /\ queue' \in Seq(Values) /\ pushed' \in Seq(Values)
          /\ Len(queue') = Len(queue) + 1 /\ Len(pushed') = Len(pushed) + 1
          /\ \A i \in 1 .. Len(queue) : queue'[i] = queue[i]
          /\ \A i \in 1 .. Len(pushed) : pushed'[i] = pushed[i]
          /\ queue'[Len(queue) + 1] = v /\ pushed'[Len(pushed) + 1] = v
      BY <1>1, <3>1, AppendProperties
    <3>3. Left' = Left
      BY <1>2, <3>2 DEF Left
    <3>4. ASSUME NEW i \in 1 .. Len(queue') PROVE queue'[i] = pushed'[Left' + i]
      <4>1. CASE i \in 1 .. Len(queue)
        <5>1. Left + i \in 1 .. Len(pushed)
          BY <1>2, <4>1
        <5> QED
          BY <3>2, <3>3, <4>1, <5>1 DEF OrderInv
      <4>2. CASE i = Len(queue) + 1
        <5>1. Left + i = Len(pushed) + 1
          BY <1>2, <4>2
        <5> QED
          BY <3>2, <3>3, <4>2, <5>1
      <4> QED
        BY <1>2, <3>2, <4>1, <4>2
    <3>5. ASSUME NEW s \in Seq(Values), Embedded(s, Left, pushed) PROVE Embedded(s, Left', pushed')
      <4>1. \A i \in 1 .. Left : pushed'[i] = pushed[i]
        BY <1>2, <3>2
      <4>2. Left <= Left
        BY <1>2
      <4> QED
        BY <1>1, <1>2, <3>2, <3>3, <3>5, <4>1, <4>2, EmbeddedGrows
    <3>6. Held' = Held
      <4>1. DOMAIN pushed' = 1 .. Len(pushed) + 1 /\ DOMAIN pushed = 1 .. Len(pushed)
        BY <1>1, <1>4, <3>2
      <4>2. \A c \in Consumers : DOMAIN taken[c] \subseteq 1 .. Len(pushed)
        BY <1>1, <1>2, <1>4 DEF OrderInv
      <4> QED
        BY <1>2, <3>1, <4>1, <4>2 DEF Held
    <3>7. Len(pushed') = Len(queue') + Len(drained') + Cardinality(Held')
      <4>1. Len(pushed) = Len(queue) + Len(drained) + Cardinality(Held)
        BY DEF OrderInv
      <4>2. Len(pushed') = Len(pushed) + 1 /\ Len(queue') = Len(queue) + 1
        BY <3>2
      <4>3. Len(drained') = Len(drained) /\ Cardinality(Held') = Cardinality(Held)
        BY <3>1, <3>6
      <4> QED
        BY <1>2, <1>3, <4>1, <4>2, <4>3
    <3> QED
      BY <1>1, <1>2, <3>1, <3>3, <3>4, <3>5, <3>7 DEF OrderInv
  <2> QED
    BY <2>1, <2>2
<1>7. ASSUME NEW c \in Consumers, PopValue(c) PROVE OrderInv'
  <2>1. /\ queue # <<>> /\ queue' = Tail(queue) /\ UNCHANGED <<drained, pushed>>
        /\ taken'[c] = Append(taken[c], Head(queue))
        /\ \A d \in Consumers \ {c} : taken'[d] = taken[d]
    BY <1>7 DEF PopValue, TypeOK
  <2>2. /\ Head(queue) \in Values /\ Head(queue) = queue[1] /\ Len(queue) # 0
        /\ queue' \in Seq(Values) /\ Len(queue') = Len(queue) - 1
        /\ \A i \in 1 .. Len(queue') : queue'[i] = queue[i + 1]
    BY <1>1, <2>1, EmptySeq, HeadTailProperties
  <2>3. /\ taken'[c] \in Seq(Values) /\ Len(taken'[c]) = Len(taken[c]) + 1
    BY <1>1, <2>1, <2>2, AppendProperties
  <2>4. Left' = Left + 1 /\ Left + 1 <= Len(pushed) /\ queue[1] = pushed[Left + 1]
    BY <1>2, <2>1, <2>2 DEF Left, OrderInv
  <2>5. ASSUME NEW i \in 1 .. Len(queue') PROVE queue'[i] = pushed'[Left' + i]
    <3>1. i + 1 \in 1 .. Len(queue) /\ Left' + i = Left + (i + 1)
      BY <1>2, <2>2, <2>4
    <3> QED
      BY <2>1, <2>2, <3>1 DEF OrderInv
  <2>6. \A s \in Seq(Values) : Embedded(s, Left, pushed) => Embedded(s, Left', pushed')
    BY <1>1, <1>2, <2>1, <2>4, EmbeddedGrows
  <2>7. Embedded(taken'[c], Left', pushed')
    <3>1. taken'[c] = Append(taken[c], pushed[Left + 1]) /\ pushed' = pushed
      BY <2>1, <2>2, <2>4
    <3>2. taken[c] \in Seq(Values) /\ Embedded(taken[c], Left, pushed)
      BY <1>1 DEF OrderInv
    <3>3. Embedded(Append(taken[c], pushed[Left + 1]), Left + 1, pushed)
      BY <1>1, <1>2, <2>4, <3>2, EmbeddedAppend
    <3> QED
      BY <2>4, <3>1, <3>3
  <2>8. Held' = Held \cup {<<c, Len(taken[c]) + 1>>} /\ <<c, Len(taken[c]) + 1>> \notin Held
    <3>1. /\ DOMAIN taken[c] = 1 .. Len(taken[c])
          /\ DOMAIN taken'[c] = 1 .. Len(taken[c]) + 1
          /\ DOMAIN pushed = 1 .. Len(pushed)
      BY <1>1, <1>4, <2>3
    <3>2. Len(taken[c]) <= Left
      BY DEF OrderInv
    <3>3. DOMAIN taken'[c] = DOMAIN taken[c] \cup {Len(taken[c]) + 1}
          /\ Len(taken[c]) + 1 \notin DOMAIN taken[c]
          /\ Len(taken[c]) + 1 \in DOMAIN pushed
      BY <1>2, <2>4, <3>1, <3>2
    <3>4. ASSUME NEW d \in Consumers, NEW i \in DOMAIN pushed
          PROVE  i \in DOMAIN taken'[d] <=> i \in DOMAIN taken[d] \/ (d = c /\ i = Len(taken[c]) + 1)
      BY <2>1, <3>3
    <3>5. <<c, Len(taken[c]) + 1>> \notin Held
      BY <3>3 DEF Held
    <3>6. Held' = {p \in Consumers \X DOMAIN pushed : p[2] \in DOMAIN taken'[p[1]]}
      BY <2>1 DEF Held
    <3> QED
      BY <3>3, <3>4, <3>5, <3>6 DEF Held
  <2>9. Cardinality(Held') = Cardinality(Held) + 1
    BY <1>3, <2>8, FS_AddElement
  <2>10. Len(pushed') = Len(queue') + Len(drained') + Cardinality(Held')
    BY <1>2, <1>3, <2>1, <2>2, <2>9 DEF OrderInv
  <2>11. ASSUME NEW d \in Consumers
         PROVE  Embedded(taken'[d], Left', pushed') /\ Len(taken'[d]) <= Left'
    <3>1. taken[d] \in Seq(Values) /\ Embedded(taken[d], Left, pushed) /\ Len(taken[d]) <= Left
          /\ Len(taken[d]) \in Nat
      BY <1>1, <1>2 DEF OrderInv
    <3>2. CASE d = c
      BY <1>2, <2>3, <2>4, <2>7, <3>1, <3>2
    <3>3. CASE d # c
      BY <1>2, <2>1, <2>4, <2>6, <3>1, <3>3
    <3> QED
      BY <3>2, <3>3
  <2> QED
    BY <1>1, <1>2, <2>1, <2>4, <2>5, <2>6, <2>10, <2>11 DEF OrderInv
<1>8. CASE pop_list
  <2>1. queue' = <<>> /\ drained' = drained \o queue /\ UNCHANGED <<pushed, taken>>
    BY <1>8 DEF pop_list
  <2>2. Len(queue') = 0 /\ Left' = Len(pushed) /\ Held' = Held
    BY <1>2, <2>1 DEF Left, Held
  <2>3. Len(drained') = Len(drained) + Len(queue)
    BY <1>1, <2>1, ConcatProperties
  <2>4. Embedded(drained', Left', pushed')
    BY <2>1, <2>2, QueueBehind
  <2>5. \A c \in Consumers : Embedded(taken'[c], Left', pushed') /\ Len(taken'[c]) <= Left'
    BY <1>1, <1>2, <2>1, <2>2, EmbeddedGrows DEF OrderInv
  <2>6. Len(pushed') = Len(queue') + Len(drained') + Cardinality(Held')
    BY <1>2, <1>3, <2>1, <2>2, <2>3 DEF OrderInv
  <2> QED
    BY <1>2, <2>2, <2>4, <2>5, <2>6 DEF OrderInv
<1> QED
  BY <1>5, <1>6, <1>7, <1>8 DEF Next, pop, PopWait, PopNothing, SpuriousWakeup, close, vars

\* Each value that push() accepted is in one place, and the queue, every consumer and
\* pop(List) have theirs in the order of the pushes, for any number of consumers and
\* values.
THEOREM ValuesInOrder == Spec => []DeliveredInOrder
<1>1. Init => OrderInv
  <2> SUFFICES ASSUME Init PROVE OrderInv
    OBVIOUS
  <2>1. Len(<<>>) = 0 /\ DOMAIN <<>> = {} /\ 1 .. 0 = {}
    OBVIOUS
  <2>2. Held = {} /\ Cardinality(Held) = 0
    BY <2>1, FS_EmptySet DEF Init, Held
  <2>3. Left = 0
    BY <2>1 DEF Init, Left
  <2>4. Embedded(<<>>, 0, pushed)
    <3>1. [i \in {} |-> 0] \in [1 .. 0 -> 1 .. 0]
      BY <2>1
    <3> QED
      BY <2>1, <3>1 DEF Embedded
  <2> QED
    BY <2>1, <2>2, <2>3, <2>4 DEF Init, OrderInv
<1>2. TypeOK /\ OrderInv /\ [Next]_vars => OrderInv'
  BY OrderStep
<1>3. TypeOK /\ OrderInv => DeliveredInOrder
  <2> SUFFICES ASSUME TypeOK, OrderInv PROVE DeliveredInOrder
    OBVIOUS
  <2>1. /\ queue \in Seq(Values) /\ drained \in Seq(Values) /\ pushed \in Seq(Values)
        /\ \A c \in Consumers : taken[c] \in Seq(Values)
    BY DEF TypeOK
  <2>2. Len(pushed) \in Nat /\ Left \in Nat /\ Left <= Len(pushed)
    BY <2>1, LenProperties DEF OrderInv, Left
  <2>3. InOrder(queue)
    BY <2>1, <2>2, QueueBehind, EmbeddedInOrder
  <2>4. InOrder(drained) /\ \A c \in Consumers : InOrder(taken[c])
    BY <2>1, <2>2, EmbeddedInOrder DEF OrderInv
  <2> QED
    BY <2>3, <2>4 DEF DeliveredInOrder, OrderInv, Held
<1> QED
  BY <1>1, <1>2, <1>3, Typing, PTL DEF Spec
=============================================================================
