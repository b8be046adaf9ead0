------------------------------ MODULE ValueProofs ------------------------------
(***************************************************************************)
(* Values of a type T through shared memory, for every size of T.          *)
(*                                                                         *)
(* SPSCQueue, which copies them from slot to slot, is a bounded FIFO for   *)
(* every capacity and number of deaths: QueueInv is inductive, and with it *)
(* every step is a step of Fifo or leaves the abstract queue alone.        *)
(*                                                                         *)
(* TypedMessage, which encodes them for a byte ring: TypedInv is           *)
(* inductive, and says what the reader's buffer holds.                     *)
(***************************************************************************)
EXTENDS SPSCQueue, TypedMessage, TLAPS

\* Time for the large leaves.
USE SMTT(30), ZenonT(30)

\* Quotient and remainder, with their types.
LEMMA DivMod ==
    ASSUME NEW a \in Int, NEW C \in Nat \ {0}
    PROVE  /\ a % C \in 0..(C - 1)
           /\ a \div C \in Int
           /\ a = C * (a \div C) + (a % C)
  OBVIOUS

\* A positive multiple of C is at least C.
LEMMA MultipleTooLarge ==
    ASSUME NEW C \in Nat \ {0}, NEW q \in Int, q >= 1
    PROVE  C * q >= C
  OBVIOUS

\* Two cursors less than a ring apart are in different places of the ring.
LEMMA ModInjective ==
    ASSUME NEW C \in Nat \ {0}, NEW c \in Nat, NEW d \in Nat,
           c - d < C, d - c < C, c % C = d % C
    PROVE  c = d
  <1> DEFINE q == c \div C
             r == d \div C
             m == c % C
  <1>1. /\ q \in Int /\ r \in Int /\ m \in 0..(C - 1)
        /\ c = C * q + m /\ d = C * r + m
    BY DivMod
  <1> HIDE DEF q, r, m
  <1>2. c - d = C * (q - r) /\ d - c = C * (r - q)
    BY <1>1
  <1>3. ~ (q - r >= 1)
    BY <1>1, <1>2, MultipleTooLarge
  <1>4. ~ (r - q >= 1)
    BY <1>1, <1>2, MultipleTooLarge
  <1>5. q = r
    BY <1>1, <1>3, <1>4
  <1> QED BY Zenon, <1>1, <1>5

\* cursor & kMask is the index of a slot.
LEMMA SlotType ==
    ASSUME NEW c \in Nat
    PROVE  Slot(c) \in 0..(Capacity - 1)
  BY CapacityAssumption, DivMod DEF Slot

\* Cursors of one window have different slots.
LEMMA SlotsDiffer ==
    ASSUME NEW h \in Nat, NEW c \in Nat, NEW d \in Nat,
           h <= c, c < h + Capacity, h <= d, d < h + Capacity, c # d
    PROVE  Slot(c) # Slot(d)
  <1>1. c - d < Capacity /\ d - c < Capacity
    BY CapacityAssumption
  <1> QED BY Zenon, <1>1, CapacityAssumption, ModInjective DEF Slot

\* A queue without a file has its types.
LEMMA TypeInit == Init => TypeOK
  <1> SUFFICES ASSUME Init PROVE TypeOK
    BY Zenon
  <1>1. slots \in [0..(Capacity - 1) -> [1..Parts -> Values \cup {Zero}]]
    BY Zenon DEF Init
  <1>2. /\ exists \in BOOLEAN /\ ppc \in {"down", "idle", "copy"}
        /\ cpc \in {"down", "idle", "copy"} /\ ppc # "copy"
    BY Zenon DEF Init
  <1>3. /\ head_publish \in Nat /\ tail_publish \in Nat /\ pdone \in 0..Parts
        /\ pvalue \in 1..(MaxPush + 1)
        /\ pdeaths \in 0..MaxCrash /\ cdeaths \in 0..MaxCrash
    BY PartsAssumption, BoundsAssumption DEF Init
  <1>4. /\ cout \in Seq(Values \cup {Zero}) /\ Len(cout) = 0
        /\ pushed \in Seq(Values) /\ popped \in Seq(Seq(Values \cup {Zero}))
    BY DEF Init
  <1>5. Len(cout) <= Parts
    BY <1>4, PartsAssumption
  <1> QED BY Zenon, <1>1, <1>2, <1>3, <1>4, <1>5 DEF TypeOK

\* The type of one slot.
LEMMA PartType ==
    ASSUME TypeOK, NEW c \in Nat, NEW i \in 1..Parts
    PROVE  slots[Slot(c)][i] \in Values \cup {Zero}
  BY Zenon, SlotType DEF TypeOK

\* Every step keeps the types.
LEMMA TypeStep == TypeOK /\ [Next]_vars => TypeOK'
  <1> SUFFICES ASSUME TypeOK, [Next]_vars PROVE TypeOK'
    BY Zenon
  <1> USE DEF fileVars, producerVars, consumerVars
  <1>1. CASE Claim
    BY Zenon, <1>1 DEF Claim, TypeOK
  <1>2. CASE PushBegin
    BY <1>2, PartsAssumption DEF PushBegin, TypeOK
  <1>3. CASE PushCopy
    <2>0. Slot(tail_publish) \in 0..(Capacity - 1)
      BY Zenon, SlotType DEF TypeOK
    <2>1. pvalue \in Values /\ Slot(tail_publish) \in 0..(Capacity - 1)
          /\ pdone + 1 \in 0..Parts
      BY <1>3, <2>0, PartsAssumption, BoundsAssumption DEF PushCopy, TypeOK, Values
    <2>2. slots' \in [0..(Capacity - 1) -> [1..Parts -> Values \cup {Zero}]]
      <3>1. slots \in [0..(Capacity - 1) -> [1..Parts -> Values \cup {Zero}]]
        BY Zenon DEF TypeOK
      <3> QED BY Zenon, <1>3, <2>1, <3>1 DEF PushCopy
    <2> QED BY Zenon, <1>3, <2>1, <2>2 DEF PushCopy, TypeOK
  <1>4. CASE PushStore
    <2>1. pvalue \in Values /\ pvalue + 1 \in 1..(MaxPush + 1)
      BY <1>4, BoundsAssumption DEF PushStore, TypeOK, Values
    <2>2. pushed' \in Seq(Values)
      BY <1>4, <2>1 DEF PushStore, TypeOK
    <2>3. tail_publish' \in Nat
      BY <1>4 DEF PushStore, TypeOK
    <2> QED BY Zenon, <1>4, <2>1, <2>2, <2>3 DEF PushStore, TypeOK
  <1>5. CASE ProducerDies
    <2>1. pdeaths' \in 0..MaxCrash /\ pvalue' \in 1..(MaxPush + 1)
      BY <1>5, BoundsAssumption DEF ProducerDies, TypeOK
    <2> QED BY Zenon, <1>5, <2>1 DEF ProducerDies, TypeOK
  <1>6. CASE Open
    BY Zenon, <1>6 DEF Open, TypeOK
  <1>7. CASE PopBegin
    BY <1>7, PartsAssumption DEF PopBegin, TypeOK
  <1>8. CASE PopCopy
    <2> DEFINE part == slots[Slot(head_publish)][Len(cout) + 1]
    <2>1. cout \in Seq(Values \cup {Zero}) /\ Len(cout) \in Nat
      BY DEF TypeOK
    <2>2. Len(cout) + 1 \in 1..Parts
      BY <1>8, <2>1, PartsAssumption DEF PopCopy
    <2>3. part \in Values \cup {Zero}
      BY Zenon, <2>2, PartType DEF TypeOK
    <2> HIDE DEF part
    <2>4. cout' = Append(cout, part)
      BY Zenon, <1>8 DEF PopCopy, part
    <2>5. cout' \in Seq(Values \cup {Zero}) /\ Len(cout') <= Parts
      BY <2>1, <2>2, <2>3, <2>4
    <2> QED BY Zenon, <1>8, <2>5 DEF PopCopy, TypeOK
  <1>9. CASE PopStore
    <2>1. head_publish' \in Nat
      BY <1>9 DEF PopStore, TypeOK
    <2>2. cout \in Seq(Values \cup {Zero}) /\ popped \in Seq(Seq(Values \cup {Zero}))
      BY Zenon DEF TypeOK
    <2>3. popped' \in Seq(Seq(Values \cup {Zero}))
      BY <1>9, <2>2 DEF PopStore
    <2> QED BY Zenon, <1>9, <2>1, <2>3 DEF PopStore, TypeOK
  <1>10. CASE ConsumerDies
    BY <1>10, BoundsAssumption DEF ConsumerDies, TypeOK
  <1>11. CASE UNCHANGED vars
    BY Zenon, <1>11 DEF vars, TypeOK
  <1> QED BY Zenon, <1>1, <1>2, <1>3, <1>4, <1>5, <1>6, <1>7, <1>8, <1>9, <1>10, <1>11
      DEF Next, Producer, Consumer

\* Every variable keeps its type.
THEOREM TypeCorrect == Spec => []TypeOK
  BY TypeInit, TypeStep, PTL DEF Spec

-------------------------------------------------------------------------------
(* The invariant. *)

\* A fresh queue satisfies the invariant.
LEMMA QueueInit == Init => QueueInv
  <1> SUFFICES ASSUME Init PROVE QueueInv
    OBVIOUS
  <1>1. /\ pushed = <<>> /\ popped = <<>> /\ head_publish = 0 /\ tail_publish = 0
        /\ ppc = "down" /\ cpc = "down"
    BY Zenon DEF Init
  <1>2. Len(pushed) = 0 /\ Len(popped) = 0
    BY Zenon, <1>1
  <1> QED BY <1>1, <1>2, CapacityAssumption DEF QueueInv, CommittedSurvives

\* The values that a store of one word leaves alone.
LEMMA CopyMisses ==
    ASSUME TypeOK, QueueInv, PushCopy, NEW c \in head_publish..(tail_publish - 1)
    PROVE  slots'[Slot(c)] = slots[Slot(c)]
  <1>1. /\ head_publish \in Nat /\ tail_publish \in Nat /\ c \in Nat
        /\ tail_publish < head_publish + Capacity /\ head_publish <= tail_publish
    BY DEF TypeOK, QueueInv, PushCopy
  <1>2. Slot(c) # Slot(tail_publish)
    <2>1. /\ head_publish <= c /\ c < head_publish + Capacity /\ c # tail_publish
      BY <1>1, CapacityAssumption
    <2> QED BY Zenon, <1>1, <2>1, SlotsDiffer
  <1>3. Slot(c) \in 0..(Capacity - 1) /\ Slot(tail_publish) \in 0..(Capacity - 1)
    BY Zenon, <1>1, SlotType
  <1> QED BY Zenon, <1>2, <1>3 DEF PushCopy, TypeOK

\* A word that try_push copies goes to the slot behind the committed ones.
LEMMA InvPushCopy ==
    ASSUME TypeOK, QueueInv, PushCopy
    PROVE  QueueInv'
  <1>1. /\ UNCHANGED <<head_publish, tail_publish, ppc, pvalue, pushed, cpc, cout, popped>>
        /\ pdone' = pdone + 1 /\ pdone \in Nat /\ pdone < Parts /\ ppc = "copy"
        /\ slots' = [slots EXCEPT ![Slot(tail_publish)][pdone + 1] = pvalue]
    BY DEF PushCopy, consumerVars, TypeOK
  <1>2. CommittedSurvives'
    <2> SUFFICES ASSUME NEW c \in head_publish..(tail_publish - 1)
                 PROVE  slots'[Slot(c)] = Whole(pushed[c + 1])
      BY Zenon, <1>1 DEF CommittedSurvives
    <2>1. slots'[Slot(c)] = slots[Slot(c)]
      BY Zenon, CopyMisses
    <2> QED BY Zenon, <2>1 DEF QueueInv, CommittedSurvives
  <1>3. ASSUME NEW i \in 1..pdone' PROVE slots'[Slot(tail_publish)][i] = pvalue
    <2>1. Slot(tail_publish) \in 0..(Capacity - 1)
      BY Zenon, SlotType DEF TypeOK
    <2>2. slots[Slot(tail_publish)] \in [1..Parts -> Values \cup {Zero}]
      BY Zenon, <2>1 DEF TypeOK
    <2>3. slots'[Slot(tail_publish)] = [slots[Slot(tail_publish)] EXCEPT ![pdone + 1] = pvalue]
      BY Zenon, <1>1, <2>1 DEF TypeOK
    <2>4. i \in 1..Parts /\ (i \in 1..pdone \/ i = pdone + 1)
      BY <1>1, <1>3, PartsAssumption
    <2>5. CASE i = pdone + 1
      BY Zenon, <2>2, <2>3, <2>4, <2>5
    <2>6. CASE i \in 1..pdone /\ i # pdone + 1
      BY Zenon, <1>1, <2>2, <2>3, <2>4, <2>6 DEF QueueInv
    <2> QED BY Zenon, <2>4, <2>5, <2>6
  <1> QED BY Zenon, <1>1, <1>2, <1>3 DEF QueueInv

\* Storing tail_publish puts a whole value between the cursors.
LEMMA InvPushStore ==
    ASSUME TypeOK, QueueInv, PushStore
    PROVE  QueueInv'
  <1> DEFINE n == Len(pushed)
  <1>1. /\ UNCHANGED <<head_publish, slots, cpc, cout, popped>>
        /\ tail_publish' = tail_publish + 1 /\ pushed' = Append(pushed, pvalue)
        /\ ppc' = "idle" /\ ppc = "copy" /\ pdone = Parts
    BY Zenon DEF PushStore, consumerVars
  <1>2. /\ tail_publish = n /\ n \in Nat /\ head_publish \in Nat /\ head_publish = Len(popped)
        /\ head_publish <= tail_publish /\ tail_publish < head_publish + Capacity
        /\ pushed \in Seq(Values) /\ pvalue \in Values
    BY <1>1, BoundsAssumption DEF QueueInv, TypeOK, Values
  <1>3. /\ Len(pushed') = n + 1 /\ pushed'[n + 1] = pvalue
        /\ \A i \in 1..n : pushed'[i] = pushed[i]
    BY <1>1, <1>2
  <1>4. slots[Slot(tail_publish)] = Whole(pvalue)
    <2>1. Slot(tail_publish) \in 0..(Capacity - 1)
      BY Zenon, SlotType DEF TypeOK
    <2>2. slots[Slot(tail_publish)] \in [1..Parts -> Values \cup {Zero}]
      BY Zenon, <2>1 DEF TypeOK
    <2>3. \A i \in 1..Parts : slots[Slot(tail_publish)][i] = pvalue
      BY Zenon, <1>1 DEF QueueInv
    <2> QED BY Zenon, <2>2, <2>3 DEF Whole
  <1>5. CommittedSurvives'
    <2> SUFFICES ASSUME NEW c \in head_publish..tail_publish
                 PROVE  slots[Slot(c)] = Whole(pushed'[c + 1])
      <3>1. tail_publish' - 1 = tail_publish
        BY <1>1, <1>2
      <3> QED BY Zenon, <1>1, <3>1 DEF CommittedSurvives
    <2>1. CASE c = tail_publish
      BY Zenon, <1>2, <1>3, <1>4, <2>1
    <2>2. CASE c # tail_publish
      <3>1. c \in head_publish..(tail_publish - 1) /\ c + 1 \in 1..n
        BY <1>2, <2>2
      <3> QED BY Zenon, <1>3, <3>1 DEF QueueInv, CommittedSurvives
    <2> QED BY Zenon, <2>1, <2>2
  <1>6. \A i \in 1..Len(popped) : popped[i] = Whole(pushed'[i])
    <2> SUFFICES ASSUME NEW i \in 1..Len(popped) PROVE popped[i] = Whole(pushed'[i])
      BY Zenon
    <2>1. i \in 1..n
      BY <1>2
    <2> QED BY Zenon, <1>3, <2>1 DEF QueueInv
  <1>7. ASSUME cpc = "copy"
        PROVE  /\ head_publish < tail_publish'
               /\ \A i \in 1..Len(cout) : cout[i] = pushed'[head_publish + 1]
    <2>1. head_publish < tail_publish /\ head_publish + 1 \in 1..n
      BY <1>2, <1>7 DEF QueueInv
    <2> QED BY <1>1, <1>2, <1>3, <1>7, <2>1 DEF QueueInv
  <1>8. /\ tail_publish' = Len(pushed') /\ head_publish <= tail_publish'
        /\ tail_publish' <= head_publish + Capacity
    BY <1>1, <1>2, <1>3, CapacityAssumption
  <1> QED BY Zenon, <1>1, <1>2, <1>5, <1>6, <1>7, <1>8 DEF QueueInv

\* A word that try_pop copies is one of the oldest committed value.
LEMMA InvPopCopy ==
    ASSUME TypeOK, QueueInv, PopCopy
    PROVE  QueueInv'
  <1> DEFINE part == slots[Slot(head_publish)][Len(cout) + 1]
             n == Len(cout)
  <1>1. /\ UNCHANGED <<head_publish, tail_publish, slots, ppc, pdone, pvalue, pushed, cpc, popped>>
        /\ cout' = Append(cout, part) /\ cpc = "copy" /\ n < Parts
    BY Zenon DEF PopCopy, fileVars, producerVars
  <1>2. /\ n \in Nat /\ cout \in Seq(Values \cup {Zero}) /\ head_publish \in Nat
        /\ tail_publish \in Nat /\ head_publish < tail_publish
    BY <1>1 DEF TypeOK, QueueInv
  <1>3. n + 1 \in 1..Parts /\ head_publish \in head_publish..(tail_publish - 1)
    BY <1>1, <1>2, PartsAssumption
  <1>4. part = pushed[head_publish + 1]
    <2>1. slots[Slot(head_publish)] = Whole(pushed[head_publish + 1])
      BY Zenon, <1>3 DEF QueueInv, CommittedSurvives
    <2> QED BY Zenon, <1>3, <2>1 DEF Whole
  <1>5. part \in Values \cup {Zero}
    BY Zenon, <1>2, <1>3, PartType
  <1> HIDE DEF part
  <1>6. /\ Len(cout') = n + 1 /\ cout'[n + 1] = part
        /\ \A i \in 1..n : cout'[i] = cout[i]
    BY <1>1, <1>2, <1>5
  <1>7. ASSUME NEW i \in 1..Len(cout') PROVE cout'[i] = pushed[head_publish + 1]
    <2>1. i \in 1..n \/ i = n + 1
      BY <1>2, <1>6
    <2> QED BY Zenon, <1>1, <1>4, <1>6, <2>1 DEF QueueInv
  <1>8. CommittedSurvives'
    BY Zenon, <1>1 DEF QueueInv, CommittedSurvives
  <1> QED BY Zenon, <1>1, <1>2, <1>7, <1>8 DEF QueueInv

\* Storing head_publish hands out the oldest value, whole.
LEMMA InvPopStore ==
    ASSUME TypeOK, QueueInv, PopStore
    PROVE  QueueInv'
  <1> DEFINE m == Len(popped)
  <1>1. /\ UNCHANGED <<tail_publish, slots, ppc, pdone, pvalue, pushed, cout>>
        /\ head_publish' = head_publish + 1 /\ popped' = Append(popped, cout)
        /\ cpc = "copy" /\ cpc' = "idle" /\ Len(cout) = Parts
    BY Zenon DEF PopStore, producerVars
  <1>2. /\ m \in Nat /\ head_publish = m /\ tail_publish \in Nat
        /\ head_publish < tail_publish /\ tail_publish <= head_publish + Capacity
        /\ tail_publish = Len(pushed)
        /\ cout \in Seq(Values \cup {Zero}) /\ popped \in Seq(Seq(Values \cup {Zero}))
    BY Zenon, <1>1 DEF TypeOK, QueueInv
  <1>3. cout = Whole(pushed[m + 1])
    <2>1. cout \in [1..Parts -> Values \cup {Zero}]
      BY <1>1, <1>2
    <2>2. \A i \in 1..Parts : cout[i] = pushed[m + 1]
      BY Zenon, <1>1, <1>2 DEF QueueInv
    <2> QED BY Zenon, <2>1, <2>2 DEF Whole
  <1>4. /\ Len(popped') = m + 1 /\ popped'[m + 1] = cout
        /\ \A i \in 1..m : popped'[i] = popped[i]
    BY <1>1, <1>2
  <1>5. ASSUME NEW i \in 1..Len(popped') PROVE popped'[i] = Whole(pushed[i])
    <2>1. i \in 1..m \/ i = m + 1
      BY <1>2, <1>4
    <2> QED BY Zenon, <1>3, <1>4, <2>1 DEF QueueInv
  <1>6. CommittedSurvives'
    <2> SUFFICES ASSUME NEW c \in (head_publish + 1)..(tail_publish - 1)
                 PROVE  slots[Slot(c)] = Whole(pushed[c + 1])
      BY Zenon, <1>1 DEF CommittedSurvives, Whole
    <2>1. c \in head_publish..(tail_publish - 1)
      BY <1>2
    <2> QED BY Zenon, <2>1 DEF QueueInv, CommittedSurvives
  <1>7. /\ head_publish' <= tail_publish /\ tail_publish <= head_publish' + Capacity
        /\ head_publish' = Len(popped')
        /\ tail_publish < head_publish + Capacity => tail_publish < head_publish' + Capacity
    BY <1>1, <1>2, <1>4, CapacityAssumption
  <1>8. ASSUME ppc' = "copy"
        PROVE  /\ tail_publish' < head_publish' + Capacity
               /\ \A i \in 1..pdone' : slots'[Slot(tail_publish')][i] = pvalue'
    BY Zenon, <1>1, <1>7, <1>8 DEF QueueInv
  <1>9. tail_publish' = Len(pushed') /\ cpc' # "copy"
    BY Zenon, <1>1, <1>2
  <1> QED BY Zenon, <1>1, <1>5, <1>6, <1>7, <1>8, <1>9 DEF QueueInv

\* Steps that leave the slots, the cursors and the logs alone.
LEMMA InvControl ==
    ASSUME TypeOK, QueueInv,
           Claim \/ PushBegin \/ ProducerDies \/ Open \/ PopBegin \/ ConsumerDies
             \/ UNCHANGED vars
    PROVE  QueueInv'
  <1>1. UNCHANGED <<head_publish, tail_publish, slots, pushed, popped>>
    BY Zenon DEF Claim, PushBegin, ProducerDies, Open, PopBegin, ConsumerDies, vars,
       fileVars, producerVars, consumerVars
  <1>2. CommittedSurvives' /\ \A i \in 1..Len(popped') : popped'[i] = Whole(pushed'[i])
    BY Zenon, <1>1 DEF QueueInv, CommittedSurvives
  <1>3. /\ tail_publish = Len(pushed) /\ head_publish = Len(popped)
        /\ head_publish <= tail_publish /\ tail_publish <= head_publish + Capacity
        /\ head_publish \in Nat /\ tail_publish \in Nat
    BY Zenon DEF QueueInv, TypeOK
  <1>4. ASSUME ppc' = "copy"
        PROVE  /\ tail_publish < head_publish + Capacity
               /\ \A i \in 1..pdone' : slots[Slot(tail_publish)][i] = pvalue'
    <2>1. CASE PushBegin
      <3>1. pdone' = 0 /\ ~ Full
        BY Zenon, <2>1 DEF PushBegin
      <3>2. tail_publish < head_publish + Capacity
        BY <1>3, <3>1, CapacityAssumption DEF Full, Sub64
      <3> QED BY <3>1, <3>2
    <2>2. CASE ~ PushBegin
      <3>1. ppc = "copy" /\ UNCHANGED <<pdone, pvalue>>
        BY Zenon, <1>4, <2>2 DEF Claim, ProducerDies, Open, PopBegin, ConsumerDies, vars,
           fileVars, producerVars
      <3> QED BY Zenon, <3>1 DEF QueueInv
    <2> QED BY Zenon, <2>1, <2>2
  <1>5. ASSUME cpc' = "copy"
        PROVE  /\ head_publish < tail_publish
               /\ \A i \in 1..Len(cout') : cout'[i] = pushed[head_publish + 1]
    <2>1. CASE PopBegin
      <3>1. cout' = <<>> /\ head_publish # tail_publish
        BY Zenon, <2>1 DEF PopBegin
      <3>2. head_publish < tail_publish
        BY <1>3, <3>1
      <3> QED BY <3>1, <3>2
    <2>2. CASE ~ PopBegin
      <3>1. cpc = "copy" /\ UNCHANGED cout
        BY Zenon, <1>5, <2>2 DEF Claim, PushBegin, ProducerDies, Open, ConsumerDies, vars,
           consumerVars
      <3> QED BY Zenon, <3>1 DEF QueueInv
    <2> QED BY Zenon, <2>1, <2>2
  <1> QED BY Zenon, <1>1, <1>2, <1>3, <1>4, <1>5 DEF QueueInv

\* Every step of either process keeps the invariant.
LEMMA QueueStep == TypeOK /\ QueueInv /\ [Next]_vars => QueueInv'
  BY Zenon, InvPushCopy, InvPushStore, InvPopCopy, InvPopStore, InvControl
     DEF Next, Producer, Consumer

\* The slots between the cursors are the values pushed and not popped, and every
\* value popped is the one that was pushed, whole.
THEOREM QueueInvariant == Spec => []QueueInv
  BY QueueInit, QueueStep, TypeCorrect, PTL DEF Spec

\* No value that was published is lost or damaged by a death.
THEOREM CommittedSurvivesDeath == Spec => []CommittedSurvives
  <1>1. QueueInv => CommittedSurvives
    BY Zenon DEF QueueInv
  <1> QED BY <1>1, QueueInvariant, PTL

\* memcpy into a slot and memcpy out of one never meet.
THEOREM CopiesApart == Spec => []NoSharedSlot
  <1>1. TypeOK /\ QueueInv => NoSharedSlot
    <2> SUFFICES ASSUME TypeOK, QueueInv, ppc = "copy", cpc = "copy"
                 PROVE  Slot(tail_publish) # Slot(head_publish)
      BY Zenon DEF NoSharedSlot
    <2>1. /\ head_publish \in Nat /\ tail_publish \in Nat
          /\ head_publish < tail_publish /\ tail_publish < head_publish + Capacity
      BY Zenon DEF TypeOK, QueueInv
    <2>2. head_publish <= head_publish /\ head_publish < head_publish + Capacity
      BY <2>1, CapacityAssumption
    <2> QED BY <2>1, <2>2, SlotsDiffer
  <1> QED BY <1>1, TypeCorrect, QueueInvariant, PTL

-------------------------------------------------------------------------------
(* The refinement of Fifo. *)

sentLog == [i \in 1..Len(pushed) |-> Whole(pushed[i])]
Wholes == {Whole(v) : v \in Values}

\* The types of the logs the refinement maps to.
LEMMA SentType ==
    ASSUME TypeOK
    PROVE  /\ sentLog \in Seq(Wholes) /\ Len(sentLog) = Len(pushed)
           /\ Len(pushed) \in Nat /\ Len(popped) \in Nat
  <1>1. Len(pushed) \in Nat /\ Len(popped) \in Nat
        /\ \A i \in 1..Len(pushed) : pushed[i] \in Values
    BY DEF TypeOK
  <1>2. \A i \in 1..Len(pushed) : Whole(pushed[i]) \in Wholes
    BY Zenon, <1>1 DEF Wholes
  <1>3. sentLog \in [1..Len(pushed) -> Wholes]
    BY Zenon, <1>2 DEF sentLog
  <1> QED BY <1>1, <1>3

\* The store to tail_publish sends, and there is room.
LEMMA StoreSends ==
    ASSUME TypeOK, QueueInv, PushStore
    PROVE  /\ Whole(pvalue) \in Wholes
           /\ Len(sentLog) - Len(popped) < Capacity
           /\ sentLog' = Append(sentLog, Whole(pvalue))
           /\ popped' = popped
  <1> DEFINE n == Len(pushed)
             a == Append(sentLog, Whole(pvalue))
  <1>1. /\ pushed' = Append(pushed, pvalue) /\ popped' = popped /\ ppc = "copy"
    BY Zenon DEF PushStore, consumerVars
  <1>2. /\ pvalue \in Values /\ pushed \in Seq(Values) /\ n \in Nat
        /\ sentLog \in Seq(Wholes) /\ Len(sentLog) = n
    BY <1>1, SentType, BoundsAssumption DEF TypeOK, Values
  <1>3. Whole(pvalue) \in Wholes
    BY Zenon, <1>2 DEF Wholes
  <1>4. Len(sentLog) - Len(popped) < Capacity
    BY <1>1, <1>2, SentType, CapacityAssumption DEF QueueInv
  <1>5. /\ Len(pushed') = n + 1 /\ pushed'[n + 1] = pvalue
        /\ \A i \in 1..n : pushed'[i] = pushed[i]
    BY <1>1, <1>2
  <1>6. /\ a \in Seq(Wholes) /\ Len(a) = n + 1 /\ a[n + 1] = Whole(pvalue)
        /\ \A i \in 1..n : a[i] = sentLog[i]
    BY <1>2, <1>3
  <1> HIDE DEF a
  <1>7. sentLog' = [i \in 1..(n + 1) |-> Whole(pushed'[i])]
    BY Zenon, <1>5 DEF sentLog
  <1>8. a = [i \in 1..(n + 1) |-> a[i]]
    <2>1. a \in [1..(n + 1) -> Wholes]
      BY <1>6
    <2> QED BY Zenon, <2>1
  <1>9. ASSUME NEW i \in 1..(n + 1) PROVE a[i] = Whole(pushed'[i])
    <2>1. i \in 1..n \/ i = n + 1
      BY <1>2
    <2>2. CASE i \in 1..n
      BY Zenon, <1>5, <1>6, <2>2 DEF sentLog
    <2>3. CASE i = n + 1
      BY Zenon, <1>5, <1>6, <2>3
    <2> QED BY Zenon, <2>1, <2>2, <2>3
  <1>10. sentLog' = a
    BY Zenon, <1>7, <1>8, <1>9
  <1> QED BY Zenon, <1>1, <1>3, <1>4, <1>10 DEF a

\* The store to head_publish receives the oldest value.
LEMMA StoreReceives ==
    ASSUME TypeOK, QueueInv, PopStore
    PROVE  /\ Len(popped) < Len(sentLog)
           /\ popped' = Append(popped, sentLog[Len(popped) + 1])
           /\ sentLog' = sentLog
  <1>1. /\ popped' = Append(popped, cout) /\ pushed' = pushed /\ cpc = "copy"
        /\ Len(cout) = Parts
    BY Zenon DEF PopStore, producerVars
  <1>2. /\ Len(popped) \in Nat /\ Len(pushed) \in Nat /\ Len(sentLog) = Len(pushed)
        /\ Len(popped) < Len(pushed)
        /\ \A i \in 1..Parts : cout[i] = pushed[Len(popped) + 1]
    BY Zenon, <1>1, SentType DEF QueueInv
  <1>3. cout = Whole(pushed[Len(popped) + 1])
    <2>1. cout \in [1..Parts -> Values \cup {Zero}]
      BY <1>1 DEF TypeOK
    <2> QED BY Zenon, <1>2, <2>1 DEF Whole
  <1>4. Len(popped) + 1 \in 1..Len(pushed)
    BY <1>2
  <1>5. cout = sentLog[Len(popped) + 1]
    BY Zenon, <1>3, <1>4 DEF sentLog
  <1> QED BY Zenon, <1>1, <1>2, <1>5 DEF sentLog

\* The queue in shared memory, with its processes dying and restarting, is a
\* bounded FIFO queue of Capacity values.
THEOREM RefinesFifo == Spec => ImplementsFifo
  <1>1. Init => Queue!Init
    BY DEF Init, Queue!Init
  <1>2. TypeOK /\ QueueInv /\ [Next]_vars => [Queue!Next]_(Queue!fifoVars)
    <2> SUFFICES ASSUME TypeOK, QueueInv, [Next]_vars
                 PROVE  \/ Queue!Next
                        \/ sentLog' = sentLog /\ popped' = popped
      BY Zenon DEF Queue!fifoVars, sentLog
    <2>1. CASE PushStore
      BY Zenon, <2>1, StoreSends DEF Queue!Next, Queue!Send, sentLog, Wholes
    <2>2. CASE PopStore
      BY Zenon, <2>2, StoreReceives DEF Queue!Next, Queue!Receive, sentLog
    <2>3. CASE ~ PushStore /\ ~ PopStore
      <3>1. pushed' = pushed /\ popped' = popped
        BY Zenon, <2>3 DEF Next, Producer, Consumer, Claim, PushBegin, PushCopy, ProducerDies,
           Open, PopBegin, PopCopy, ConsumerDies, vars, producerVars, consumerVars
      <3> QED BY Zenon, <3>1 DEF sentLog
    <2> QED BY Zenon, <2>1, <2>2, <2>3
  <1> QED BY <1>1, <1>2, TypeCorrect, QueueInvariant, PTL
      DEF Spec, ImplementsFifo, Queue!Spec

--------------------------------------------------------------------------------
(* Typed messages. *)

\* Quotient and remainder are unique.
LEMMA UniqueRemainder ==
    ASSUME NEW C \in Nat \ {0}, NEW x \in 0..(C - 1), NEW y \in 0..(C - 1),
           NEW q \in Int, NEW r \in Int, C * q + x = C * r + y
    PROVE  x = y
  <1>1. C * (q - r) = y - x
    OBVIOUS
  <1>2. C * (r - q) = x - y
    OBVIOUS
  <1>3. ~ (q - r >= 1)
    BY <1>1, MultipleTooLarge
  <1>4. ~ (r - q >= 1)
    BY <1>2, MultipleTooLarge
  <1>5. q = r
    BY <1>3, <1>4
  <1> QED BY <1>1, <1>5

\* Sequences are equal when their lengths and elements are.
LEMMA SameSequence ==
    ASSUME NEW S, NEW s \in Seq(S), NEW t \in Seq(S), Len(s) = Len(t),
           \A k \in 1..Len(s) : s[k] = t[k]
    PROVE  s = t
  OBVIOUS

\* The place of byte x of element q.
LEMMA Quotient ==
    ASSUME NEW s \in Nat \ {0}, NEW q \in Nat, NEW x \in 0..(s - 1)
    PROVE  (s * q + x) \div s = q /\ (s * q + x) % s = x
  <1> DEFINE a == s * q + x
             d == a \div s
             m == a % s
  <1>1. a \in Int
    OBVIOUS
  <1>2. m \in 0..(s - 1) /\ d \in Int /\ a = s * d + m
    <2> HIDE DEF a
    <2> QED BY Zenon, <1>1, DivMod
  <1>3. s * q + x = s * d + m
    BY Zenon, <1>2
  <1> HIDE DEF d, m
  <1>4. x = m
    BY <1>2, <1>3, UniqueRemainder
  <1>5. s * (q - d) = 0 /\ s * (d - q) = 0
    BY <1>2, <1>3, <1>4
  <1>6. ~ (q - d >= 1)
    BY <1>2, <1>5, MultipleTooLarge
  <1>7. ~ (d - q >= 1)
    BY <1>2, <1>5, MultipleTooLarge
  <1>8. d = q
    BY <1>2, <1>6, <1>7
  <1> QED BY Zenon, <1>4, <1>8 DEF d, m

\* The place of the i-th byte of the k-th of n elements.
LEMMA Place ==
    ASSUME NEW s \in Nat \ {0}, NEW n \in Nat, NEW k \in 1..n, NEW i \in 1..s,
           NEW a \in Int, a = (k - 1) * s + i
    PROVE  a \in 1..(n * s) /\ ((a - 1) \div s) + 1 = k /\ ((a - 1) % s) + 1 = i
  <1>1. k - 1 \in Nat /\ i - 1 \in 0..(s - 1) /\ n - k \in Nat
    OBVIOUS
  <1>2. (s * (k - 1) + (i - 1)) \div s = k - 1 /\ (s * (k - 1) + (i - 1)) % s = i - 1
    BY Zenon, <1>1, Quotient
  <1>3. a - 1 = s * (k - 1) + (i - 1)
    OBVIOUS
  <1>4. (n - k) * s \in Nat /\ (k - 1) * s \in Nat
    BY <1>1
  <1>5. n * s = (n - k) * s + (k - 1) * s + s
    OBVIOUS
  <1>6. a \in 1..(n * s)
    BY <1>4, <1>5
  <1>7. (a - 1) \div s = k - 1 /\ (a - 1) % s = i - 1
    BY Zenon, <1>2, <1>3
  <1> QED BY <1>6, <1>7

\* As many elements as fit.
LEMMA Count ==
    ASSUME NEW s \in Nat \ {0}, NEW n \in Nat, NEW len \in Nat, n * s <= len
    PROVE  len \div s \in Nat /\ n <= len \div s /\ (len = n * s => len \div s = n /\ len % s = 0)
  <1> DEFINE d == len \div s
             m == len % s
  <1>1. m \in 0..(s - 1) /\ d \in Int /\ len = s * d + m
    BY DivMod
  <1> HIDE DEF d, m
  <1>2. n <= d
    <2> SUFFICES ASSUME n - d >= 1 PROVE FALSE
      BY <1>1
    <2>1. s * (n - d) >= s
      BY <1>1, MultipleTooLarge
    <2>2. s * (n - d) = s * n - s * d
      BY <1>1
    <2> QED BY <1>1, <2>1, <2>2
  <1>3. len = n * s => d = n /\ m = 0
    <2> SUFFICES ASSUME len = n * s PROVE d = n /\ m = 0
      BY Zenon
    <2>1. len = s * n + 0 /\ 0 \in 0..(s - 1)
      OBVIOUS
    <2>2. (s * n + 0) \div s = n /\ (s * n + 0) % s = 0
      BY Zenon, <2>1, Quotient
    <2> QED BY Zenon, <2>1, <2>2 DEF d, m
  <1> QED BY <1>1, <1>2, <1>3 DEF d, m

\* The same with names for places, elements and offsets.
Extent(n, s) == 1..(n * s)
PlaceAt(k, i, s) == (k - 1) * s + i
ElementAt(a, s) == ((a - 1) \div s) + 1
OffsetAt(a, s) == ((a - 1) % s) + 1

LEMMA PlaceNamed ==
    ASSUME NEW s \in Nat \ {0}, NEW n \in Nat, NEW k \in 1..n, NEW i \in 1..s
    PROVE  /\ PlaceAt(k, i, s) \in Extent(n, s)
           /\ ElementAt(PlaceAt(k, i, s), s) = k
           /\ OffsetAt(PlaceAt(k, i, s), s) = i
  <1> DEFINE a == PlaceAt(k, i, s)
  <1>1. a \in Int /\ a = (k - 1) * s + i
    BY DEF PlaceAt
  <1> HIDE DEF a
  <1>2. a \in 1..(n * s)
    BY SMT, <1>1, Place
  <1>3. ((a - 1) \div s) + 1 = k
    BY SMT, <1>1, Place
  <1>4. ((a - 1) % s) + 1 = i
    BY SMT, <1>1, Place
  <1> QED BY Zenon, <1>2, <1>3, <1>4 DEF a, Extent, ElementAt, OffsetAt

LEMMA Sizes == \A kind \in Kinds : Sizeof[kind] \in Nat \ {0}
  BY BytesAssumption DEF Kinds, Sizeof

LEMMA EncodeType ==
    ASSUME NEW kind \in Kinds, NEW v \in Seq(Seq(Byte)),
           \A k \in 1..Len(v) : Len(v[k]) = Sizeof[kind]
    PROVE  Encode(kind, v) \in Seq(Byte) /\ Len(Encode(kind, v)) = Len(v) * Sizeof[kind]
  <1> DEFINE s == Sizeof[kind]
             n == Len(v)
  <1>0. s \in Nat \ {0} /\ n \in Nat
    BY Sizes
  <1>1. \A k \in 1..n : \A i \in 1..s : v[k][i] \in Byte
    <2> HIDE DEF s
    <2>1. \A k \in 1..n : v[k] \in Seq(Byte)
      OBVIOUS
    <2> QED BY <2>1 DEF s
  <1> HIDE DEF s, n
  <1>2. ASSUME NEW i \in 1..(n * s)
        PROVE  ((i - 1) \div s) + 1 \in 1..n /\ ((i - 1) % s) + 1 \in 1..s
    <2> DEFINE d == (i - 1) \div s
               m == (i - 1) % s
    <2>1. i - 1 \in Int /\ n * s \in Nat
      BY <1>0
    <2>2. m \in 0..(s - 1) /\ d \in Int /\ i - 1 = s * d + m
      BY Zenon, <1>0, <2>1, DivMod
    <2> HIDE DEF d, m
    <2>3. ~ (0 - d >= 1)
      <3> SUFFICES ASSUME 0 - d >= 1 PROVE FALSE
        BY Zenon
      <3>1. s * (0 - d) >= s
        BY <1>0, <2>2, MultipleTooLarge
      <3>2. s * (0 - d) = 0 - s * d
        BY <1>0, <2>2
      <3> QED BY <1>0, <2>1, <2>2, <3>1, <3>2
    <2>4. ~ (d - n >= 0)
      <3> SUFFICES ASSUME d - n + 1 >= 1 PROVE FALSE
        BY <1>0, <2>2
      <3>1. s * (d - n + 1) >= s
        BY <1>0, <2>2, MultipleTooLarge
      <3>2. s * (d - n + 1) = s * d - n * s + s
        BY <1>0, <2>2
      <3> QED BY <1>0, <2>1, <2>2, <3>1, <3>2
    <2>5. d + 1 \in 1..n /\ m + 1 \in 1..s
      BY <1>0, <2>2, <2>3, <2>4
    <2> QED BY Zenon, <2>5 DEF d, m
  <1>3. n * s \in Nat
    BY <1>0
  <1>4. Encode(kind, v) = [i \in 1..(n * s) |-> v[((i - 1) \div s) + 1][((i - 1) % s) + 1]]
    BY Zenon DEF Encode, n, s
  <1>5. Encode(kind, v) \in [1..(n * s) -> Byte]
    BY <1>1, <1>2, <1>4
  <1>6. Encode(kind, v) \in Seq(Byte) /\ Len(Encode(kind, v)) = n * s
    BY <1>3, <1>5
  <1> QED BY Zenon, <1>6 DEF n, s

\* What starts with the memory of a value decodes to what starts with the value.
LEMMA DecodeStarts ==
    ASSUME NEW kind \in Kinds, NEW v \in Seq(Seq(Byte)),
           \A k \in 1..Len(v) : Len(v[k]) = Sizeof[kind],
           NEW p \in Seq(Byte), Len(v) * Sizeof[kind] <= Len(p),
           \A i \in 1..(Len(v) * Sizeof[kind]) : p[i] = Encode(kind, v)[i]
    PROVE  /\ Len(Decode(kind, p)) = Len(p) \div Sizeof[kind]
           /\ Len(v) <= Len(p) \div Sizeof[kind] /\ Len(p) \div Sizeof[kind] \in Nat
           /\ \A k \in 1..Len(v) : Decode(kind, p)[k] = v[k]
           /\ Decode(kind, p) = [k \in 1..(Len(p) \div Sizeof[kind]) |-> Decode(kind, p)[k]]
  <1> DEFINE s == Sizeof[kind]
             n == Len(v)
             c == Len(p) \div s
  <1>0. s \in Nat \ {0} /\ n \in Nat /\ Len(p) \in Nat
    BY Sizes
  <1>1. c \in Nat /\ n <= c
    BY Zenon, <1>0, Count
  <1>2. Decode(kind, p) = [k \in 1..c |-> [i \in 1..s |-> p[(k - 1) * s + i]]]
    BY Zenon DEF Decode
  <1>3. Encode(kind, v) = [i \in Extent(n, s) |-> v[ElementAt(i, s)][OffsetAt(i, s)]]
    BY Zenon DEF Encode, Extent, ElementAt, OffsetAt
  <1>4. \A k \in 1..n : v[k] \in Seq(Byte) /\ Len(v[k]) = s
    OBVIOUS
  <1>5. \A i \in Extent(n, s) : p[i] = Encode(kind, v)[i]
    BY Zenon DEF Extent
  <1> HIDE DEF s, n, c
  <1>6. ASSUME NEW k \in 1..n PROVE Decode(kind, p)[k] = v[k]
    <2>1. ASSUME NEW i \in 1..s PROVE p[(k - 1) * s + i] = v[k][i]
      <3> DEFINE a == PlaceAt(k, i, s)
      <3>1. a \in Extent(n, s) /\ ElementAt(a, s) = k /\ OffsetAt(a, s) = i
        BY Zenon, <1>0, PlaceNamed
      <3> HIDE DEF a
      <3>2. p[a] = v[k][i]
        BY Zenon, <1>3, <1>5, <3>1
      <3> QED BY Zenon, <3>2 DEF a, PlaceAt
    <2>2. Decode(kind, p)[k] = [i \in 1..s |-> p[(k - 1) * s + i]]
      BY <1>0, <1>1, <1>2
    <2>3. v[k] = [i \in 1..s |-> v[k][i]]
      BY <1>4
    <2> QED BY Zenon, <2>1, <2>2, <2>3
  <1>7. Len(Decode(kind, p)) = c
    BY <1>1, <1>2
  <1>8. Decode(kind, p) = [k \in 1..c |-> Decode(kind, p)[k]]
    BY Zenon, <1>2
  <1> QED BY Zenon, <1>1, <1>6, <1>7, <1>8 DEF n, c, s

-------------------------------------------------------------------------------
(* The writer and the reader *)

\* A typed push sends a message that carries its value.
LEMMA ValuesCarried ==
    ASSUME NEW kind \in Kinds, NEW m \in Nat, NEW v \in ValuesOf(kind, m)
    PROVE  [type |-> kind, payload |-> Encode(kind, v), typed |-> TRUE, value |-> v] \in Messages
  <1> DEFINE msg == [type |-> kind, payload |-> Encode(kind, v), typed |-> TRUE, value |-> v]
             s == Sizeof[kind]
  <1>0. s \in Nat \ {0}
    BY Zenon, Sizes
  <1>1. PICK len \in IF kind = "fixed" THEN {1} ELSE Lengths :
            v = [k \in 1..len |-> [i \in 1..s |-> <<m, k, i>>]]
    BY Zenon DEF ValuesOf
  <1>2. len \in Nat /\ (kind = "fixed" => len = 1)
    BY LengthsAssumption
  <1> HIDE DEF s
  <1>3. \A k \in 1..len : \A i \in 1..s : <<m, k, i>> \in Byte
    BY <1>0, <1>2 DEF Byte
  <1>4. \A k \in 1..len : [i \in 1..s |-> <<m, k, i>>] \in Seq(Byte)
                          /\ Len([i \in 1..s |-> <<m, k, i>>]) = s
    BY <1>0, <1>3
  <1>5. /\ v \in Seq(Seq(Byte)) /\ Len(v) = len
        /\ \A k \in 1..len : v[k] = [i \in 1..s |-> <<m, k, i>>]
    BY <1>1, <1>2, <1>4
  <1>6. \A k \in 1..Len(v) : Len(v[k]) = Sizeof[kind]
    BY ZenonT(30), <1>4, <1>5 DEF s
  <1>7. Encode(kind, v) \in Seq(Byte)
    BY Zenon, <1>5, <1>6, EncodeType
  <1>8. msg.type = kind /\ msg.payload = Encode(kind, v) /\ msg.value = v
    BY Zenon
  <1>9. msg \in [type : Kinds, payload : Seq(Byte), typed : BOOLEAN, value : Seq(Seq(Byte))]
    BY Zenon, <1>5, <1>7
  <1> HIDE DEF msg
  <1>10. Carries(msg)
    BY Zenon, <1>2, <1>5, <1>6, <1>8 DEF Carries
  <1> QED BY Zenon, <1>9, <1>10 DEF Messages, msg

LEMMA BytesCarried ==
    ASSUME NEW kind \in Kinds, NEW m \in Nat, NEW len \in Lengths
    PROVE  [type |-> kind, payload |-> [i \in 1..len |-> <<m, 0, i>>], typed |-> FALSE,
            value |-> <<>>] \in Messages
  <1>1. len \in Nat
    BY Zenon, LengthsAssumption
  <1>2. \A i \in 1..len : <<m, 0, i>> \in Byte
    BY <1>1 DEF Byte
  <1>3. [i \in 1..len |-> <<m, 0, i>>] \in Seq(Byte)
    BY <1>1, <1>2
  <1>4. <<>> \in Seq(Seq(Byte))
    OBVIOUS
  <1> QED BY Zenon, <1>3, <1>4 DEF Messages

\* The ring's try_pop: the payload comes first, and the buffer is as long as the longer.
LEMMA PoppedStarts ==
    ASSUME buffer \in Seq(Byte), NEW p \in Seq(Byte)
    PROVE  /\ Popped(p) \in Seq(Byte)
           /\ Len(Popped(p)) = IF Len(p) > Len(buffer) THEN Len(p) ELSE Len(buffer)
           /\ \A i \in 1..Len(p) : Popped(p)[i] = p[i]
  <1> DEFINE rest == SubSeq(buffer, Len(p) + 1, Len(buffer))
  <1>0. Len(p) \in Nat /\ Len(buffer) \in Nat
    OBVIOUS
  <1>1. rest \in Seq(Byte) /\ Len(rest) = IF Len(p) > Len(buffer) THEN 0 ELSE Len(buffer) - Len(p)
    <2>1. CASE Len(p) > Len(buffer)
      BY <1>0, <2>1
    <2>2. CASE Len(p) <= Len(buffer)
      BY <1>0, <2>2
    <2> QED BY <1>0, <2>1, <2>2
  <1>2. Popped(p) = p \o rest
    BY Zenon DEF Popped
  <1> HIDE DEF rest
  <1>3. p \o rest \in Seq(Byte) /\ Len(p \o rest) = Len(p) + Len(rest)
    BY <1>1
  <1>4. \A i \in 1..Len(p) : (p \o rest)[i] = p[i]
    BY <1>0, <1>1
  <1> QED BY <1>0, <1>1, <1>2, <1>3, <1>4

LEMMA TypedStarts == TypedInit => TypedInv
  <1> SUFFICES ASSUME TypedInit PROVE TypedInv
    OBVIOUS
  <1>1. last.kind = "none" /\ last.msg.payload = <<>> /\ longest = 0
    BY Zenon DEF TypedInit, NoMessage
  <1>2. Longest = 0
    BY Zenon, <1>1 DEF Longest
  <1>3. ring \in Seq(Messages) /\ buffer \in Seq(Byte) /\ Len(buffer) = 0 /\ sent = 0
    BY DEF TypedInit
  <1> QED BY <1>1, <1>2, <1>3 DEF TypedInv, Kinds

\* A push only adds a message to the ring.
LEMMA SendStep ==
    ASSUME TypedInv, NEW m \in Messages, Send(m)
    PROVE  TypedInv'
  <1>1. ring' \in Seq(Messages) /\ sent' \in Nat /\ UNCHANGED <<buffer, longest, last>>
    BY DEF Send, TypedInv
  <1>2. Longest' = Longest
    BY Zenon, <1>1 DEF Longest
  <1> QED BY Zenon, <1>1, <1>2 DEF TypedInv

\* What both ways to pop do to the ring and to the buffer.
LEMMA PopStep ==
    ASSUME TypedInv, ring # <<>>, buffer' = Popped(Head(ring).payload), longest' = Longest,
           last'.msg = Head(ring), ring' = Tail(ring), UNCHANGED sent
    PROVE  /\ Head(ring) \in Messages
           /\ ring' \in Seq(Messages) /\ sent' \in Nat /\ longest' \in Nat
           /\ buffer' \in Seq(Byte) /\ Len(buffer') = Longest'
           /\ last'.msg.payload \in Seq(Byte)
           /\ \A i \in 1..Len(last'.msg.payload) : buffer'[i] = last'.msg.payload[i]
  <1>1. Head(ring) \in Messages /\ ring' \in Seq(Messages)
    BY DEF TypedInv
  <1> DEFINE p == Head(ring).payload
  <1>2. p \in Seq(Byte)
    BY Zenon, <1>1 DEF Messages
  <1>3. last'.msg.payload = p
    BY Zenon
  <1>4. Longest \in Nat /\ Len(buffer) = Longest
    BY DEF TypedInv, Longest
  <1> HIDE DEF p
  <1>5. /\ buffer' \in Seq(Byte)
        /\ Len(buffer') = IF Len(p) > Len(buffer) THEN Len(p) ELSE Len(buffer)
        /\ \A i \in 1..Len(p) : buffer'[i] = p[i]
    BY Zenon, <1>2, PoppedStarts DEF p, TypedInv
  <1>6. Longest' = IF Len(p) > Longest THEN Len(p) ELSE Longest
    BY Zenon, <1>3 DEF Longest
  <1> QED BY Zenon, <1>1, <1>2, <1>3, <1>4, <1>5, <1>6 DEF TypedInv

LEMMA TypedStep == TypedInv /\ [TypedNext]_typedVars => TypedInv'
  <1> SUFFICES ASSUME TypedInv, [TypedNext]_typedVars PROVE TypedInv'
    OBVIOUS
  <1>0. sent + 1 \in Nat
    BY DEF TypedInv
  <1>1. ASSUME NEW kind \in Kinds, PushTyped(kind) PROVE TypedInv'
    <2>1. PICK v \in ValuesOf(kind, sent + 1) :
              Send([type |-> kind, payload |-> Encode(kind, v), typed |-> TRUE, value |-> v])
      BY Zenon, <1>1 DEF PushTyped
    <2> QED BY Zenon, <1>0, <2>1, ValuesCarried, SendStep
  <1>2. ASSUME NEW kind \in Kinds, PushBytes(kind) PROVE TypedInv'
    <2>1. PICK len \in Lengths :
              Send([type |-> kind, payload |-> [i \in 1..len |-> <<sent + 1, 0, i>>],
                    typed |-> FALSE, value |-> <<>>])
      BY Zenon, <1>2 DEF PushBytes
    <2> QED BY Zenon, <1>0, <2>1, BytesCarried, SendStep
  <1>3. ASSUME NEW kind \in Kinds, PopTyped(kind) PROVE TypedInv'
    <2> DEFINE ok == Head(ring).type = kind /\ Decodable(kind, buffer')
    <2>1. last' = [kind |-> kind, msg |-> Head(ring), ok |-> ok,
                   out |-> IF ok THEN Decode(kind, buffer') ELSE <<>>]
      BY Zenon, <1>3 DEF PopTyped
    <2>2. /\ last'.msg = Head(ring) /\ last'.kind = kind /\ last'.ok = ok
          /\ ok => last'.out = Decode(kind, buffer')
      BY Zenon, <2>1
    <2>3. /\ Head(ring) \in Messages
          /\ ring' \in Seq(Messages) /\ sent' \in Nat /\ longest' \in Nat
          /\ buffer' \in Seq(Byte) /\ Len(buffer') = Longest'
          /\ last'.msg.payload \in Seq(Byte)
          /\ \A i \in 1..Len(last'.msg.payload) : buffer'[i] = last'.msg.payload[i]
      BY Zenon, <1>3, <2>2, PopStep DEF PopTyped
    <2>4. /\ Decodable(kind, buffer') <=> Decodable(last.kind, buffer)'
          /\ Decode(kind, buffer') = Decode(last.kind, buffer)'
      BY Zenon, <2>2 DEF Decodable, Decode
    <2> QED BY ZenonT(30), <2>2, <2>3, <2>4 DEF TypedInv
  <1>4. CASE PopView
    <2>1. last'.msg = Head(ring) /\ last'.kind = "view"
      BY Zenon, <1>4 DEF PopView
    <2>2. last'.kind \notin Kinds
      BY Zenon, <2>1 DEF Kinds
    <2>3. /\ ring' \in Seq(Messages) /\ sent' \in Nat /\ longest' \in Nat
          /\ buffer' \in Seq(Byte) /\ Len(buffer') = Longest'
          /\ last'.msg.payload \in Seq(Byte)
          /\ \A i \in 1..Len(last'.msg.payload) : buffer'[i] = last'.msg.payload[i]
      BY Zenon, <1>4, <2>1, PopStep DEF PopView
    <2> QED BY Zenon, <2>2, <2>3 DEF TypedInv
  <1>5. CASE UNCHANGED typedVars
    BY Zenon, <1>5 DEF typedVars, TypedInv, Longest
  <1> QED BY Zenon, <1>1, <1>2, <1>3, <1>4, <1>5 DEF TypedNext

-------------------------------------------------------------------------------
(* What the last call returned *)

LEMMA DecodeType ==
    ASSUME NEW kind \in Kinds, NEW p \in Seq(Byte)
    PROVE  Decode(kind, p) \in Seq(Seq(Byte))
  <1> DEFINE s == Sizeof[kind]
             c == Len(p) \div s
             m == Len(p) % s
  <1>0. s \in Nat \ {0} /\ Len(p) \in Nat
    BY Sizes
  <1>1. m \in 0..(s - 1) /\ c \in Int /\ Len(p) = s * c + m
    <2> HIDE DEF s
    <2> QED BY <1>0, DivMod
  <1>2. c \in Nat
    <2> HIDE DEF s
    <2>1. 0 * s <= Len(p)
      BY <1>0
    <2> QED BY Zenon, <1>0, <2>1, Count
  <1>3. Decode(kind, p) = [k \in 1..c |-> [i \in 1..s |-> p[PlaceAt(k, i, s)]]]
    BY Zenon DEF Decode, PlaceAt
  <1> HIDE DEF s, c, m
  <1>4. Extent(c, s) \subseteq 1..Len(p)
    <2>1. c * s = s * c /\ c * s \in Nat
      BY <1>0, <1>2
    <2>2. c * s <= Len(p)
      BY <1>0, <1>1, <2>1
    <2> HIDE DEF Extent
    <2> QED BY <1>0, <2>1, <2>2 DEF Extent
  <1>5. ASSUME NEW k \in 1..c, NEW i \in 1..s PROVE p[PlaceAt(k, i, s)] \in Byte
    <2>1. PlaceAt(k, i, s) \in Extent(c, s)
      BY Zenon, <1>0, <1>2, PlaceNamed
    <2> QED BY <1>4, <2>1
  <1>6. \A k \in 1..c : [i \in 1..s |-> p[PlaceAt(k, i, s)]] \in Seq(Byte)
    BY <1>0, <1>5
  <1> QED BY <1>2, <1>3, <1>6

\* The value the last call was to return, and the buffer it had.
LEMMA LastCall ==
    ASSUME TypedInv, Matched
    PROVE  /\ last.kind \in Kinds /\ last.msg.value \in Seq(Seq(Byte)) /\ buffer \in Seq(Byte)
           /\ \A k \in 1..Len(last.msg.value) : Len(last.msg.value[k]) = Sizeof[last.kind]
           /\ last.kind = "fixed" => Len(last.msg.value) = 1
           /\ Len(last.msg.payload) = Len(last.msg.value) * Sizeof[last.kind]
           /\ Len(last.msg.payload) <= Len(buffer)
           /\ longest <= Len(last.msg.payload) => Len(buffer) = Len(last.msg.payload)
           /\ \A i \in 1..(Len(last.msg.value) * Sizeof[last.kind]) :
                  buffer[i] = Encode(last.kind, last.msg.value)[i]
  <1>1. /\ last.kind \in Kinds /\ last.msg \in Messages /\ last.msg.typed
        /\ last.msg.type = last.kind /\ buffer \in Seq(Byte) /\ Len(buffer) = Longest
        /\ longest \in Nat /\ last.msg.payload \in Seq(Byte)
        /\ \A i \in 1..Len(last.msg.payload) : buffer[i] = last.msg.payload[i]
    BY Zenon DEF TypedInv, Matched
  <1>2. Carries(last.msg) /\ last.msg.value \in Seq(Seq(Byte))
    BY Zenon, <1>1 DEF Messages
  <1>3. /\ \A k \in 1..Len(last.msg.value) : Len(last.msg.value[k]) = Sizeof[last.kind]
        /\ last.kind = "fixed" => Len(last.msg.value) = 1
        /\ last.msg.payload = Encode(last.kind, last.msg.value)
    BY Zenon, <1>1, <1>2 DEF Carries
  <1>4. Len(last.msg.payload) = Len(last.msg.value) * Sizeof[last.kind]
    BY <1>1, <1>2, <1>3, EncodeType
  <1>5. /\ Len(last.msg.payload) <= Len(buffer)
        /\ longest <= Len(last.msg.payload) => Len(buffer) = Len(last.msg.payload)
    BY <1>1 DEF Longest
  <1>6. \A i \in 1..(Len(last.msg.value) * Sizeof[last.kind]) :
            buffer[i] = Encode(last.kind, last.msg.value)[i]
    BY Zenon, <1>1, <1>3, <1>4
  <1> QED BY ZenonT(30), <1>1, <1>2, <1>3, <1>4, <1>5, <1>6

\* A value that takes all of what is decoded is what comes out.
LEMMA DecodeExact ==
    ASSUME NEW kind \in Kinds, NEW v \in Seq(Seq(Byte)),
           \A k \in 1..Len(v) : Len(v[k]) = Sizeof[kind],
           NEW p \in Seq(Byte), Len(p) = Len(v) * Sizeof[kind],
           \A i \in 1..(Len(v) * Sizeof[kind]) : p[i] = Encode(kind, v)[i]
    PROVE  Decode(kind, p) = v /\ Len(p) % Sizeof[kind] = 0
  <1> DEFINE s == Sizeof[kind]
             n == Len(v)
             d == Decode(kind, p)
  <1>0. s \in Nat \ {0} /\ n \in Nat /\ Len(p) \in Nat /\ Len(p) = n * s
    BY Sizes
  <1>1. Len(p) \div s = n /\ Len(p) % s = 0
    <2> HIDE DEF s, n
    <2>1. n * s <= Len(p)
      BY <1>0
    <2> QED BY Zenon, <1>0, <2>1, Count
  <1>2. n * s <= Len(p)
    <2> HIDE DEF s, n
    <2> QED BY <1>0
  <1>3. Len(d) = Len(p) \div s /\ \A k \in 1..n : d[k] = v[k]
    BY ZenonT(30), <1>2, DecodeStarts
  <1>4. d \in Seq(Seq(Byte))
    BY Zenon, DecodeType
  <1>5. Len(d) = n
    BY Zenon, <1>1, <1>3
  <1>6. d = v
    <2> HIDE DEF d
    <2>1. Len(d) = Len(v) /\ \A k \in 1..Len(d) : d[k] = v[k]
      BY Zenon, <1>3, <1>5
    <2> DEFINE T == Seq(Byte)
    <2>2. d \in Seq(T) /\ v \in Seq(T)
      BY Zenon, <1>4
    <2> HIDE DEF T
    <2> QED BY Zenon, <2>1, <2>2, SameSequence
  <1> QED BY Zenon, <1>1, <1>6

\* ExactUnlessLonger for every size of message and element: try_pop of a T returns what
\* try_push of a T was given as long as buffer_ has not been longer.
THEOREM Exact == TypedSpec => []ExactUnlessLonger
  <1>1. ASSUME TypedInv PROVE ExactUnlessLonger
    <2> SUFFICES ASSUME Matched, longest <= Len(last.msg.payload)
                 PROVE  last.ok /\ last.out = last.msg.value
      BY Zenon DEF ExactUnlessLonger
    <2> DEFINE v == last.msg.value
    <2>1. /\ last.kind \in Kinds /\ v \in Seq(Seq(Byte)) /\ buffer \in Seq(Byte)
          /\ \A k \in 1..Len(v) : Len(v[k]) = Sizeof[last.kind]
          /\ last.kind = "fixed" => Len(v) = 1
          /\ Len(buffer) = Len(v) * Sizeof[last.kind]
          /\ \A i \in 1..(Len(v) * Sizeof[last.kind]) : buffer[i] = Encode(last.kind, v)[i]
      BY Zenon, <1>1, LastCall
    <2>2. last.ok <=> last.msg.type = last.kind /\ Decodable(last.kind, buffer)
      BY Zenon, <1>1, <2>1 DEF TypedInv
    <2>3. last.ok => last.out = Decode(last.kind, buffer)
      BY Zenon, <1>1, <2>1 DEF TypedInv
    <2> HIDE DEF v
    <2>4. Decode(last.kind, buffer) = v /\ Len(buffer) % Sizeof[last.kind] = 0
      BY ZenonT(30), <2>1, DecodeExact
    <2>5. ASSUME last.kind = "fixed" PROVE Len(buffer) = FixedBytes
      <3>1. Sizeof[last.kind] = FixedBytes
        BY <2>5 DEF Sizeof
      <3>2. Len(buffer) = 1 * FixedBytes
        BY Zenon, <2>1, <2>5, <3>1
      <3> QED BY <3>2, BytesAssumption
    <2>6. Decodable(last.kind, buffer)
      BY Zenon, <2>4, <2>5 DEF Decodable
    <2> QED BY ZenonT(30), <2>2, <2>3, <2>4, <2>6 DEF Matched, v
  <1>2. TypedSpec => []TypedInv
    BY TypedStarts, TypedStep, PTL DEF TypedSpec
  <1> QED BY <1>1, <1>2, PTL

\* ValueComesFirst for every size of message and element: whatever else buffer_ holds,
\* what try_pop of a T returns begins with the value, and a T of fixed size is the value.
THEOREM ValueFirst == TypedSpec => []ValueComesFirst
  <1>1. ASSUME TypedInv PROVE ValueComesFirst
    <2> SUFFICES ASSUME Matched, last.ok
                 PROVE  /\ Len(last.msg.value) <= Len(last.out)
                        /\ \A k \in 1..Len(last.msg.value) : last.out[k] = last.msg.value[k]
                        /\ last.kind = "fixed" => last.out = last.msg.value
      BY Zenon DEF ValueComesFirst
    <2> DEFINE v == last.msg.value
               n == Len(v)
               s == Sizeof[last.kind]
               d == Decode(last.kind, buffer)
    <2>1. /\ last.kind \in Kinds /\ v \in Seq(Seq(Byte)) /\ buffer \in Seq(Byte)
          /\ \A k \in 1..Len(v) : Len(v[k]) = Sizeof[last.kind]
          /\ last.kind = "fixed" => Len(v) = 1
          /\ Len(v) * Sizeof[last.kind] <= Len(buffer)
          /\ \A i \in 1..(Len(v) * Sizeof[last.kind]) : buffer[i] = Encode(last.kind, v)[i]
      <3>1. /\ Len(last.msg.payload) = Len(v) * Sizeof[last.kind]
            /\ Len(last.msg.payload) <= Len(buffer)
        BY Zenon, <1>1, LastCall
      <3>2. Len(v) * Sizeof[last.kind] <= Len(buffer)
        BY Zenon, <3>1
      <3> QED BY Zenon, <1>1, <3>2, LastCall
    <2>2. Decodable(last.kind, buffer) /\ last.out = d
      BY Zenon, <1>1, <2>1 DEF TypedInv
    <2>3. d \in Seq(Seq(Byte))
      BY Zenon, <2>1, DecodeType
    <2>4. n \in Nat /\ s \in Nat \ {0}
      BY <2>1, Sizes
    <2> HIDE DEF v
    <2>5. /\ Len(d) = Len(buffer) \div s /\ n <= Len(buffer) \div s
          /\ \A k \in 1..n : d[k] = v[k]
      BY ZenonT(30), <2>1, DecodeStarts
    <2> HIDE DEF n, s, d
    <2>6. Len(v) <= Len(d) /\ \A k \in 1..Len(v) : d[k] = v[k]
      BY Zenon, <2>5 DEF n
    <2>7. ASSUME last.kind = "fixed" PROVE d = v
      <3>1. Len(buffer) = FixedBytes /\ Len(v) = 1 /\ Sizeof[last.kind] = FixedBytes
        BY <2>1, <2>2, <2>7 DEF Decodable, Sizeof
      <3>2. Len(buffer) = Len(v) * Sizeof[last.kind]
        BY <3>1, BytesAssumption
      <3> QED BY ZenonT(30), <2>1, <3>2, DecodeExact DEF d
    <2> QED BY Zenon, <2>2, <2>6, <2>7 DEF v
  <1>2. TypedSpec => []TypedInv
    BY TypedStarts, TypedStep, PTL DEF TypedSpec
  <1> QED BY <1>1, <1>2, PTL
================================================================================
