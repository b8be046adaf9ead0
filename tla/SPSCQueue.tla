------------------------------- MODULE SPSCQueue -------------------------------
(***************************************************************************)
(* SPSCQueue<T, Capacity> (spsc_queue.hpp): fixed slots, one producer and  *)
(* one consumer, in different processes that share the mapping.  Either    *)
(* process may die anywhere and be replaced: the new producer claims the   *)
(* file, the new consumer opens it.                                        *)
(*                                                                         *)
(* A value takes Parts memory words, which memcpy stores and loads one by  *)
(* one.  The k-th value pushed is the number k.                            *)
(***************************************************************************)
EXTENDS RingLayout, Sequences

CONSTANTS
    Capacity,   \* slots: the template parameter
    SizeofT,    \* sizeof(T) in bytes
    Parts,      \* words memcpy copies one after the other
    MaxPush,    \* bound: values a producer may try to push
    MaxCrash,   \* bound: deaths of the producer, and deaths of the consumer
    U64         \* what a negative cursor difference wraps around

ASSUME CapacityAssumption == Capacity \in Nat \ {0}
ASSUME PartsAssumption == Parts \in Nat \ {0}
ASSUME BoundsAssumption == MaxPush \in Nat /\ MaxCrash \in Nat /\ SizeofT \in Nat

VARIABLES
    \* the file: whether it exists, ControlBlock cursors, slots
    exists, head_publish, tail_publish, slots,
    \* the producer: next statement, words copied, value, deaths
    ppc, pdone, pvalue, pdeaths,
    \* the consumer: next statement, words copied so far, deaths
    cpc, cout, cdeaths,
    \* history: values published and values returned by try_pop
    pushed, popped

fileVars == <<exists, head_publish, tail_publish, slots>>
producerVars == <<ppc, pdone, pvalue, pdeaths, pushed>>
consumerVars == <<cpc, cout, cdeaths, popped>>
vars == <<fileVars, producerVars, consumerVars>>

Values == 1..MaxPush
Zero == 0                       \* what a fresh file holds
Slot(cursor) == cursor % Capacity   \* cursor & kMask, Capacity a power of two

\* The file has the size this template instance expects: create_mapping rounds
\* the capacity up to kAlignment, open and claim compare it unrounded.
SizeMatches == AlignUp(Capacity * SizeofT, kAlignment) = Capacity * SizeofT

Init ==
    /\ exists = FALSE
    /\ head_publish = 0 /\ tail_publish = 0
    /\ slots = [s \in 0..(Capacity - 1) |-> [i \in 1..Parts |-> Zero]]
    /\ ppc = "down" /\ pdone = 0 /\ pvalue = 1 /\ pdeaths = 0
    /\ cpc = "down" /\ cout = <<>> /\ cdeaths = 0
    /\ pushed = <<>> /\ popped = <<>>

-------------------------------------------------------------------------------
\* claim: kCreated without a file, kResumed with one; a capacity mismatch throws
\* and the producer stays down.
Claim ==
    /\ ppc = "down"
    /\ exists => SizeMatches
    /\ exists' = TRUE
    /\ ppc' = "idle"
    /\ UNCHANGED <<head_publish, tail_publish, slots, pdone, pvalue, pdeaths,
                   pushed, consumerVars>>

Full == Sub64(tail_publish, head_publish, U64) >= Capacity

\* Mutant of PushBegin: off by one in the test for a full queue.
PushBegin_OneTooMany ==
    /\ ppc = "idle"
    /\ pvalue <= MaxPush
    /\ Sub64(tail_publish, head_publish, U64) <= Capacity
    /\ ppc' = "copy"
    /\ pdone' = 0
    /\ UNCHANGED <<pvalue, pdeaths, pushed, fileVars, consumerVars>>

\* try_push loads its own tail and the consumer's head.  On a full queue it
\* returns false and nothing changes.
PushBegin ==
    /\ ppc = "idle"
    /\ pvalue <= MaxPush
    /\ ~ Full
    /\ ppc' = "copy"
    /\ pdone' = 0
    /\ UNCHANGED <<pvalue, pdeaths, pushed, fileVars, consumerVars>>

PushCopy ==
    /\ ppc = "copy"
    /\ pdone < Parts
    /\ slots' = [slots EXCEPT ![Slot(tail_publish)][pdone + 1] = pvalue]
    /\ pdone' = pdone + 1
    /\ UNCHANGED <<exists, head_publish, tail_publish, ppc, pvalue, pdeaths,
                   pushed, consumerVars>>

\* Mutant of PushStore: tail_publish is stored before the copy is complete.
PushStore_Early ==
    /\ ppc = "copy"
    /\ pdone >= Parts - 1
    /\ tail_publish' = tail_publish + 1
    /\ pushed' = Append(pushed, pvalue)
    /\ pvalue' = pvalue + 1
    /\ ppc' = "idle"
    /\ UNCHANGED <<exists, head_publish, slots, pdone, pdeaths, consumerVars>>

PushStore ==
    /\ ppc = "copy"
    /\ pdone = Parts
    /\ tail_publish' = tail_publish + 1
    /\ pushed' = Append(pushed, pvalue)
    /\ pvalue' = pvalue + 1
    /\ ppc' = "idle"
    /\ UNCHANGED <<exists, head_publish, slots, pdone, pdeaths, consumerVars>>

\* The producer's process dies; a value it was copying is never published.
ProducerDies ==
    /\ ppc # "down"
    /\ pdeaths < MaxCrash
    /\ pdeaths' = pdeaths + 1
    /\ ppc' = "down"
    /\ pvalue' = IF ppc = "copy" THEN pvalue + 1 ELSE pvalue
    /\ UNCHANGED <<pdone, pushed, fileVars, consumerVars>>

Producer == Claim \/ PushBegin \/ PushCopy \/ PushStore

-------------------------------------------------------------------------------
\* open; without a file, or with a capacity mismatch, it throws.
Open ==
    /\ cpc = "down"
    /\ exists /\ SizeMatches
    /\ cpc' = "idle"
    /\ UNCHANGED <<cout, cdeaths, popped, fileVars, producerVars>>

\* Mutant of PopBegin: off by one in the test for an empty queue.
PopBegin_KeepsOne ==
    /\ cpc = "idle"
    /\ head_publish + 1 < tail_publish
    /\ cpc' = "copy"
    /\ cout' = <<>>
    /\ UNCHANGED <<cdeaths, popped, fileVars, producerVars>>

\* try_pop loads its own head and the producer's tail.  On an empty queue it
\* returns false and nothing changes.
PopBegin ==
    /\ cpc = "idle"
    /\ head_publish # tail_publish
    /\ cpc' = "copy"
    /\ cout' = <<>>
    /\ UNCHANGED <<cdeaths, popped, fileVars, producerVars>>

PopCopy ==
    /\ cpc = "copy"
    /\ Len(cout) < Parts
    /\ cout' = Append(cout, slots[Slot(head_publish)][Len(cout) + 1])
    /\ UNCHANGED <<cpc, cdeaths, popped, fileVars, producerVars>>

\* Mutant of PopStore: the slot is given back before the copy is complete.
PopStore_Early ==
    /\ cpc = "copy"
    /\ Len(cout) >= Parts - 1
    /\ head_publish' = head_publish + 1
    /\ popped' = Append(popped, cout)
    /\ cpc' = "idle"
    /\ UNCHANGED <<cout, cdeaths, exists, tail_publish, slots, producerVars>>

PopStore ==
    /\ cpc = "copy"
    /\ Len(cout) = Parts
    /\ head_publish' = head_publish + 1
    /\ popped' = Append(popped, cout)
    /\ cpc' = "idle"
    /\ UNCHANGED <<cout, cdeaths, exists, tail_publish, slots, producerVars>>

\* The consumer's process dies; what it had copied is popped again later.
ConsumerDies ==
    /\ cpc # "down"
    /\ cdeaths < MaxCrash
    /\ cdeaths' = cdeaths + 1
    /\ cpc' = "down"
    /\ UNCHANGED <<cout, popped, fileVars, producerVars>>

Consumer == Open \/ PopBegin \/ PopCopy \/ PopStore

Next == Producer \/ ProducerDies \/ Consumer \/ ConsumerDies

Spec == Init /\ [][Next]_vars

\* Both processes are scheduled and restarted when they died; the producer's
\* caller repeats a try_push that found the queue full.
FairSpec == Spec /\ WF_vars(Producer) /\ WF_vars(Consumer)

-------------------------------------------------------------------------------
Whole(v) == [i \in 1..Parts |-> v]

\* Type invariant.
TypeOK ==
    /\ exists \in BOOLEAN
    /\ head_publish \in Nat /\ tail_publish \in Nat
    /\ slots \in [0..(Capacity - 1) -> [1..Parts -> Values \cup {Zero}]]
    /\ ppc \in {"down", "idle", "copy"}
    /\ pdone \in 0..Parts
    /\ pvalue \in 1..(MaxPush + 1) /\ (ppc = "copy" => pvalue <= MaxPush)
    /\ pdeaths \in 0..MaxCrash
    /\ cpc \in {"down", "idle", "copy"}
    /\ cout \in Seq(Values \cup {Zero}) /\ Len(cout) <= Parts
    /\ cdeaths \in 0..MaxCrash
    /\ pushed \in Seq(Values)
    /\ popped \in Seq(Seq(Values \cup {Zero}))

\* The value being copied in and the one being copied out are never in the same
\* slot, although try_push and try_pop take no lock.
NoSharedSlot ==
    ppc = "copy" /\ cpc = "copy" => Slot(tail_publish) # Slot(head_publish)

\* Every slot between head_publish and tail_publish holds a whole value, the one
\* that was pushed there, whenever and wherever a producer died: the value a
\* dead producer was copying is outside.
CommittedSurvives ==
    \A c \in head_publish..(tail_publish - 1) :
        slots[Slot(c)] = Whole(pushed[c + 1])

\* The inductive invariant: the cursors count what went in and out, the slots
\* between them hold it, and the copies under way are as far as they are.
QueueInv ==
    /\ tail_publish = Len(pushed) /\ head_publish = Len(popped)
    /\ head_publish <= tail_publish /\ tail_publish <= head_publish + Capacity
    /\ ppc = "copy" =>
        /\ tail_publish < head_publish + Capacity
        /\ \A i \in 1..pdone : slots[Slot(tail_publish)][i] = pvalue
    /\ cpc = "copy" =>
        /\ head_publish < tail_publish
        /\ \A i \in 1..Len(cout) : cout[i] = pushed[head_publish + 1]
    /\ \A i \in 1..Len(popped) : popped[i] = Whole(pushed[i])
    /\ CommittedSurvives

\* The queue is a bounded FIFO, deaths and restarts included: a value is in it
\* from the store to tail_publish to the store to head_publish.
Queue == INSTANCE Fifo WITH
    Messages <- {Whole(v) : v \in Values},
    sentLog <- [i \in 1..Len(pushed) |-> Whole(pushed[i])],
    receivedLog <- popped,
    Bound <- Capacity

ImplementsFifo == Queue!Spec

\* Every published value is returned by try_pop.
PublishedIsPopped ==
    \A n \in 1..MaxPush : (tail_publish = n) ~> (head_publish >= n)

\* "Claims ownership of a SPSCQueue slot, creating the file or resuming from an
\* existing one": a producer that died is replaced by one that can push.
ProducerRecovers == (ppc = "down") ~> (ppc # "down")
===============================================================================
