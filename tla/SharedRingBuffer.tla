--------------------------- MODULE SharedRingBuffer ---------------------------
(***************************************************************************)
(* SharedRingBuffer (shared_ring_buffer.cpp): the MPSC ring.  Producers    *)
(* run RingWriter's try_push; one consumer calls try_pop in a loop.        *)
(*                                                                         *)
(* head_publish is written by the consumer alone, so its own load of it    *)
(* always returns the current value, and the words below tail_publish are  *)
(* not written while it reads them (RegionsDisjoint): what it does between *)
(* two accesses of shared atomics is one step.                             *)
(***************************************************************************)
EXTENDS RingWriter

VARIABLES
    cpc,       \* the consumer's next statement
    ctail,     \* `tail` in try_pop_internal
    cnew,      \* `head` after it was advanced
    cgot,      \* what was copied to the caller: a one-element sequence, or empty
    outsize,   \* out.size() of the vector the caller passes again and again
    popped     \* history: what try_pop returned, in order

consumerVars == <<cpc, ctail, cnew, cgot, outsize, popped>>
vars == <<controlVars, producerVars, dead, consumerVars>>

Init ==
    /\ WriterInit
    /\ cpc = "load_tail"
    /\ ctail = 0
    /\ cnew = 0
    /\ cgot = <<>>
    /\ outsize = 0
    /\ popped = <<>>

\* Mutant of PopLoadTail: the reserved instead of the published tail is read.
PopLoadTail_Reserved ==
    /\ cpc = "load_tail"
    /\ ctail' = tail_reserve
    /\ cpc' = IF head_publish = tail_reserve THEN "load_tail" ELSE "inspect"
    /\ UNCHANGED <<cnew, cgot, outsize, popped, controlVars>>

\* try_pop starts, or goes round its loop again.
PopLoadTail ==
    /\ cpc = "load_tail"
    /\ ctail' = tail_publish
    /\ cpc' = IF head_publish = tail_publish THEN "load_tail" ELSE "inspect"
    /\ UNCHANGED <<cnew, cgot, outsize, popped, controlVars>>

\* A word read as the first word of a RecordHeader.  Only a header or memory
\* that was never written can be met where the consumer looks (HeadIsARecord).
HeaderAt(at) == IF ring[at].kind = "header" THEN ring[at]
                ELSE HeaderCell(0, NoMessage, FALSE)

SkipAt(head) == \/ Remaining(head) < HeaderWords
                \/ HeaderAt(Pos(head)).wrap

\* Fewer bytes than a header before the end of the ring, or a wrap record.
PopSkip ==
    /\ cpc = "inspect"
    /\ SkipAt(head_publish)
    /\ cnew' = head_publish + Remaining(head_publish)
    /\ cpc' = "store_head"
    /\ UNCHANGED <<ctail, cgot, outsize, popped, controlVars>>

\* The record reaches past the end of the ring, or past what is published.
Malformed(head) ==
    LET words == RecordWords(HeaderAt(Pos(head)).size)
    IN  words > Remaining(head) \/ Sub64(ctail, head, U64) < words

\* A malformed record makes try_pop return false; any other one is copied.
PopRead ==
    /\ cpc = "inspect"
    /\ ~ SkipAt(head_publish)
    /\ LET at == Pos(head_publish)
           header == HeaderAt(at)
           resized == IF outsize < header.size THEN header.size ELSE outsize
           record == [type |-> header.type,
                      sequence |-> ring[at + 1],
                      payload |-> [i \in 1..PayloadWords(header.size) |->
                                       ring[at + HeaderWords + i - 1]],
                      size |-> resized]
       IN  IF Malformed(head_publish)
           THEN cpc' = "load_tail" /\ UNCHANGED <<cnew, cgot, outsize>>
           ELSE /\ cpc' = "store_head"
                /\ cgot' = <<record>>
                /\ outsize' = resized
                /\ cnew' = head_publish + RecordWords(header.size)
    /\ UNCHANGED <<ctail, popped, controlVars>>

\* The store to head_publish gives the words back to the producers.
PopStoreHead ==
    /\ cpc = "store_head"
    /\ head_publish' = cnew
    /\ popped' = popped \o cgot
    /\ cpc' = "store_reserve"
    /\ UNCHANGED <<ctail, cnew, cgot, outsize, head_reserve, tail_reserve,
                   tail_publish, sequence, ring>>

\* The store to head_reserve; then the loop goes on, or try_pop returns true.
PopStoreReserve ==
    /\ cpc = "store_reserve"
    /\ head_reserve' = cnew
    /\ cgot' = <<>>
    /\ cpc' = "load_tail"
    /\ UNCHANGED <<ctail, cnew, outsize, popped, head_publish, tail_reserve,
                   tail_publish, sequence, ring>>

Pop ==
    /\ \/ PopLoadTail \/ PopSkip \/ PopRead
       \/ PopStoreHead \/ PopStoreReserve
    /\ UNCHANGED <<producerVars, dead>>

Next ==
    \/ Pop
    \/ \E p \in Producers : Push(p) /\ UNCHANGED consumerVars

Spec == Init /\ [][Next]_vars

(***************************************************************************)
(* Scheduling: the operating system keeps running the consumer and every   *)
(* producer that is inside a call, and a compare_exchange_weak that could  *)
(* succeed time and again does not fail spuriously for ever.  Nothing      *)
(* makes a producer call try_push.                                         *)
(***************************************************************************)
ProducerRuns(p) == p \notin dead /\ PushStep(p) /\ UNCHANGED <<dead, consumerVars>>
ProducerReserves(p) ==
    p \notin dead /\ PushReserve(p) /\ UNCHANGED <<dead, consumerVars>>

FairSpec ==
    /\ Spec
    /\ WF_vars(Pop)
    /\ \A p \in Producers :
        WF_vars(ProducerRuns(p)) /\ SF_vars(ProducerReserves(p))

\* Callers that also repeat a try_push that returned false, as the tests'
\* producers do: while (!ring.try_push(...)) yield.
ProducerCalls(p) ==
    /\ p \notin dead
    /\ \E size \in Sizes : PushCall(p, size)
    /\ UNCHANGED <<dead, consumerVars>>

RetryingSpec == FairSpec /\ \A p \in Producers : WF_vars(ProducerCalls(p))

-------------------------------------------------------------------------------
\* What try_pop hands to its caller.
Records == [type : Messages \cup {NoMessage}, sequence : Cells,
            payload : Seq(Cells), size : Nat]

\* Type invariant of the control block, the producers and the consumer.
TypeOK ==
    /\ WriterTypeOK
    /\ cpc \in {"load_tail", "inspect", "store_head", "store_reserve"}
    /\ ctail \in Nat /\ cnew \in Nat /\ outsize \in Nat
    /\ cgot \in Seq(Records) /\ Len(cgot) <= 1
    /\ popped \in Seq(Records)

\* The cursors never overtake one another: what is read was published, what is
\* published was reserved, and at most Capacity words are reserved and unread
\* (the checks of try_push against a head_publish that is stale by then).
CursorOrder ==
    /\ head_reserve <= head_publish
    /\ head_publish <= tail_publish
    /\ tail_publish <= tail_reserve
    /\ tail_reserve <= head_publish + Capacity

\* Words the consumer may still read.
UnreadWords == {Pos(c) : c \in head_publish..(tail_publish - 1)}

\* No data race on the ring: the words a producer writes, without any lock,
\* are no other producer's and none of those the consumer may be reading.
RegionsDisjoint ==
    \A p \in Producers :
        /\ OwnedWords(p) \cap UnreadWords = {}
        /\ \A q \in Producers \ {p} : OwnedWords(p) \cap OwnedWords(q) = {}

\* A record is written in one piece inside the ring and inside what its
\* producer reserved: memcpy(ring + pos + sizeof(RecordHeader), data, size)
\* never runs past the mapping.
RecordInBounds ==
    \A p \in Producers : ppc[p] \in Holding =>
        /\ RecordPos(p) + RecordWords(psize[p]) <= Capacity
        /\ RecordPos(p) \in OwnedWords(p)
        /\ RecordPos(p) + RecordWords(psize[p]) - 1 \in OwnedWords(p)

\* What the consumer reads as a RecordHeader is the header of the next
\* published message, so the two `return false` of try_pop on a malformed
\* record are never taken and the consumer never stops in front of one.
HeadIsARecord ==
    cpc = "inspect" /\ ~ SkipAt(head_publish) =>
        /\ ring[Pos(head_publish)].kind = "header"
        /\ ~ Malformed(head_publish)
        /\ HeaderAt(Pos(head_publish)).type = log[Len(popped) + 1].msg

\* try_pop returns every message intact: the i-th record popped has the type,
\* payload and sequence number of the i-th one published.
PoppedIntact ==
    /\ Len(popped) <= Len(log)
    /\ \A i \in 1..Len(popped) :
        /\ popped[i].type = log[i].msg
        /\ popped[i].payload = Payload(log[i].msg, log[i].size)
        /\ popped[i].sequence = SequenceCell(i)

\* No push is lost, repeated, made up or overtaken by a later one of its producer.
PushedOnce == EachPushOnce(popped)

\* A producer that dies between its CAS and its publishing store
\* (ring_writer.hpp:98) is in the way of all who reserve after it, for ever:
\* neither the others nor the consumer get tail_publish past its reservation.
DeadKeepPlace ==
    [][\A p \in dead : ppc[p] \in Holding => KeepsPlace(p)]_vars

\* The ring is a bounded FIFO queue: a message goes in when tail_publish passes
\* it and comes out when head_publish does.
Queue == INSTANCE Fifo WITH
    sentLog <- [i \in 1..Len(log) |-> log[i].msg],
    receivedLog <- [i \in 1..Len(popped) |-> popped[i].type],
    Bound <- Capacity \div HeaderWords

ImplementsFifo == Queue!Spec

\* A call of try_push returns, whatever the other producers do: the wait for
\* earlier producers to publish ends.
PushReturns == \A p \in Producers : (ppc[p] # "idle") ~> (ppc[p] = "idle")

\* Every published message is returned by try_pop.
PublishedIsPopped ==
    \A n \in 1..(MaxPush * Cardinality(Producers)) :
        (Len(log) = n) ~> (Len(popped) >= n)

\* The record and the padding it takes at the present tail are longer than the
\* ring, so try_push refuses this call even when every record has been popped.
OutgrowsRing(p) ==
    LET words == RecordWords(psize[p])
    IN  /\ ppc[p] \in {"load_head", "load_tail"}
        /\ Padding(tail_reserve, words) + words > Capacity

\* A caller that retries a rejected push gets its messages in, because the space
\* that the consumer frees is found, across the end of the ring as well.  The
\* one exception (ring_writer.hpp:54-64): from some point on it calls only with
\* records that outgrow the ring where the tail has come to stand.
RetriesSucceed ==
    \A p \in Producers :
        <>(sent[p] = MaxPush) \/ <>[](ppc[p] = "idle" \/ OutgrowsRing(p))

\* Without that exception: a caller that retries gets every record in that is
\* not larger than the ring.
EveryRetrySucceeds == \A p \in Producers : <>(sent[p] = MaxPush)

\* README.md:6 calls the ring lock-free: a producer that dies does not keep
\* the calls of the others from returning.
SurvivorsReturn ==
    \A p \in Producers :
        (ppc[p] # "idle") ~> (ppc[p] = "idle" \/ p \in dead)
===============================================================================
