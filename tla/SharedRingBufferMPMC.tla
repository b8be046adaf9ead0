------------------------- MODULE SharedRingBufferMPMC -------------------------
(***************************************************************************)
(* SharedRingBufferMPMC (shared_ring_buffer_mpmc.cpp): producers run       *)
(* RingWriter's try_push, consumers claim a record with a CAS on           *)
(* head_reserve, copy it and give it back on head_publish in claim order.  *)
(*                                                                         *)
(* A consumer reads the header before its claim, so what it reads may      *)
(* already have been popped by another consumer and overwritten.  It also  *)
(* loads tail_publish before head_reserve, so the head may be ahead of the *)
(* tail it compares it with; `overrun` records that a claim reached past   *)
(* what its consumer knew to be published.                                 *)
(***************************************************************************)
EXTENDS RingWriter

CONSTANTS
    Consumers,        \* threads or processes that call try_pop
    MortalConsumers,  \* consumers that may die in the middle of a call
    MaxCursor         \* bound: no try_pop starts when head_reserve is past it

ASSUME ConsumersAssumption == MortalConsumers \subseteq Consumers /\ MaxCursor \in Nat

VARIABLES
    \* locals of try_pop, per consumer
    cpc,      \* the next statement
    ctail,    \* `tail`
    chead,    \* `head`
    cnew,     \* `new_head`
    csize,    \* `payload_size`: a one-element sequence, or empty for a skip
    cgot,     \* what was copied to the caller: one record, or none
    cdead,    \* consumers whose process died
    \* history
    overrun,  \* a CAS moved head_reserve past the consumer's `tail`
    popped    \* what try_pop returned, in the order of the head_publish stores

localVars == <<ctail, chead, cnew, csize, cgot>>
consumerVars == <<cpc, localVars, cdead, overrun, popped>>
vars == <<controlVars, producerVars, dead, consumerVars>>

Init ==
    /\ WriterInit
    /\ cpc = [c \in Consumers |-> "load_tail"]
    /\ ctail = [c \in Consumers |-> 0]
    /\ chead = [c \in Consumers |-> 0]
    /\ cnew = [c \in Consumers |-> 0]
    /\ csize = [c \in Consumers |-> <<>>]
    /\ cgot = [c \in Consumers |-> <<>>]
    /\ cdead = {}
    /\ overrun = FALSE
    /\ popped = <<>>

\* The loop starts anew, or try_pop returned and is called again.
Again(c) ==
    /\ cpc' = [cpc EXCEPT ![c] = "load_tail"]
    /\ ctail' = [ctail EXCEPT ![c] = 0]
    /\ chead' = [chead EXCEPT ![c] = 0]
    /\ cnew' = [cnew EXCEPT ![c] = 0]
    /\ csize' = [csize EXCEPT ![c] = <<>>]
    /\ cgot' = [cgot EXCEPT ![c] = <<>>]

PopLoadTail(c) ==
    /\ cpc[c] = "load_tail"
    /\ head_reserve <= MaxCursor
    /\ ctail' = [ctail EXCEPT ![c] = tail_publish]
    /\ cpc' = [cpc EXCEPT ![c] = "load_head"]
    /\ UNCHANGED <<chead, cnew, csize, cgot, overrun, popped, controlVars>>

\* head == tail makes try_pop return false.
PopLoadHead(c) ==
    /\ cpc[c] = "load_head"
    /\ IF head_reserve = ctail[c] THEN Again(c)
       ELSE /\ chead' = [chead EXCEPT ![c] = head_reserve]
            /\ cpc' = [cpc EXCEPT ![c] = "inspect"]
            /\ UNCHANGED <<ctail, cnew, csize, cgot>>
    /\ UNCHANGED <<overrun, popped, controlVars>>

\* What the first word at `at` may be read as: a header as it is, zeros as an
\* empty record, a sequence number as a small `size`, payload bytes as anything.
HeadersAt(at) ==
    CASE ring[at].kind = "header" -> {ring[at]}
      [] ring[at].kind = "zero" -> {HeaderCell(0, NoMessage, FALSE)}
      [] ring[at].kind = "sequence" -> {HeaderCell(ring[at].value, NoMessage, FALSE)}
      [] OTHER -> [kind : {"header"}, size : Sizes, type : {NoMessage}, wrap : BOOLEAN]

Available(c) == Sub64(ctail[c], chead[c], U64)

\* A decision of try_pop: claim up to `words` further, or return false because
\* less than that is available.
Decide(c, words, size) ==
    IF Available(c) < words THEN Again(c)
    ELSE /\ cnew' = [cnew EXCEPT ![c] = chead[c] + words]
         /\ csize' = [csize EXCEPT ![c] = size]
         /\ cpc' = [cpc EXCEPT ![c] = "cas"]
         /\ UNCHANGED <<ctail, chead, cgot>>

\* The tests between the loads and the CAS: a tail too short for a header, less
\* than a header available, a wrap record, a record past the end of the ring.
PopInspect(c) ==
    /\ cpc[c] = "inspect"
    /\ LET left == Remaining(chead[c])
       IN  IF left < HeaderWords THEN Decide(c, left, <<>>)
           ELSE IF Available(c) < HeaderWords THEN Again(c)
           ELSE \E header \in HeadersAt(Pos(chead[c])) :
                  IF header.wrap THEN Decide(c, left, <<>>)
                  ELSE IF RecordWords(header.size) > left THEN Again(c)
                  ELSE Decide(c, RecordWords(header.size), <<header.size>>)
    /\ UNCHANGED <<overrun, popped, controlVars>>

\* Mutant of PopClaim: a plain store where the code compares and exchanges.
PopClaim_PlainStore(c) ==
    /\ cpc[c] = "cas"
    /\ head_reserve' = cnew[c]
    /\ overrun' = (overrun \/ cnew[c] > ctail[c])
    /\ cpc' = [cpc EXCEPT ![c] = IF csize[c] = <<>> THEN "wait" ELSE "copy"]
    /\ UNCHANGED <<localVars, popped, head_publish, tail_reserve, tail_publish,
                   sequence, ring>>

\* The CAS on head_reserve succeeds.
PopClaim(c) ==
    /\ cpc[c] = "cas"
    /\ head_reserve = chead[c]
    /\ head_reserve' = cnew[c]
    /\ overrun' = (overrun \/ cnew[c] > ctail[c])
    /\ cpc' = [cpc EXCEPT ![c] = IF csize[c] = <<>> THEN "wait" ELSE "copy"]
    /\ UNCHANGED <<localVars, popped, head_publish, tail_reserve, tail_publish,
                   sequence, ring>>

\* compare_exchange_weak fails because the value changed, or spuriously.
PopRetry(c) ==
    /\ cpc[c] = "cas"
    /\ Again(c)
    /\ UNCHANGED <<overrun, popped, controlVars>>

\* Payload, type and sequence are read after the claim, the size was before.
PopCopy(c) ==
    /\ cpc[c] = "copy"
    /\ LET at == Pos(chead[c])
       IN  \E header \in HeadersAt(at) :
             cgot' = [cgot EXCEPT ![c] =
                <<[type |-> header.type, sequence |-> ring[at + 1],
                   payload |-> [i \in 1..PayloadWords(csize[c][1]) |->
                                    ring[at + HeaderWords + i - 1]]]>>]
    /\ cpc' = [cpc EXCEPT ![c] = "wait"]
    /\ UNCHANGED <<ctail, chead, cnew, csize, overrun, popped, controlVars>>

\* Mutant of PopPublish: a consumer does not wait for the earlier ones.
PopPublish_NoWait(c) ==
    /\ cpc[c] = "wait"
    /\ head_publish' = cnew[c]
    /\ popped' = popped \o cgot[c]
    /\ Again(c)
    /\ UNCHANGED <<overrun, head_reserve, tail_reserve, tail_publish, sequence, ring>>

\* Mutant of PopPublish: a skip is claimed and not given back.
PopPublish_ForgetsSkip(c) ==
    /\ cpc[c] = "wait"
    /\ head_publish = chead[c]
    /\ head_publish' = IF cgot[c] = <<>> THEN head_publish ELSE cnew[c]
    /\ popped' = popped \o cgot[c]
    /\ Again(c)
    /\ UNCHANGED <<overrun, head_reserve, tail_reserve, tail_publish, sequence, ring>>

\* The spin loop on head_publish ends.  Nobody but this consumer can store to
\* head_publish then, so its store is part of the step.  After a skip the loop
\* goes on, after a record try_pop returns true.
PopPublish(c) ==
    /\ cpc[c] = "wait"
    /\ head_publish = chead[c]
    /\ head_publish' = cnew[c]
    /\ popped' = popped \o cgot[c]
    /\ Again(c)
    /\ UNCHANGED <<overrun, head_reserve, tail_reserve, tail_publish, sequence, ring>>

\* The process of c dies: the mapping, and what it stored there, stay.
PopCrash(c) ==
    /\ c \in MortalConsumers \ cdead
    /\ cdead' = cdead \cup {c}
    /\ UNCHANGED <<cpc, localVars, overrun, popped, controlVars>>

PopStep(c) ==
    \/ PopLoadHead(c) \/ PopInspect(c) \/ PopClaim(c) \/ PopRetry(c)
    \/ PopCopy(c) \/ PopPublish(c)

Pop(c) ==
    /\ \/ c \notin cdead /\ (PopLoadTail(c) \/ PopStep(c)) /\ UNCHANGED cdead
       \/ PopCrash(c)
    /\ UNCHANGED <<producerVars, dead>>

Next ==
    \/ \E c \in Consumers : Pop(c)
    \/ \E p \in Producers : Push(p) /\ UNCHANGED consumerVars

Spec == Init /\ [][Next]_vars

(***************************************************************************)
(* Scheduling: every process that is inside a call keeps running, and a    *)
(* producer's compare_exchange_weak that could succeed time and again does *)
(* not fail spuriously for ever.                                           *)
(***************************************************************************)
ConsumerRuns(c) ==
    c \notin cdead /\ PopStep(c) /\ UNCHANGED <<cdead, producerVars, dead>>
ProducerRuns(p) == p \notin dead /\ PushStep(p) /\ UNCHANGED <<dead, consumerVars>>
ProducerReserves(p) ==
    p \notin dead /\ PushReserve(p) /\ UNCHANGED <<dead, consumerVars>>

FairSpec ==
    /\ Spec
    /\ \A c \in Consumers : WF_vars(ConsumerRuns(c))
    /\ \A p \in Producers : WF_vars(ProducerRuns(p)) /\ SF_vars(ProducerReserves(p))

-------------------------------------------------------------------------------
Records == [type : Messages \cup {NoMessage}, sequence : Cells, payload : Seq(Cells)]

\* Type invariant.
TypeOK ==
    /\ WriterTypeOK
    /\ cpc \in [Consumers -> {"load_tail", "load_head", "inspect", "cas", "copy",
                              "wait"}]
    /\ ctail \in [Consumers -> Nat]
    /\ chead \in [Consumers -> Nat]
    /\ cnew \in [Consumers -> Nat]
    /\ csize \in [Consumers -> Seq(Nat)]
    /\ cgot \in [Consumers -> Seq(Records)]
    /\ \A c \in Consumers : Len(csize[c]) <= 1 /\ Len(cgot[c]) <= 1
    /\ cdead \subseteq MortalConsumers
    /\ overrun \in BOOLEAN
    /\ popped \in Seq(Records)

\* Consumers that hold the cursors [chead, cnew) they claimed.
Claiming == {c \in Consumers : cpc[c] \in {"copy", "wait"}}

\* The claimed words that were not given back are tiled by the calls that hold
\* them, whatever was claimed.  So exactly one of the consumers that spin on
\* head_publish has its turn.
ClaimsTile ==
    /\ head_publish <= head_reserve
    /\ \A c \in Claiming : head_publish <= chead[c] /\ cnew[c] <= head_reserve
    /\ \A c, d \in Claiming : c # d => cnew[c] <= chead[d] \/ cnew[d] <= chead[c]
    /\ \A at \in head_publish..(head_reserve - 1) :
        \E c \in Claiming : chead[c] <= at /\ at < cnew[c]

\* As long as no claim overran: the cursors of the consumers stay behind those
\* of the producers, and the ring is never overfull.
CursorOrder ==
    overrun \/ /\ head_reserve <= tail_publish
               /\ tail_publish <= tail_reserve
               /\ tail_reserve <= head_publish + Capacity

\* What c claims, or is about to, is the i-th record published, whole, or the
\* padding in front of it.
Claims(c, i) ==
    IF csize[c] = <<>>
    THEN chead[c] = log[i].at /\ cnew[c] = Base(log[i])
    ELSE /\ chead[c] = Base(log[i])
         /\ csize[c] = <<log[i].size>>
         /\ cnew[c] = End(log[i])

\* As long as no claim overran: a CAS that succeeds proves that the header read
\* before it was not stale.  What is claimed is a published record, whole, or
\* the padding in front of one.
ClaimIsARecord ==
    overrun \/ \A c \in Claiming : \E i \in 1..Len(log) : Claims(c, i)

\* The cursors in order, and every claim a record: what a try_pop relies on when
\* it copies.
ClaimsAreRecords ==
    /\ TypeOK
    /\ CursorOrder
    /\ ClaimIsARecord

ClaimedWords(c) ==
    IF c \in Claiming THEN {Pos(at) : at \in chead[c]..(cnew[c] - 1)} ELSE {}

\* As long as no claim overran: nobody writes the words a consumer is copying,
\* and no two consumers copy the same ones.
CopiesUndisturbed ==
    overrun \/ \A c \in Consumers :
        /\ \A p \in Producers : ClaimedWords(c) \cap OwnedWords(p) = {}
        /\ \A d \in Consumers \ {c} : ClaimedWords(c) \cap ClaimedWords(d) = {}

\* As long as no claim overran: the consumers together pop the published
\* messages in order, each of them once and intact.
PoppedIntact ==
    overrun \/ /\ Len(popped) <= Len(log)
               /\ \A i \in 1..Len(popped) :
                    /\ popped[i].type = log[i].msg
                    /\ popped[i].payload = Payload(log[i].msg, log[i].size)
                    /\ popped[i].sequence = SequenceCell(i)

\* As long as no claim overran: no push is lost, repeated, made up or overtaken by
\* a later one of its producer, whichever consumers pop.
PushedOnce == overrun \/ EachPushOnce(popped)

\* A process that dies between its CAS and the store that publishes for it
\* (ring_writer.hpp:98, shared_ring_buffer_mpmc.cpp:125) is in the way of all who
\* come after it, for ever, with or without an overrun: tail_publish does not get
\* past the reservation of a dead producer, nor head_publish past the claim of a
\* dead consumer.
DeadKeepPlace ==
    [][/\ \A p \in dead : ppc[p] \in Holding => KeepsPlace(p)
       /\ \A c \in cdead \cap Claiming :
            /\ c \in cdead' \cap Claiming' /\ chead'[c] = chead[c]
            /\ head_publish' <= chead[c]]_vars

(***************************************************************************)
(* The inductive invariant.  The reservations and the claims tile, and the *)
(* locals are in order, in every behaviour; the rest holds as long as no   *)
(* claim overran.                                                          *)
(***************************************************************************)

\* The snapshots of a try_pop are old, a claim is never empty, and the payload
\* it copies lies inside the ring.
LocalsOf(c) ==
    /\ cpc[c] \in {"load_head", "inspect", "cas"} => ctail[c] <= tail_publish
    /\ cpc[c] \in {"inspect", "cas"} => chead[c] <= head_reserve
    /\ cpc[c] \in {"cas", "copy", "wait"} =>
        /\ chead[c] < cnew[c]
        /\ csize[c] # <<>> => RecordWords(csize[c][1]) <= Remaining(chead[c])
    /\ cpc[c] = "copy" => csize[c] # <<>>
    /\ cpc[c] # "wait" => cgot[c] = <<>>

Locals == \A c \in Consumers : LocalsOf(c)

\* head_reserve is where a record starts, or its padding, or the end of the log.
HeadIsABoundary ==
    /\ head_reserve <= tail_publish
    /\ \/ head_reserve = tail_publish
       \/ \E i \in 1..Len(log) : head_reserve \in {log[i].at, Base(log[i])}

\* What a consumer inspected is a record, if its CAS can still succeed; what
\* one claimed is, and the copy it hands out is intact.
ConsumerOf(c) ==
    /\ cpc[c] = "cas" /\ chead[c] = head_reserve /\ cnew[c] <= ctail[c] =>
        \E i \in 1..Len(log) : Claims(c, i)
    /\ c \in Claiming => \E i \in 1..Len(log) :
        /\ Claims(c, i)
        /\ cpc[c] = "wait" =>
            IF csize[c] = <<>> THEN cgot[c] = <<>>
            ELSE Len(cgot[c]) = 1 /\ Intact(cgot[c][1], i)

\* The records popped are those whose words were given back.
Given ==
    /\ Len(popped) <= Len(log)
    /\ \A i \in 1..Len(log) : i <= Len(popped) <=> End(log[i]) <= head_publish
    /\ \A i \in 1..Len(popped) : Intact(popped[i], i)

\* What holds as long as no claim overran.
Delivering ==
    /\ WriterInv
    /\ HeadIsABoundary
    /\ \A c \in Consumers : ConsumerOf(c)
    /\ Given

\* As long as no claim overran, every consumer holds a published record, and
\* the words given back are those of the records popped.
ClaimInv ==
    /\ Reservations
    /\ ClaimsTile
    /\ Locals
    /\ overrun \/ Delivering

Queue == INSTANCE Fifo WITH
    sentLog <- [i \in 1..Len(log) |-> log[i].msg],
    receivedLog <- [i \in 1..Len(popped) |-> popped[i].type],
    Bound <- Capacity \div HeaderWords

\* Up to the first overrun the ring is a bounded FIFO queue.
FifoUpToOverrun ==
    Queue!Init /\ [][overrun' \/ Queue!Next]_(Queue!fifoVars)

\* For a lone consumer, whose head_reserve nobody moves between its two loads,
\* the ring is a bounded FIFO queue without any exception.
ImplementsFifo == Queue!Spec

\* Every round of try_pop's loop ends, whatever the others do: no consumer waits
\* for ever for its turn on head_publish, even after an overrun.
PopReturns == \A c \in Consumers : (cpc[c] # "load_tail") ~> (cpc[c] = "load_tail")

\* README.md:7 calls the ring lock-free: a consumer that dies does not keep the
\* rounds of the others from ending.
SurvivorsReturn ==
    \A c \in Consumers :
        (cpc[c] # "load_tail") ~> (cpc[c] = "load_tail" \/ c \in cdead)

\* tests/test_ring_buffer.cpp:405 asserts that consumers that run concurrently
\* see every message once: no message is popped twice.
PoppedOnce ==
    \A i, j \in 1..Len(popped) :
        popped[i].type = popped[j].type /\ popped[i].type # NoMessage => i = j
===============================================================================
