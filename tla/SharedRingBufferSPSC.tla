------------------------- MODULE SharedRingBufferSPSC -------------------------
(***************************************************************************)
(* SharedRingBufferSPSC (shared_ring_buffer_spsc.cpp): variable-size       *)
(* records, one producer process and one consumer process.  Either may die *)
(* anywhere; the next producer claims the file and the next consumer opens *)
(* it.  Unlike the other rings, padding is published on its own, before    *)
(* the record, and try_push goes round its loop again.                     *)
(*                                                                         *)
(* tail_publish is written by the producer alone and head_publish by the   *)
(* consumer alone, so a load of one's own cursor is no step of its own.    *)
(* The k-th message pushed is <<k>>.                                       *)
(***************************************************************************)
EXTENDS RingCells

CONSTANTS
    Sizes,      \* payload sizes in bytes a caller may pass
    MaxPush,    \* bound: messages a producer may try to push
    MaxCrash,   \* bound: deaths of the producer, and deaths of the consumer
    U64         \* what a negative cursor difference wraps around

ASSUME BoundsAssumption == MaxPush \in Nat /\ MaxCrash \in Nat /\ Sizes \subseteq Nat

VARIABLES
    \* the file
    exists, head_reserve, head_publish, tail_reserve, tail_publish, sequence, ring,
    \* the producer: next statement, locals `size`, `head` and the advanced
    \* `tail`, the message, the producer's deaths
    ppc, psize, phead, pnew, pmsg, pdeaths,
    \* the consumer: next statement, locals `tail` and the advanced `head`, what
    \* was copied to the caller (one record or none), the consumer's deaths
    cpc, ctail, cnew, cgot, cdeaths,
    \* history: records published (message, size, sequence number, cursor) and popped
    log, popped

fileVars == <<exists, head_reserve, head_publish, tail_reserve, tail_publish,
              sequence, ring>>
producerVars == <<ppc, psize, phead, pnew, pmsg, pdeaths, log>>
consumerVars == <<cpc, ctail, cnew, cgot, cdeaths, popped>>
vars == <<fileVars, producerVars, consumerVars>>

Messages == {<<k>> : k \in 1..MaxPush}
Current == <<pmsg>>

Init ==
    /\ exists = FALSE
    /\ head_reserve = 0 /\ head_publish = 0
    /\ tail_reserve = 0 /\ tail_publish = 0
    /\ sequence = 0
    /\ ring = [i \in Words |-> ZeroCell]
    /\ ppc = "down" /\ psize = 0 /\ phead = 0 /\ pnew = 0 /\ pmsg = 1 /\ pdeaths = 0
    /\ cpc = "down" /\ ctail = 0 /\ cnew = 0 /\ cgot = <<>> /\ cdeaths = 0
    /\ log = <<>> /\ popped = <<>>

-------------------------------------------------------------------------------
\* Mutant of Claim: the counters are reset, as SharedLatest::claim does.
Claim_ResetsSequence ==
    /\ ppc = "down"
    /\ exists' = TRUE
    /\ tail_reserve' = tail_publish
    /\ sequence' = 0
    /\ ppc' = "idle"
    /\ UNCHANGED <<head_reserve, head_publish, tail_publish, ring,
                   psize, phead, pnew, pmsg, pdeaths, log, consumerVars>>

\* claim: creates the file, or resumes and syncs tail_reserve to tail_publish
\* (which a fresh file has equal anyway).
Claim ==
    /\ ppc = "down"
    /\ exists' = TRUE
    /\ tail_reserve' = tail_publish
    /\ ppc' = "idle"
    /\ UNCHANGED <<head_reserve, head_publish, tail_publish, sequence, ring,
                   psize, phead, pnew, pmsg, pdeaths, log, consumerVars>>

\* A call that gets past the early returns on its arguments.
PushCall(size) ==
    /\ ppc = "idle"
    /\ pmsg <= MaxPush
    /\ RecordWords(size) <= Capacity
    /\ psize' = size
    /\ ppc' = "load_head"
    /\ UNCHANGED <<phead, pnew, pmsg, pdeaths, log, fileVars, consumerVars>>

PushLoadHead ==
    /\ ppc = "load_head"
    /\ phead' = head_publish
    /\ ppc' = "decide"
    /\ UNCHANGED <<psize, pnew, pmsg, pdeaths, log, fileVars, consumerVars>>

Used == Sub64(tail_publish, phead, U64)
Pad == Padding(tail_publish, RecordWords(psize))

\* Mutant of Refused: off by one in the comparison with the capacity.
Refused_OneTooMany ==
    Used > Capacity \/ Used + Pad + RecordWords(psize) > Capacity + 1

\* The three comparisons with the capacity that make try_push return false.  In
\* front of a tail too short for a header only the skip has to fit.
Refused ==
    \/ Used > Capacity
    \/ IF Remaining(tail_publish) < HeaderWords
       THEN Used + Remaining(tail_publish) > Capacity
       ELSE Used + Pad + RecordWords(psize) > Capacity

PushReject ==
    /\ ppc = "decide"
    /\ Refused
    /\ ppc' = "idle"
    /\ UNCHANGED <<psize, phead, pnew, pmsg, pdeaths, log, fileVars, consumerVars>>

\* The record goes to the start of the ring: a wrap record is written if there
\* is room for one.
PushPad ==
    /\ ppc = "decide"
    /\ ~ Refused
    /\ Pad > 0
    /\ ring' = IF Pad < HeaderWords THEN ring
               ELSE Overwrite(ring, Pos(tail_publish),
                              <<HeaderCell(0, NoMessage, TRUE), SequenceCell(0)>>)
    /\ pnew' = tail_publish + Pad
    /\ ppc' = "reserve_pad"
    /\ UNCHANGED <<exists, head_reserve, head_publish, tail_reserve, tail_publish,
                   sequence, psize, phead, pmsg, pdeaths, log, consumerVars>>

PushWriteHeader ==
    /\ ppc = "decide"
    /\ ~ Refused
    /\ Pad = 0
    /\ ring' = Overwrite(ring, Pos(tail_publish),
                         <<HeaderCell(psize, Current, FALSE), SequenceCell(0)>>)
    /\ ppc' = "payload"
    /\ UNCHANGED <<exists, head_reserve, head_publish, tail_reserve, tail_publish,
                   sequence, psize, phead, pnew, pmsg, pdeaths, log, consumerVars>>

PushWritePayload ==
    /\ ppc = "payload"
    /\ ring' = Overwrite(ring, Pos(tail_publish) + HeaderWords, Payload(Current, psize))
    /\ ppc' = "number"
    /\ UNCHANGED <<exists, head_reserve, head_publish, tail_reserve, tail_publish,
                   sequence, psize, phead, pnew, pmsg, pdeaths, log, consumerVars>>

\* fetch_add on `sequence`, and the record's number.
PushNumber ==
    /\ ppc = "number"
    /\ sequence' = sequence + 1
    /\ ring' = Overwrite(ring, Pos(tail_publish) + 1, <<SequenceCell(sequence + 1)>>)
    /\ pnew' = tail_publish + RecordWords(psize)
    /\ ppc' = "reserve"
    /\ UNCHANGED <<exists, head_reserve, head_publish, tail_reserve, tail_publish,
                   psize, phead, pmsg, pdeaths, log, consumerVars>>

PushStoreReserve ==
    /\ ppc \in {"reserve_pad", "reserve"}
    /\ tail_reserve' = pnew
    /\ ppc' = IF ppc = "reserve_pad" THEN "publish_pad" ELSE "publish"
    /\ UNCHANGED <<exists, head_reserve, head_publish, tail_publish, sequence, ring,
                   psize, phead, pnew, pmsg, pdeaths, log, consumerVars>>

\* Padding alone is published and the loop goes round again.
PushPublishPad ==
    /\ ppc = "publish_pad"
    /\ tail_publish' = pnew
    /\ ppc' = "load_head"
    /\ UNCHANGED <<exists, head_reserve, head_publish, tail_reserve, sequence, ring,
                   psize, phead, pnew, pmsg, pdeaths, log, consumerVars>>

\* The record try_push is about to publish.
Published == [msg |-> Current, size |-> psize, seq |-> sequence, at |-> tail_publish]

\* The record is published and try_push returns true.
PushPublish ==
    /\ ppc = "publish"
    /\ tail_publish' = pnew
    /\ log' = Append(log, Published)
    /\ pmsg' = pmsg + 1
    /\ ppc' = "idle"
    /\ UNCHANGED <<exists, head_reserve, head_publish, tail_reserve, sequence, ring,
                   psize, phead, pnew, pdeaths, consumerVars>>

\* The producer's process dies; the message of an unfinished call is not pushed
\* again by the next one.
ProducerDies ==
    /\ ppc # "down"
    /\ pdeaths < MaxCrash
    /\ pdeaths' = pdeaths + 1
    /\ ppc' = "down"
    /\ pmsg' = IF ppc = "idle" THEN pmsg ELSE pmsg + 1
    /\ UNCHANGED <<psize, phead, pnew, log, fileVars, consumerVars>>

Producer ==
    \/ Claim \/ \E size \in Sizes : PushCall(size)
    \/ PushLoadHead \/ PushReject \/ PushPad \/ PushWriteHeader \/ PushWritePayload
    \/ PushNumber \/ PushStoreReserve \/ PushPublishPad \/ PushPublish

-------------------------------------------------------------------------------
\* open; it throws while there is no file.
Open ==
    /\ cpc = "down"
    /\ exists
    /\ cpc' = "load_tail"
    /\ UNCHANGED <<ctail, cnew, cgot, cdeaths, popped, fileVars, producerVars>>

\* Mutant of PopLoadTail: the reserved instead of the published tail is read.
PopLoadTail_Reserved ==
    /\ cpc = "load_tail"
    /\ ctail' = tail_reserve
    /\ cpc' = IF head_publish = tail_reserve THEN "load_tail" ELSE "inspect"
    /\ UNCHANGED <<cnew, cgot, cdeaths, popped, fileVars, producerVars>>

\* try_pop starts, or goes round its loop again.
PopLoadTail ==
    /\ cpc = "load_tail"
    /\ ctail' = tail_publish
    /\ cpc' = IF head_publish = tail_publish THEN "load_tail" ELSE "inspect"
    /\ UNCHANGED <<cnew, cgot, cdeaths, popped, fileVars, producerVars>>

\* The word where the consumer looks, read as the first word of a RecordHeader:
\* it is one (HeadIsARecord), or memory that was never written.
Header == LET cell == ring[Pos(head_publish)]
          IN  IF cell.kind = "header" THEN cell ELSE HeaderCell(0, NoMessage, FALSE)

Skippable == Remaining(head_publish) < HeaderWords \/ Header.wrap

\* Fewer bytes than a header before the end of the ring, or a wrap record.
PopSkip ==
    /\ cpc = "inspect"
    /\ Skippable
    /\ cnew' = head_publish + Remaining(head_publish)
    /\ cgot' = <<>>
    /\ cpc' = "reserve"
    /\ UNCHANGED <<ctail, cdeaths, popped, fileVars, producerVars>>

\* Mutant of Malformed: off by one, the newest record is taken for incomplete.
Malformed_Newest ==
    \/ RecordWords(Header.size) > Remaining(head_publish)
    \/ Sub64(ctail, head_publish, U64) <= RecordWords(Header.size)

\* The record reaches past the end of the ring, or past what is published.
Malformed ==
    \/ RecordWords(Header.size) > Remaining(head_publish)
    \/ Sub64(ctail, head_publish, U64) < RecordWords(Header.size)

\* A malformed record makes try_pop return false; any other one is copied.
PopRead ==
    /\ cpc = "inspect"
    /\ ~ Skippable
    /\ IF Malformed
       THEN cpc' = "load_tail" /\ UNCHANGED <<cnew, cgot>>
       ELSE LET at == Pos(head_publish)
            IN  /\ cpc' = "reserve"
                /\ cgot' = <<[type |-> Header.type, sequence |-> ring[at + 1],
                              payload |-> [i \in 1..PayloadWords(Header.size) |->
                                               ring[at + HeaderWords + i - 1]]]>>
                /\ cnew' = head_publish + RecordWords(Header.size)
    /\ UNCHANGED <<ctail, cdeaths, popped, fileVars, producerVars>>

PopStoreReserve ==
    /\ cpc = "reserve"
    /\ head_reserve' = cnew
    /\ cpc' = "publish"
    /\ UNCHANGED <<exists, head_publish, tail_reserve, tail_publish, sequence, ring,
                   ctail, cnew, cgot, cdeaths, popped, producerVars>>

\* The store to head_publish gives the words back; then the loop goes on, or
\* try_pop returns true.
PopStorePublish ==
    /\ cpc = "publish"
    /\ head_publish' = cnew
    /\ popped' = popped \o cgot
    /\ cpc' = "load_tail"
    /\ UNCHANGED <<exists, head_reserve, tail_reserve, tail_publish, sequence, ring,
                   ctail, cnew, cgot, cdeaths, producerVars>>

\* The consumer's process dies; a record it had not given back is popped again.
ConsumerDies ==
    /\ cpc # "down"
    /\ cdeaths < MaxCrash
    /\ cdeaths' = cdeaths + 1
    /\ cpc' = "down"
    /\ UNCHANGED <<ctail, cnew, cgot, popped, fileVars, producerVars>>

Consumer ==
    Open \/ PopLoadTail \/ PopSkip \/ PopRead \/ PopStoreReserve \/ PopStorePublish

Next == Producer \/ ProducerDies \/ Consumer \/ ConsumerDies

Spec == Init /\ [][Next]_vars

\* Both processes are scheduled, and restarted when they died; the producer's
\* caller repeats a try_push that returned false.
FairSpec == Spec /\ WF_vars(Producer) /\ WF_vars(Consumer)

-------------------------------------------------------------------------------
Cells ==
    [kind : {"zero"}]
    \cup [kind : {"header"}, size : Nat, type : Messages \cup {NoMessage},
          wrap : BOOLEAN]
    \cup [kind : {"sequence"}, value : Nat]
    \cup [kind : {"payload"}, msg : Messages, index : Nat]

Records == [type : Messages \cup {NoMessage}, sequence : Cells, payload : Seq(Cells)]

\* Type invariant.
TypeOK ==
    /\ exists \in BOOLEAN
    /\ {head_reserve, head_publish, tail_reserve, tail_publish, sequence} \subseteq Nat
    /\ ring \in [Words -> Cells]
    /\ ppc \in {"down", "idle", "load_head", "decide", "payload", "number",
                "reserve_pad", "reserve", "publish_pad", "publish"}
    /\ psize \in Sizes \cup {0} /\ RecordWords(psize) <= Capacity
    /\ phead \in Nat /\ pnew \in Nat
    /\ pmsg \in 1..(MaxPush + 1) /\ pdeaths \in 0..MaxCrash
    /\ cpc \in {"down", "load_tail", "inspect", "reserve", "publish"}
    /\ ctail \in Nat /\ cnew \in Nat /\ cdeaths \in 0..MaxCrash
    /\ cgot \in Seq(Records) /\ Len(cgot) <= 1
    /\ popped \in Seq(Records)
    /\ log \in Seq([msg : Messages, size : Sizes, seq : Nat, at : Nat])

\* What is read was published, and at most Capacity words are published and not
\* read: the capacity tests of try_push against a head_publish that is stale by
\* then, with the padding published on its own.
CursorOrder ==
    /\ head_publish <= tail_publish
    /\ tail_publish <= head_publish + Capacity

\* The reserve cursors, which only a crash between two stores can leave behind
\* or ahead: tail_reserve is at tail_publish or at the end of what the producer
\* is publishing, and a claim brings it back ("keeps the control block
\* consistent", shared_ring_buffer_spsc.cpp:48).
ReserveFollows ==
    /\ ppc \notin {"down", "publish_pad", "publish"} => tail_reserve = tail_publish
    /\ ppc \in {"publish_pad", "publish"} => tail_reserve = pnew
    /\ cpc \in {"load_tail", "inspect", "reserve"} /\ cdeaths = 0 =>
           head_reserve = head_publish

\* Words the producer is writing, and words the consumer may still read.
WrittenWords ==
    IF ppc \in {"payload", "number", "reserve", "publish"}
    THEN {Pos(c) : c \in tail_publish..(tail_publish + RecordWords(psize) - 1)}
    ELSE {}
UnreadWords == {Pos(c) : c \in head_publish..(tail_publish - 1)}

\* No data race on the ring: the words of the record being written are none of
\* those the consumer may be reading, and they do not run past the mapping.
RegionsDisjoint ==
    /\ WrittenWords \cap UnreadWords = {}
    /\ WrittenWords # {} => Pos(tail_publish) + RecordWords(psize) <= Capacity

\* What the consumer takes for a RecordHeader is the header of the next
\* published message, wherever producers died and whatever they left beyond
\* tail_publish: the two `return false` on a malformed record are never taken.
HeadIsARecord ==
    cpc = "inspect" /\ ~ Skippable =>
        /\ ring[Pos(head_publish)].kind = "header"
        /\ ~ Malformed
        /\ Header.type = log[Len(popped) + 1].msg

\* try_pop returns every message intact, across deaths of either side: the i-th
\* record popped has the type, payload and sequence number of the i-th one
\* published.
PoppedIntact ==
    /\ Len(popped) <= Len(log)
    /\ \A i \in 1..Len(popped) :
        /\ popped[i].type = log[i].msg
        /\ popped[i].payload = Payload(log[i].msg, log[i].size)
        /\ popped[i].sequence = SequenceCell(log[i].seq)

\* What the ring keeps up wherever either process dies: the order of the cursors,
\* the words of a record being written apart from those being read, and every
\* record that try_pop finds and returns the one that was published.
RingSafe ==
    /\ TypeOK
    /\ CursorOrder
    /\ ReserveFollows
    /\ RegionsDisjoint
    /\ HeadIsARecord
    /\ PoppedIntact

\* Sequence numbers "for loss detection" (README.md:10): they increase with every
\* record, and every number that is missing is a record a dead producer left
\* unpublished, never more than one for each death.
GapsAreDeaths ==
    \A i \in 1..Len(log) :
        /\ i > 1 => log[i - 1].seq < log[i].seq
        /\ log[i].seq - i \in 0..pdeaths

-------------------------------------------------------------------------------
(* The inductive invariant: what the words between the cursors hold. *)

Word(cursor) == ring[Pos(cursor)]
WrapCell == HeaderCell(0, NoMessage, TRUE)

\* Where the k-th published record ends, and where the next one starts, or will
\* start unless padding is published first.
End(r) == r.at + RecordWords(r.size)
Edge(k) == IF k = 0 THEN 0 ELSE End(log[k])
Front(k) == IF k < Len(log) THEN log[k + 1].at ELSE tail_publish

\* Between two records there is nothing, or padding up to the end of the ring.
Layout ==
    /\ \A i \in 1..Len(log) :
        /\ Pos(log[i].at) + RecordWords(log[i].size) <= Capacity
        /\ End(log[i]) <= tail_publish
        /\ \A j \in (i + 1)..Len(log) :
            /\ End(log[i]) <= log[j].at
            /\ log[i].at + HeaderWords * (j - i) <= log[j].at
    /\ \A k \in 0..Len(log) :
        Front(k) # Edge(k) =>
            Pos(Edge(k)) # 0 /\ Front(k) = Edge(k) + Remaining(Edge(k))

\* A record in the ring, as try_pop has to find it.
Stored(r) ==
    /\ Word(r.at) = HeaderCell(r.size, r.msg, FALSE)
    /\ Word(r.at + 1) = SequenceCell(r.seq)
    /\ \A j \in 1..PayloadWords(r.size) : Word(r.at + 1 + j) = PayloadCell(r.msg, j)

\* Whatever is published and not given back is still in the ring, and padding
\* that leaves room for a header starts with a wrap record.
Unread ==
    /\ \A i \in (Len(popped) + 1)..Len(log) : Stored(log[i])
    /\ \A k \in Len(popped)..Len(log) :
        /\ Front(k) # Edge(k)
        /\ Remaining(Edge(k)) >= HeaderWords
        /\ head_publish <= Edge(k)
        => Word(Edge(k)) = WrapCell

\* A record copied out of the ring is the i-th one published.
Intact(got, i) ==
    /\ got.type = log[i].msg
    /\ got.payload = Payload(log[i].msg, log[i].size)
    /\ got.sequence = SequenceCell(log[i].seq)

\* The consumer stands at a record or at the padding in front of it, and what it
\* does next takes it over exactly one of them.
Reading ==
    LET k == Len(popped) IN
    /\ k <= Len(log)
    /\ \A i \in 1..k : Intact(popped[i], i)
    /\ head_publish \in {Edge(k), Front(k)}
    /\ cpc = "inspect" =>
        /\ ctail <= tail_publish
        /\ head_publish # Front(k) \/ (k < Len(log) /\ End(log[k + 1]) <= ctail)
    /\ cpc \in {"reserve", "publish"} =>
        \/ cgot = <<>> /\ head_publish # Front(k) /\ cnew = Front(k)
        \/ /\ Len(cgot) = 1 /\ k < Len(log)
           /\ head_publish = log[k + 1].at /\ cnew = End(log[k + 1])
           /\ Intact(cgot[1], k + 1)
    /\ cdeaths = 0 => head_reserve = IF cpc = "publish" THEN cnew ELSE head_publish

\* What the producer has written beyond tail_publish, in words that the head it
\* loaded leaves free.
Writing ==
    /\ ppc \notin {"down", "idle"} => psize \in Sizes /\ pmsg <= MaxPush
    /\ ppc \notin {"down", "idle", "load_head"} => phead <= head_publish
    /\ ppc \notin {"down", "publish_pad", "publish"} => tail_reserve = tail_publish
    /\ ppc \in {"publish_pad", "publish"} => tail_reserve = pnew
    /\ ppc \in {"reserve_pad", "publish_pad"} =>
        /\ Pos(tail_publish) # 0
        /\ pnew = tail_publish + Remaining(tail_publish)
        /\ pnew <= phead + Capacity
        /\ Remaining(tail_publish) >= HeaderWords => Word(tail_publish) = WrapCell
    /\ ppc \in {"payload", "number", "reserve", "publish"} =>
        /\ Pos(tail_publish) + RecordWords(psize) <= Capacity
        /\ tail_publish + RecordWords(psize) <= phead + Capacity
        /\ Word(tail_publish) = HeaderCell(psize, Current, FALSE)
    /\ ppc \in {"number", "reserve", "publish"} =>
        \A j \in 1..PayloadWords(psize) :
            Word(tail_publish + 1 + j) = PayloadCell(Current, j)
    /\ ppc \in {"reserve", "publish"} =>
        /\ Word(tail_publish + 1) = SequenceCell(sequence)
        /\ pnew = tail_publish + RecordWords(psize)

\* A number that is neither in the log nor on its way there was lost in a death.
Numbers ==
    LET taken == IF ppc \in {"reserve", "publish"} THEN sequence - 1 ELSE sequence
    IN  /\ taken - Len(log) \in 0..pdeaths
        /\ Len(log) > 0 => log[Len(log)].seq <= taken
        /\ GapsAreDeaths

RingInv ==
    /\ TypeOK
    /\ CursorOrder
    /\ Layout
    /\ Unread
    /\ Reading
    /\ Writing
    /\ Numbers

-------------------------------------------------------------------------------
\* The ring is a bounded FIFO queue, deaths and restarts included.
Queue == INSTANCE Fifo WITH
    sentLog <- [i \in 1..Len(log) |-> log[i].msg],
    receivedLog <- [i \in 1..Len(popped) |-> popped[i].type],
    Bound <- Capacity \div HeaderWords

ImplementsFifo == Queue!Spec

\* Every published message is returned by try_pop.
PublishedIsPopped == \A n \in 1..MaxPush : (Len(log) = n) ~> (Len(popped) >= n)

\* The record and the wrap record before it are longer than the ring, so
\* try_push refuses this call even when every record has been popped.
OutgrowsRing ==
    /\ ppc \in {"load_head", "decide"}
    /\ Remaining(tail_publish) >= HeaderWords
    /\ Pad + RecordWords(psize) > Capacity

\* A producer whose caller repeats a rejected push gets every message in, or
\* dies with it: the space the consumer frees is found across the end of the
\* ring as well.  The one exception (shared_ring_buffer_spsc.cpp:94-98): from
\* some point on it calls only with records that outgrow the ring.
RetriesSucceed ==
    <>(pmsg = MaxPush + 1) \/ <>[](ppc = "idle" \/ OutgrowsRing)

\* "Returns false if the ring buffer is full" (ipc_adapter.hpp): try_push does
\* not refuse a message that fits the ring when the ring is empty.
EmptyIsNotFull ==
    ppc = "decide" /\ Refused => phead # tail_publish
===============================================================================
