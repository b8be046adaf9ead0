---------------------- MODULE SharedRingBufferSPSCProofs ----------------------
(***************************************************************************)
(* Proofs about the SPSC ring of variable-size records, for any capacity,  *)
(* any payload sizes, any number of messages and any number of deaths of   *)
(* either process.                                                         *)
(***************************************************************************)
EXTENDS SharedRingBufferSPSC, RingCellLemmas

\* Time for the large leaves.
USE SMTT(30), ZenonT(30)

-------------------------------------------------------------------------------
(* The types of the state. *)

\* The words try_push writes are words of the ring.
LEMMA CellTypes ==
    ASSUME NEW size \in Nat, NEW m \in Messages, NEW n \in Nat
    PROVE  /\ <<SequenceCell(n)>> \in Seq(Cells)
           /\ <<HeaderCell(size, m, FALSE), SequenceCell(n)>> \in Seq(Cells)
           /\ <<HeaderCell(0, NoMessage, TRUE), SequenceCell(n)>> \in Seq(Cells)
           /\ Payload(m, size) \in Seq(Cells)
  <1>1. SequenceCell(n) \in Cells
    BY Zenon DEF SequenceCell, Cells
  <1>2. HeaderCell(size, m, FALSE) \in Cells /\ HeaderCell(0, NoMessage, TRUE) \in Cells
    BY Zenon DEF HeaderCell, Cells
  <1>3. \A i \in 1..PayloadWords(size) : PayloadCell(m, i) \in Cells
    BY RecordGeometry DEF PayloadCell, Cells
  <1>4. PayloadWords(size) \in Nat
    BY Zenon, RecordGeometry
  <1>5. Payload(m, size) \in Seq(Cells)
    BY <1>3, <1>4 DEF Payload
  <1>6. <<SequenceCell(n)>> \in Seq(Cells)
    BY Zenon, <1>1, ShortSeqs
  <1>7. /\ <<HeaderCell(size, m, FALSE), SequenceCell(n)>> \in Seq(Cells)
        /\ <<HeaderCell(0, NoMessage, TRUE), SequenceCell(n)>> \in Seq(Cells)
    BY Zenon, <1>1, <1>2, ShortSeqs
  <1> QED BY Zenon, <1>5, <1>6, <1>7

\* A record without payload is a header, and fits the ring.
LEMMA EmptyFits == RecordWords(0) = 2 /\ RecordWords(0) <= Capacity
  BY CapacityAssumption DEF RecordWords, AlignUp, HeaderWords, RecordHeaderBytes, kAlignment

\* A fresh ring has its types.
LEMMA TypeInit == Init => TypeOK
  <1> SUFFICES ASSUME Init PROVE TypeOK
    BY Zenon
  <1>1. ZeroCell \in Cells
    BY Zenon DEF ZeroCell, Cells
  <1>2. ring \in [Words -> Cells]
    BY Zenon, <1>1 DEF Init
  <1>3. pmsg \in 1..(MaxPush + 1) /\ pdeaths \in 0..MaxCrash /\ cdeaths \in 0..MaxCrash
    BY BoundsAssumption DEF Init
  <1>4. psize \in Sizes \cup {0} /\ RecordWords(psize) <= Capacity
    BY Zenon, EmptyFits DEF Init
  <1>5. log \in Seq([msg : Messages, size : Sizes, seq : Nat, at : Nat]) /\ Len(cgot) <= 1
    BY DEF Init
  <1>6. popped \in Seq(Records) /\ cgot \in Seq(Records)
    BY DEF Init
  <1>7. /\ {head_reserve, head_publish, tail_reserve, tail_publish, sequence} \subseteq Nat
        /\ phead \in Nat /\ pnew \in Nat /\ ctail \in Nat /\ cnew \in Nat
    BY DEF Init
  <1> QED BY Zenon, <1>2, <1>3, <1>4, <1>5, <1>6, <1>7 DEF Init, TypeOK

\* The producer's locals in the words of its record.
LEMMA ProducerType ==
    ASSUME TypeOK
    PROVE  /\ tail_publish \in Nat /\ head_publish \in Nat /\ phead \in Nat /\ pnew \in Nat
           /\ tail_reserve \in Nat /\ head_reserve \in Nat /\ sequence \in Nat
           /\ psize \in Nat
           /\ RecordWords(psize) \in 2..Capacity
           /\ PayloadWords(psize) \in Nat
           /\ PayloadWords(psize) = RecordWords(psize) - 2
           /\ Pos(tail_publish) \in 0..(Capacity - 1)
           /\ Remaining(tail_publish) \in 1..Capacity
           /\ Remaining(tail_publish) = Capacity - Pos(tail_publish)
           /\ HeaderWords = 2
  <1>1. /\ tail_publish \in Nat /\ head_publish \in Nat /\ phead \in Nat /\ pnew \in Nat
        /\ tail_reserve \in Nat /\ head_reserve \in Nat /\ sequence \in Nat
        /\ psize \in Nat /\ RecordWords(psize) <= Capacity
    BY BoundsAssumption DEF TypeOK
  <1>2. /\ HeaderWords = 2 /\ RecordWords(psize) \in Nat /\ RecordWords(psize) >= HeaderWords
        /\ PayloadWords(psize) \in Nat
    BY Zenon, <1>1, RecordGeometry
  <1>3. PayloadWords(psize) = RecordWords(psize) - 2
    BY Zenon, <1>2 DEF PayloadWords
  <1>4. RecordWords(psize) \in 2..Capacity
    BY <1>1, <1>2, CapacityType
  <1>5. /\ Pos(tail_publish) \in 0..(Capacity - 1)
        /\ Remaining(tail_publish) \in 1..Capacity
        /\ Remaining(tail_publish) = Capacity - Pos(tail_publish)
    BY Zenon, <1>1, PosQuotient, PosRange DEF Remaining
  <1> QED BY Zenon, <1>1, <1>2, <1>3, <1>4, <1>5

\* The message of a call under way is one of those modelled.
LEMMA CurrentType ==
    ASSUME TypeOK, Writing, ppc \notin {"down", "idle"}
    PROVE  Current \in Messages /\ psize \in Sizes /\ pmsg + 1 \in 1..(MaxPush + 1)
  <1>1. pmsg \in 1..(MaxPush + 1) /\ pmsg <= MaxPush /\ psize \in Sizes
    BY Zenon DEF TypeOK, Writing
  <1> QED BY <1>1, BoundsAssumption DEF Current, Messages

\* What the consumer reads as a header has a payload size, a type and flags.
LEMMA HeaderType ==
    ASSUME TypeOK
    PROVE  /\ Header.size \in Nat
           /\ Header.type \in Messages \cup {NoMessage}
           /\ Header.wrap \in BOOLEAN
  <1>1. ring[Pos(head_publish)] \in Cells
    BY Zenon, ProducerType, PosRange DEF TypeOK
  <1>2. CASE ring[Pos(head_publish)].kind = "header"
    BY Zenon, <1>1, <1>2 DEF Header, Cells
  <1>3. CASE ring[Pos(head_publish)].kind # "header"
    BY Zenon, <1>3 DEF Header, HeaderCell
  <1> QED BY Zenon, <1>2, <1>3

\* A record try_pop copies lies inside the ring.
LEMMA TypePopRead ==
    ASSUME TypeOK, PopRead
    PROVE  TypeOK'
  <1> DEFINE at == Pos(head_publish)
             words == RecordWords(Header.size)
             payload == [i \in 1..PayloadWords(Header.size) |-> ring[at + HeaderWords + i - 1]]
             record == [type |-> Header.type, sequence |-> ring[at + 1], payload |-> payload]
  <1>1. /\ head_publish \in Nat /\ ring \in [Words -> Cells]
        /\ at \in 0..(Capacity - 1) /\ Remaining(head_publish) = Capacity - at
    BY Zenon, ProducerType, PosQuotient DEF TypeOK, Remaining
  <1>2. Header.size \in Nat /\ Header.type \in Messages \cup {NoMessage}
    BY Zenon, HeaderType
  <1>3. CASE Malformed
    BY Zenon, <1>3 DEF PopRead, TypeOK, fileVars, producerVars
  <1>4. CASE ~ Malformed
    <2>1. /\ words \in Nat /\ words >= 2 /\ HeaderWords = 2
          /\ PayloadWords(Header.size) \in Nat /\ PayloadWords(Header.size) = words - 2
      BY Zenon, <1>2, RecordGeometry DEF PayloadWords
    <2>2. ~ (words > Remaining(head_publish))
      BY Zenon, <1>4 DEF Malformed
    <2> HIDE DEF words, at
    <2>3. /\ at + 1 \in Words
          /\ \A i \in 1..PayloadWords(Header.size) : at + HeaderWords + i - 1 \in Words
      BY <1>1, <2>1, <2>2, CapacityType DEF Words
    <2>4. payload \in Seq(Cells) /\ ring[at + 1] \in Cells
      BY <1>1, <2>1, <2>3
    <2> HIDE DEF payload
    <2>5. record \in Records
      BY Zenon, <1>2, <2>4 DEF Records
    <2>6. cnew' = head_publish + words /\ cgot' = <<record>> /\ cpc' = "reserve"
      BY Zenon, <1>4 DEF PopRead, record, payload, at, words
    <2> HIDE DEF record
    <2>7. <<record>> \in Seq(Records) /\ Len(<<record>>) = 1
      BY <2>5
    <2>8. cnew' \in Nat
      BY <1>1, <2>1, <2>6
    <2> QED BY <2>6, <2>7, <2>8 DEF PopRead, TypeOK, fileVars, producerVars
  <1> QED BY Zenon, <1>3, <1>4

\* The stores of try_push are words of the ring, at positions of the ring.
LEMMA TypeStores ==
    ASSUME TypeOK, Writing, PushPad \/ PushWriteHeader \/ PushWritePayload \/ PushNumber
    PROVE  ring' \in [Words -> Cells]
  <1>1. /\ Pos(tail_publish) \in Nat /\ Pos(tail_publish) + 1 \in Nat
        /\ Pos(tail_publish) + HeaderWords \in Nat
        /\ psize \in Nat /\ 0 \in Nat /\ sequence + 1 \in Nat
    BY ProducerType, CapacityType
  <1>2. Current \in Messages
    BY Zenon, CurrentType DEF PushPad, PushWriteHeader, PushWritePayload, PushNumber
  <1>3. ring \in [Words -> Cells]
    BY Zenon DEF TypeOK
  <1>4. /\ <<SequenceCell(sequence + 1)>> \in Seq(Cells)
        /\ <<HeaderCell(psize, Current, FALSE), SequenceCell(0)>> \in Seq(Cells)
        /\ <<HeaderCell(0, NoMessage, TRUE), SequenceCell(0)>> \in Seq(Cells)
        /\ Payload(Current, psize) \in Seq(Cells)
    BY Zenon, <1>1, <1>2, CellTypes
  <1>5. CASE PushPad
    BY Zenon, <1>1, <1>3, <1>4, <1>5, OverwriteType DEF PushPad
  <1>6. CASE PushWriteHeader
    BY Zenon, <1>1, <1>3, <1>4, <1>6, OverwriteType DEF PushWriteHeader
  <1>7. CASE PushWritePayload
    BY Zenon, <1>1, <1>3, <1>4, <1>7, OverwriteType DEF PushWritePayload
  <1>8. CASE PushNumber
    BY Zenon, <1>1, <1>3, <1>4, <1>8, OverwriteType DEF PushNumber
  <1> QED BY Zenon, <1>5, <1>6, <1>7, <1>8

\* Every step of the program preserves the types.
LEMMA TypeStep ==
    ASSUME TypeOK, Writing, [Next]_vars
    PROVE  TypeOK'
  <1> USE DEF fileVars, producerVars, consumerVars
  <1>1. CASE Claim
    BY Zenon, <1>1 DEF Claim, TypeOK
  <1>2. ASSUME NEW size \in Sizes, PushCall(size) PROVE TypeOK'
    BY Zenon, <1>2 DEF PushCall, TypeOK
  <1>3. CASE PushLoadHead
    BY Zenon, <1>3 DEF PushLoadHead, TypeOK
  <1>4. CASE PushReject
    BY Zenon, <1>4 DEF PushReject, TypeOK
  <1>5. CASE PushPad
    <2>1. ring' \in [Words -> Cells]
      BY Zenon, <1>5, TypeStores
    <2>2. tail_publish + Pad \in Nat
      <3>1. tail_publish \in Nat /\ RecordWords(psize) \in Nat
        BY ProducerType, CapacityType
      <3>2. Pad \in Nat
        BY Zenon, <3>1, PaddingType DEF Pad
      <3> QED BY <3>1, <3>2
    <2> QED BY Zenon, <1>5, <2>1, <2>2 DEF PushPad, TypeOK
  <1>6. CASE PushWriteHeader
    <2>1. ring' \in [Words -> Cells]
      BY Zenon, <1>6, TypeStores
    <2> QED BY Zenon, <1>6, <2>1 DEF PushWriteHeader, TypeOK
  <1>7. CASE PushWritePayload
    <2>1. ring' \in [Words -> Cells]
      BY Zenon, <1>7, TypeStores
    <2> QED BY Zenon, <1>7, <2>1 DEF PushWritePayload, TypeOK
  <1>8. CASE PushNumber
    <2>1. ring' \in [Words -> Cells]
      BY Zenon, <1>8, TypeStores
    <2>2. tail_publish + RecordWords(psize) \in Nat /\ sequence + 1 \in Nat
      BY ProducerType, CapacityType
    <2> QED BY Zenon, <1>8, <2>1, <2>2 DEF PushNumber, TypeOK
  <1>9. CASE PushStoreReserve
    BY Zenon, <1>9 DEF PushStoreReserve, TypeOK
  <1>10. CASE PushPublishPad
    BY Zenon, <1>10 DEF PushPublishPad, TypeOK
  <1>11. CASE PushPublish
    <2>1. Current \in Messages /\ psize \in Sizes /\ pmsg + 1 \in 1..(MaxPush + 1)
      BY Zenon, <1>11, CurrentType DEF PushPublish
    <2>2. Published \in [msg : Messages, size : Sizes, seq : Nat, at : Nat]
      BY Zenon, <2>1, ProducerType DEF Published
    <2>3. log' \in Seq([msg : Messages, size : Sizes, seq : Nat, at : Nat])
      BY <1>11, <2>2 DEF PushPublish, TypeOK
    <2> QED BY Zenon, <1>11, <2>1, <2>3 DEF PushPublish, TypeOK
  <1>12. CASE ProducerDies
    <2>1. pmsg' \in 1..(MaxPush + 1)
      BY Zenon, <1>12, CurrentType DEF ProducerDies, TypeOK
    <2>2. pdeaths' \in 0..MaxCrash
      BY <1>12, BoundsAssumption DEF ProducerDies, TypeOK
    <2> QED BY Zenon, <1>12, <2>1, <2>2 DEF ProducerDies, TypeOK
  <1>13. CASE Open
    BY Zenon, <1>13 DEF Open, TypeOK
  <1>14. CASE PopLoadTail
    BY Zenon, <1>14 DEF PopLoadTail, TypeOK
  <1>15. CASE PopSkip
    <2>1. head_publish + Remaining(head_publish) \in Nat
      BY ProducerType, PosRange, CapacityType
    <2> QED BY <1>15, <2>1 DEF PopSkip, TypeOK
  <1>16. CASE PopRead
    BY Zenon, <1>16, TypePopRead
  <1>17. CASE PopStoreReserve
    BY Zenon, <1>17 DEF PopStoreReserve, TypeOK
  <1>18. CASE PopStorePublish
    BY <1>18 DEF PopStorePublish, TypeOK
  <1>19. CASE ConsumerDies
    <2>1. cdeaths' \in 0..MaxCrash
      BY <1>19, BoundsAssumption DEF ConsumerDies, TypeOK
    <2> QED BY Zenon, <1>19, <2>1 DEF ConsumerDies, TypeOK
  <1>20. CASE UNCHANGED vars
    BY Zenon, <1>20 DEF vars, TypeOK
  <1> QED
    BY Zenon, <1>1, <1>2, <1>3, <1>4, <1>5, <1>6, <1>7, <1>8, <1>9, <1>10, <1>11, <1>12, <1>13,
       <1>14, <1>15, <1>16, <1>17, <1>18, <1>19, <1>20 DEF Next, Producer, Consumer

-------------------------------------------------------------------------------
(* Where the published records lie. *)

\* The fields of a published record.
LEMMA RecordType ==
    ASSUME TypeOK, NEW i \in 1..Len(log)
    PROVE  /\ log[i].at \in Nat /\ log[i].size \in Nat /\ log[i].seq \in Nat
           /\ log[i].msg \in Messages
           /\ RecordWords(log[i].size) \in Nat /\ RecordWords(log[i].size) >= 2
           /\ PayloadWords(log[i].size) \in Nat
           /\ PayloadWords(log[i].size) = RecordWords(log[i].size) - 2
           /\ End(log[i]) = log[i].at + RecordWords(log[i].size)
           /\ End(log[i]) \in Nat
  <1> DEFINE R == [msg : Messages, size : Sizes, seq : Nat, at : Nat]
  <1>0. log \in Seq(R)
    BY Zenon DEF TypeOK
  <1>1. log[i] \in R
    <2> HIDE DEF R
    <2> QED BY <1>0
  <1>2. /\ log[i].at \in Nat /\ log[i].size \in Nat /\ log[i].seq \in Nat
        /\ log[i].msg \in Messages
    BY Zenon, <1>1, BoundsAssumption
  <1>3. /\ RecordWords(log[i].size) \in Nat /\ RecordWords(log[i].size) >= 2
        /\ PayloadWords(log[i].size) \in Nat
        /\ PayloadWords(log[i].size) = RecordWords(log[i].size) - 2
    <2> DEFINE size == log[i].size
    <2>1. size \in Nat
      BY Zenon, <1>2
    <2> HIDE DEF size
    <2>2. /\ RecordWords(size) \in Nat /\ RecordWords(size) >= 2
          /\ PayloadWords(size) \in Nat /\ PayloadWords(size) = RecordWords(size) - 2
      BY Zenon, <2>1, RecordGeometry DEF PayloadWords
    <2> QED BY Zenon, <2>2 DEF size
  <1>4. End(log[i]) = log[i].at + RecordWords(log[i].size)
    BY Zenon DEF End
  <1> QED BY <1>2, <1>3, <1>4

\* A record lies between two cursors, a header or more apart.
LEMMA RecordExtent ==
    ASSUME TypeOK, NEW i \in 1..Len(log)
    PROVE  log[i].at \in Nat /\ End(log[i]) \in Nat /\ log[i].at + 2 <= End(log[i])
  <1> DEFINE at == log[i].at
             words == RecordWords(log[i].size)
  <1>1. at \in Nat /\ words \in Nat /\ words >= 2 /\ End(log[i]) = at + words
    BY Zenon, RecordType
  <1> HIDE DEF at, words
  <1>2. at + words \in Nat /\ at + 2 <= at + words
    BY <1>1
  <1> QED BY Zenon, <1>1, <1>2 DEF at

\* The lengths of the two histories.
LEMMA Lengths ==
    ASSUME TypeOK
    PROVE  Len(log) \in Nat /\ Len(popped) \in Nat /\ ctail \in Nat /\ cnew \in Nat
  BY DEF TypeOK

\* The places between records, in the order of the cursors.
LEMMA Edges ==
    ASSUME TypeOK, Layout, NEW k \in 0..Len(log)
    PROVE  /\ Edge(k) \in Nat /\ Front(k) \in Nat
           /\ Edge(k) <= Front(k)
           /\ Front(k) # Edge(k) => /\ Pos(Edge(k)) # 0
                                    /\ Front(k) = Edge(k) + Remaining(Edge(k))
                                    /\ Edge(k) < Front(k)
           /\ Front(k) <= tail_publish
           /\ k < Len(log) => Front(k) = log[k + 1].at /\ k + 1 \in 1..Len(log)
           /\ k = Len(log) => Front(k) = tail_publish
  <1>0. tail_publish \in Nat /\ Len(log) \in Nat
    BY Zenon, ProducerType, Lengths
  <1>1. Edge(k) \in Nat
    <2>1. CASE k = 0
      BY Zenon, <2>1 DEF Edge
    <2>2. CASE k # 0
      <3>1. k \in 1..Len(log)
        BY <1>0, <2>2
      <3> QED BY Zenon, <2>2, <3>1, RecordType DEF Edge
    <2> QED BY Zenon, <2>1, <2>2
  <1>2. /\ k < Len(log) => Front(k) = log[k + 1].at /\ k + 1 \in 1..Len(log)
        /\ k = Len(log) => Front(k) = tail_publish
        /\ k < Len(log) \/ k = Len(log)
    BY <1>0 DEF Front
  <1>3. Front(k) \in Nat /\ Front(k) <= tail_publish
    <2>1. CASE k < Len(log)
      <3>1. /\ k + 1 \in 1..Len(log)
            /\ End(log[k + 1]) <= tail_publish
        BY Zenon, <1>2, <2>1 DEF Layout
      <3>2. log[k + 1].at \in Nat /\ End(log[k + 1]) \in Nat /\ log[k + 1].at <= End(log[k + 1])
        BY <3>1, RecordType
      <3> QED BY <1>0, <1>2, <2>1, <3>1, <3>2
    <2>2. CASE k = Len(log)
      BY <1>0, <1>2, <2>2
    <2> QED BY Zenon, <1>2, <2>1, <2>2
  <1>4. ASSUME Front(k) # Edge(k)
        PROVE  /\ Pos(Edge(k)) # 0 /\ Front(k) = Edge(k) + Remaining(Edge(k))
               /\ Edge(k) < Front(k)
    <2>1. Pos(Edge(k)) # 0 /\ Front(k) = Edge(k) + Remaining(Edge(k))
      BY Zenon, <1>4 DEF Layout
    <2>2. Remaining(Edge(k)) \in 1..Capacity
      BY Zenon, <1>1, PosRange
    <2> QED BY <1>1, <2>1, <2>2, CapacityType
  <1> QED BY <1>1, <1>2, <1>3, <1>4

\* What is published and not given back lies between head_publish and
\* tail_publish.
LEMMA HeadPlace ==
    ASSUME TypeOK, Layout, Reading
    PROVE  /\ Len(popped) \in 0..Len(log)
           /\ Edge(Len(popped)) <= head_publish /\ head_publish <= Front(Len(popped))
           /\ head_publish <= tail_publish
           /\ \A i \in (Len(popped) + 1)..Len(log) :
                 /\ i \in 1..Len(log)
                 /\ head_publish <= log[i].at /\ End(log[i]) <= tail_publish
           /\ \A k \in Len(popped)..Len(log) :
                 /\ k \in 0..Len(log)
                 /\ Front(k) # Edge(k) => Edge(k) < tail_publish
  <1> DEFINE n == Len(log)
             p == Len(popped)
  <1>0. n \in Nat /\ p \in Nat /\ p \in 0..n /\ tail_publish \in Nat /\ head_publish \in Nat
    BY Lengths, ProducerType DEF Reading
  <1>1. /\ Edge(p) \in Nat /\ Front(p) \in Nat /\ Edge(p) <= Front(p)
        /\ Front(p) <= tail_publish
        /\ p < n => Front(p) = log[p + 1].at /\ p + 1 \in 1..n
    BY Zenon, <1>0, Edges
  <1>2. head_publish \in {Edge(p), Front(p)}
    BY Zenon DEF Reading
  <1>3. Edge(p) <= head_publish /\ head_publish <= Front(p) /\ head_publish <= tail_publish
    BY <1>0, <1>1, <1>2
  <1>4. ASSUME NEW i \in (p + 1)..n
        PROVE  /\ i \in 1..n
               /\ head_publish <= log[i].at /\ End(log[i]) <= tail_publish
    <2>1. i \in 1..n /\ p < n
      BY <1>0
    <2>2. End(log[i]) <= tail_publish
      BY Zenon, <2>1 DEF Layout
    <2>3. CASE i = p + 1
      BY Zenon, <1>1, <1>3, <2>1, <2>2, <2>3
    <2>4. CASE i # p + 1
      <3>1. i \in ((p + 1) + 1)..n /\ p + 1 \in 1..n
        BY <1>0, <1>1, <2>1, <2>4
      <3>2. End(log[p + 1]) <= log[i].at
        BY Zenon, <3>1 DEF Layout
      <3>3. /\ End(log[p + 1]) \in Nat /\ log[p + 1].at \in Nat /\ log[i].at \in Nat
            /\ log[p + 1].at + 2 <= End(log[p + 1])
        BY Zenon, <2>1, <3>1, RecordExtent
      <3>4. Front(p) = log[p + 1].at
        BY Zenon, <1>1, <2>1
      <3> QED BY <1>0, <1>3, <2>1, <2>2, <3>2, <3>3, <3>4
    <2> QED BY Zenon, <2>3, <2>4
  <1>5. ASSUME NEW k \in p..n
        PROVE  k \in 0..n /\ (Front(k) # Edge(k) => Edge(k) < tail_publish)
    <2>1. k \in 0..n
      BY <1>0
    <2>2. /\ Edge(k) \in Nat /\ Front(k) \in Nat /\ Front(k) <= tail_publish
          /\ Front(k) # Edge(k) => Edge(k) < Front(k)
      BY Zenon, <2>1, Edges
    <2> QED BY <1>0, <2>1, <2>2
  <1> QED BY Zenon, <1>0, <1>3, <1>4, <1>5

\* Steps that publish nothing leave records and padding where they are.
LEMMA PlacesStay ==
    ASSUME UNCHANGED <<log, tail_publish>>
    PROVE  \A k : Edge(k)' = Edge(k) /\ Front(k)' = Front(k)
  BY Zenon DEF Edge, Front, End

\* The store of tail_publish that ends try_push adds one record, in the place
\* where the last one, or the padding behind it, ended.
LEMMA PublishFacts ==
    ASSUME TypeOK, Layout, Writing, PushPublish
    PROVE  /\ Len(log') = Len(log) + 1
           /\ \A i \in 1..Len(log) : log'[i] = log[i]
           /\ log'[Len(log) + 1] = Published
           /\ Published.at = tail_publish /\ Published.size = psize
           /\ Published.msg = Current /\ Published.seq = sequence
           /\ tail_publish' = tail_publish + RecordWords(psize)
           /\ End(Published) = tail_publish'
           /\ \A k \in 0..Len(log) : Edge(k)' = Edge(k) /\ Front(k)' = Front(k)
           /\ \A k \in Nat : k = Len(log) + 1 =>
                 Edge(k)' = tail_publish' /\ Front(k)' = tail_publish'
  <1> DEFINE R == [msg : Messages, size : Sizes, seq : Nat, at : Nat]
             n == Len(log)
  <1>1. Published \in R
    BY Zenon, CurrentType, ProducerType DEF PushPublish, Published
  <1>2. log \in Seq(R) /\ log' = Append(log, Published) /\ n \in Nat
    BY Zenon, Lengths DEF TypeOK, PushPublish
  <1>3. /\ Len(log') = n + 1
        /\ \A i \in 1..n : log'[i] = log[i]
        /\ log'[n + 1] = Published
    <2> HIDE DEF R
    <2> QED BY <1>1, <1>2, AppendFacts
  <1>4. /\ Published.at = tail_publish /\ Published.size = psize
        /\ Published.msg = Current /\ Published.seq = sequence
    BY Zenon DEF Published
  <1>5. tail_publish' = tail_publish + RecordWords(psize)
    BY Zenon DEF PushPublish, Writing
  <1>6. End(Published) = tail_publish'
    BY Zenon, <1>4, <1>5 DEF End
  <1>7. ASSUME NEW k \in 0..n PROVE Edge(k)' = Edge(k) /\ Front(k)' = Front(k)
    <2>1. k # 0 => k \in 1..n
      BY <1>2
    <2>2. Edge(k)' = Edge(k)
      BY Zenon, <1>3, <2>1 DEF Edge, End
    <2>6. k < Len(log')
      BY <1>2, <1>3
    <2>3. Front(k)' = log'[k + 1].at
      BY Zenon, <2>6 DEF Front
    <2>4. CASE k < n
      <3>1. k + 1 \in 1..n
        BY <1>2, <2>4
      <3> QED BY Zenon, <1>3, <2>2, <2>3, <2>4, <3>1 DEF Front
    <2>5. CASE k = n
      BY <1>2, <1>3, <1>4, <2>2, <2>3, <2>5 DEF Front
    <2> QED BY <1>2, <2>4, <2>5
  <1>8. ASSUME NEW k \in Nat, k = n + 1
        PROVE  Edge(k)' = tail_publish' /\ Front(k)' = tail_publish'
    <2>1. k # 0 /\ ~ (k < Len(log'))
      BY <1>2, <1>3, <1>8
    <2>2. Edge(k)' = End(log'[k])
      BY Zenon, <2>1 DEF Edge, End
    <2>3. Front(k)' = tail_publish'
      BY Zenon, <2>1 DEF Front
    <2> QED BY Zenon, <1>3, <1>6, <1>8, <2>2, <2>3
  <1> QED BY Zenon, <1>3, <1>4, <1>5, <1>6, <1>7, <1>8

\* The store of tail_publish after padding: it starts where the last record ends.
LEMMA PadFacts ==
    ASSUME TypeOK, Layout, Writing, ppc \in {"reserve_pad", "publish_pad"}
    PROVE  /\ Edge(Len(log)) = tail_publish /\ Front(Len(log)) = tail_publish
           /\ Pos(tail_publish) # 0
           /\ pnew = tail_publish + Remaining(tail_publish)
           /\ pnew > tail_publish
           /\ pnew <= phead + Capacity
           /\ Remaining(tail_publish) >= HeaderWords => Word(tail_publish) = WrapCell
           /\ PushPublishPad =>
                 /\ \A k \in 0..Len(log) : Edge(k)' = Edge(k)
                 /\ \A k \in 0..(Len(log) - 1) : Front(k)' = Front(k)
                 /\ Front(Len(log))' = pnew
  <1> DEFINE n == Len(log)
  <1>1. n \in Nat /\ n \in 0..n
    BY Lengths
  <1>2. /\ Edge(n) \in Nat /\ Front(n) = tail_publish
        /\ Front(n) # Edge(n) => Front(n) = Edge(n) + Remaining(Edge(n))
    BY Zenon, <1>1, Edges
  <1>3. /\ Pos(tail_publish) # 0
        /\ pnew = tail_publish + Remaining(tail_publish)
        /\ pnew <= phead + Capacity
        /\ Remaining(tail_publish) >= HeaderWords => Word(tail_publish) = WrapCell
    BY Zenon DEF Writing
  <1>4. Edge(n) = tail_publish
    BY Zenon, <1>2, <1>3, PosWrap
  <1>5. pnew > tail_publish
    BY <1>3, ProducerType, CapacityType
  <1>6. ASSUME PushPublishPad
        PROVE  /\ \A k \in 0..n : Edge(k)' = Edge(k)
               /\ \A k \in 0..(n - 1) : Front(k)' = Front(k)
               /\ Front(n)' = pnew
    <2>1. log' = log /\ tail_publish' = pnew
      BY Zenon, <1>6 DEF PushPublishPad
    <2> QED BY <1>1, <2>1 DEF Edge, Front, End
  <1> QED BY Zenon, <1>2, <1>3, <1>4, <1>5, <1>6

\* Only the two publishing stores of try_push move tail_publish.
LEMMA TailSteps ==
    ASSUME [Next]_vars
    PROVE  PushPublish \/ PushPublishPad \/ UNCHANGED <<log, tail_publish>>
  <1> USE DEF fileVars, producerVars, consumerVars
  <1>1. CASE Producer
    BY Zenon, <1>1 DEF Producer, Claim, PushCall, PushLoadHead, PushReject, PushPad, PushWriteHeader,
                PushWritePayload, PushNumber, PushStoreReserve
  <1>2. CASE Consumer
    BY Zenon, <1>2 DEF Consumer, Open, PopLoadTail, PopSkip, PopRead, PopStoreReserve,
                PopStorePublish
  <1>3. CASE ProducerDies \/ ConsumerDies \/ UNCHANGED vars
    BY Zenon, <1>3 DEF ProducerDies, ConsumerDies, vars
  <1> QED BY Zenon, <1>1, <1>2, <1>3 DEF Next

\* Records stay in order and in one piece, with padding only at the end of the
\* ring.
LEMMA LayoutStep ==
    ASSUME TypeOK, Layout, Writing, [Next]_vars
    PROVE  Layout'
  <1> DEFINE n == Len(log)
  <1>0. n \in Nat /\ tail_publish \in Nat
    BY Zenon, Lengths, ProducerType
  <1>1. CASE UNCHANGED <<log, tail_publish>>
    BY Zenon, <1>1, PlacesStay DEF Layout, End, Edge, Front
  <1>2. CASE PushPublishPad
    <2>1. /\ Edge(n) = tail_publish /\ Pos(tail_publish) # 0
          /\ pnew = tail_publish + Remaining(tail_publish) /\ pnew > tail_publish
          /\ \A k \in 0..n : Edge(k)' = Edge(k)
          /\ \A k \in 0..(n - 1) : Front(k)' = Front(k)
          /\ Front(n)' = pnew
      BY Zenon, <1>2, PadFacts DEF PushPublishPad
    <2>2. log' = log /\ tail_publish' = pnew /\ pnew \in Nat
      BY Zenon, <1>2, ProducerType DEF PushPublishPad
    <2>3. ASSUME NEW i \in 1..n
          PROVE  /\ Pos(log[i].at) + RecordWords(log[i].size) <= Capacity
                 /\ End(log[i]) <= pnew
                 /\ \A j \in (i + 1)..n :
                       /\ End(log[i]) <= log[j].at
                       /\ log[i].at + HeaderWords * (j - i) <= log[j].at
      <3>1. End(log[i]) <= tail_publish /\ End(log[i]) \in Nat
        BY Zenon, RecordType DEF Layout
      <3>2. End(log[i]) <= pnew
        BY <1>0, <2>1, <2>2, <3>1
      <3> QED BY Zenon, <3>2 DEF Layout
    <2>4. ASSUME NEW k \in 0..n
          PROVE  (Front(k) # Edge(k) =>
                     Pos(Edge(k)) # 0 /\ Front(k) = Edge(k) + Remaining(Edge(k)))'
      <3>1. CASE k \in 0..(n - 1)
        BY Zenon, <2>1, <3>1 DEF Layout
      <3>2. CASE k = n
        <4>1. Edge(k)' = tail_publish /\ Front(k)' = pnew
          BY Zenon, <2>1, <2>2, <3>2
        <4> QED BY Zenon, <2>1, <4>1
      <3> QED BY <1>0, <3>1, <3>2
    <2> QED BY Zenon, <2>2, <2>3, <2>4 DEF Layout, End
  <1>3. CASE PushPublish
    <2>1. /\ Len(log') = n + 1
          /\ \A i \in 1..n : log'[i] = log[i]
          /\ log'[n + 1].at = tail_publish /\ log'[n + 1].size = psize
          /\ tail_publish' = tail_publish + RecordWords(psize)
          /\ End(log'[n + 1]) = tail_publish'
          /\ \A k \in 0..n : Edge(k)' = Edge(k) /\ Front(k)' = Front(k)
          /\ \A k \in Nat : k = n + 1 => Edge(k)' = tail_publish' /\ Front(k)' = tail_publish'
      BY Zenon, <1>3, PublishFacts
    <2>2. /\ RecordWords(psize) \in 2..Capacity /\ HeaderWords = 2
          /\ Pos(tail_publish) + RecordWords(psize) <= Capacity
      BY Zenon, <1>3, ProducerType DEF PushPublish, Writing
    <2>3. ASSUME NEW i \in 1..(n + 1)
          PROVE  /\ Pos(log'[i].at) + RecordWords(log'[i].size) <= Capacity
                 /\ End(log'[i]) <= tail_publish'
                 /\ \A j \in (i + 1)..(n + 1) :
                       /\ End(log'[i]) <= log'[j].at
                       /\ log'[i].at + HeaderWords * (j - i) <= log'[j].at
      <3>1. CASE i = n + 1
        <4>1. \A j \in (i + 1)..(n + 1) : FALSE
          BY <1>0, <3>1
        <4>2. End(log'[i]) <= tail_publish'
          BY <1>0, <2>1, <2>2, <3>1, CapacityType
        <4> QED BY Zenon, <2>1, <2>2, <3>1, <4>1, <4>2
      <3>2. CASE i \in 1..n
        <4>1. /\ log'[i] = log[i] /\ End(log[i]) <= tail_publish
              /\ Pos(log[i].at) + RecordWords(log[i].size) <= Capacity
          BY Zenon, <2>1, <3>2 DEF Layout
        <4>2. /\ End(log[i]) \in Nat /\ log[i].at \in Nat /\ log[i].at + 2 <= End(log[i])
          BY <3>2, RecordType
        <4>3. End(log[i]) <= tail_publish'
          BY <1>0, <2>1, <2>2, <4>1, <4>2, CapacityType
        <4>4. ASSUME NEW j \in (i + 1)..(n + 1)
              PROVE  /\ End(log[i]) <= log'[j].at
                     /\ log[i].at + HeaderWords * (j - i) <= log'[j].at
          <5>1. CASE j \in (i + 1)..n
            <6>1. j \in 1..n
              BY <1>0, <3>2, <5>1
            <6> QED BY Zenon, <2>1, <3>2, <5>1, <6>1 DEF Layout
          <5>2. CASE j = n + 1
            <6>1. log'[j].at = tail_publish
              BY Zenon, <2>1, <5>2
            <6>2. CASE i = n
              BY <1>0, <2>2, <3>2, <4>1, <4>2, <5>2, <6>1, <6>2
            <6>3. CASE i < n
              <7>1. n \in (i + 1)..n /\ n \in 1..n
                BY <1>0, <3>2, <6>3
              <7>2. log[i].at + HeaderWords * (n - i) <= log[n].at /\ End(log[n]) <= tail_publish
                BY Zenon, <3>2, <7>1 DEF Layout
              <7>3. /\ End(log[n]) \in Nat /\ log[n].at \in Nat /\ log[n].at + 2 <= End(log[n])
                BY Zenon, <7>1, RecordExtent
              <7> DEFINE low == log[i].at
                         high == log[n].at
                         end == End(log[n])
              <7>4. /\ low \in Nat /\ high \in Nat /\ end \in Nat /\ high + 2 <= end
                    /\ low + 2 * (n - i) <= high /\ end <= tail_publish
                BY Zenon, <2>2, <4>2, <7>2, <7>3
              <7>5. n \in Nat /\ i \in Int
                BY <1>0, <3>2
              <7> HIDE DEF low, high, end, n
              <7>6. low + 2 * ((n + 1) - i) <= tail_publish
                BY <1>0, <7>4, <7>5
              <7> QED BY Zenon, <2>2, <4>1, <5>2, <6>1, <7>6 DEF low
            <6> QED BY <1>0, <3>2, <6>2, <6>3
          <5> QED BY <1>0, <3>2, <5>1, <5>2
        <4> QED BY Zenon, <4>1, <4>3, <4>4
      <3> QED BY <1>0, <3>1, <3>2
    <2>4. ASSUME NEW k \in 0..(n + 1)
          PROVE  (Front(k) # Edge(k) =>
                     Pos(Edge(k)) # 0 /\ Front(k) = Edge(k) + Remaining(Edge(k)))'
      <3>1. CASE k \in 0..n
        BY Zenon, <2>1, <3>1 DEF Layout
      <3>2. CASE k = n + 1
        BY <2>1, <3>2
      <3> QED BY <1>0, <3>1, <3>2
    <2> QED BY Zenon, <2>1, <2>3, <2>4 DEF Layout, End
  <1> QED BY Zenon, <1>1, <1>2, <1>3, TailSteps

-------------------------------------------------------------------------------
(* The stores of try_push into the ring stay beyond tail_publish, in words that  *)
(* the consumer gave back.                                                       *)

\* What the capacity tests of try_push let through: with a head that may be
\* stale, the padding or the record fits, and lies in one piece.
LEMMA RoomComputed ==
    ASSUME TypeOK, CursorOrder, Writing, ppc = "decide", ~ Refused
    PROVE  /\ phead <= head_publish
           /\ Pad = 0 => /\ Pos(tail_publish) + RecordWords(psize) <= Capacity
                         /\ tail_publish + RecordWords(psize) <= phead + Capacity
           /\ Pad > 0 => /\ Pad = Remaining(tail_publish) /\ Pos(tail_publish) # 0
                         /\ tail_publish + Pad <= phead + Capacity
  <1> DEFINE words == RecordWords(psize)
             room == Remaining(tail_publish)
             at == Pos(tail_publish)
  <1>1. /\ tail_publish \in Nat /\ head_publish \in Nat /\ phead \in Nat
        /\ words \in 2..Capacity /\ at \in 0..(Capacity - 1)
        /\ room \in 1..Capacity /\ room = Capacity - at /\ HeaderWords = 2
    BY Zenon, ProducerType
  <1>2. phead <= head_publish
    BY Zenon DEF Writing
  <1>3. head_publish <= tail_publish
    BY Zenon DEF CursorOrder
  <1>4. Used = tail_publish - phead /\ Used \in Nat
    BY <1>1, <1>2, <1>3 DEF Used, Sub64
  <1>5. Pad = IF room < 2 \/ room < words THEN room ELSE 0
    BY Zenon, <1>1 DEF Pad, Padding
  <1>6. ~ (IF room < 2 THEN Used + room > Capacity ELSE Used + Pad + words > Capacity)
    BY Zenon, <1>1 DEF Refused
  <1> HIDE DEF words, room, at
  <1>7. ASSUME Pad = 0
        PROVE  at + words <= Capacity /\ tail_publish + words <= phead + Capacity
    BY <1>1, <1>4, <1>5, <1>6, <1>7, CapacityType
  <1>8. ASSUME Pad > 0
        PROVE  Pad = room /\ at # 0 /\ tail_publish + Pad <= phead + Capacity
    <2>1. Pad = room
      BY <1>1, <1>5, <1>8
    <2>2. at # 0
      BY <1>1, <1>5, <1>8, CapacityType
    <2>3. tail_publish + room <= phead + Capacity
      BY <1>1, <1>4, <1>6, <2>1, CapacityType
    <2> QED BY Zenon, <2>1, <2>2, <2>3
  <1> QED BY Zenon, <1>2, <1>7, <1>8 DEF words, room, at

\* Writing a wrap record over the padding.
LEMMA WrapStored ==
    ASSUME TypeOK, CursorOrder, Writing, PushPad
    PROVE  /\ Remaining(tail_publish) >= HeaderWords => ring'[Pos(tail_publish)] = WrapCell
           /\ \A c \in Nat : head_publish <= c /\ c < tail_publish
                                 => ring'[Pos(c)] = ring[Pos(c)]
  <1> DEFINE cells == <<HeaderCell(0, NoMessage, TRUE), SequenceCell(0)>>
  <1>1. /\ tail_publish \in Nat /\ head_publish \in Nat /\ phead \in Nat
        /\ Pos(tail_publish) \in 0..(Capacity - 1)
        /\ Remaining(tail_publish) \in 1..Capacity
        /\ Remaining(tail_publish) = Capacity - Pos(tail_publish) /\ HeaderWords = 2
    BY Zenon, ProducerType
  <1>2. /\ phead <= head_publish /\ Pad = Remaining(tail_publish)
        /\ tail_publish + Pad <= phead + Capacity
    BY Zenon, RoomComputed DEF PushPad
  <1>3. Len(cells) = 2 /\ cells[1] = WrapCell
    BY Zenon DEF WrapCell
  <1>4. ring' = IF Pad < HeaderWords THEN ring ELSE Overwrite(ring, Pos(tail_publish), cells)
    BY Zenon DEF PushPad
  <1>5. head_publish <= tail_publish
    BY Zenon DEF CursorOrder
  <1> HIDE DEF cells
  <1>6. CASE Pad < HeaderWords
    <2>1. ~ (Remaining(tail_publish) >= HeaderWords)
      BY <1>1, <1>2, <1>6
    <2> QED BY Zenon, <1>4, <1>6, <2>1
  <1>7. CASE ~ (Pad < HeaderWords)
    <2>1. Pos(tail_publish) + Len(cells) <= Capacity
          /\ tail_publish + Len(cells) <= head_publish + Capacity
          /\ Len(cells) \in Nat /\ Len(cells) > 0
      BY <1>1, <1>2, <1>3, <1>7, CapacityType
    <2>2. ring'[Pos(tail_publish)] = WrapCell
      BY Zenon, <1>1, <1>3, <1>4, <1>7, <2>1, StoreHitsFirst
    <2>3. ASSUME NEW c \in Nat, head_publish <= c, c < tail_publish
          PROVE  ring'[Pos(c)] = ring[Pos(c)]
      <3>1. c < head_publish + Capacity
        BY <1>1, <2>1, <2>3, CapacityType
      <3>2. Overwrite(ring, Pos(tail_publish), cells)[Pos(c)] = ring[Pos(c)]
        BY <1>1, <1>5, <2>1, <2>3, <3>1, StoreMisses
      <3> QED BY Zenon, <1>4, <1>7, <3>2
    <2> QED BY Zenon, <2>2, <2>3
  <1> QED BY Zenon, <1>6, <1>7

\* Writing the header of the record.
LEMMA HeaderStored ==
    ASSUME TypeOK, CursorOrder, Writing, PushWriteHeader
    PROVE  /\ ring'[Pos(tail_publish)] = HeaderCell(psize, Current, FALSE)
           /\ \A c \in Nat : head_publish <= c /\ c < tail_publish
                                 => ring'[Pos(c)] = ring[Pos(c)]
  <1> DEFINE cells == <<HeaderCell(psize, Current, FALSE), SequenceCell(0)>>
             words == RecordWords(psize)
  <1>1. /\ tail_publish \in Nat /\ head_publish \in Nat /\ phead \in Nat
        /\ words \in 2..Capacity
        /\ Pos(tail_publish) \in 0..(Capacity - 1)
    BY Zenon, ProducerType
  <1>2. /\ phead <= head_publish /\ Pos(tail_publish) + words <= Capacity
        /\ tail_publish + words <= phead + Capacity
    BY Zenon, RoomComputed DEF PushWriteHeader
  <1>3. Len(cells) = 2 /\ cells[1] = HeaderCell(psize, Current, FALSE)
    BY Zenon
  <1>4. ring' = Overwrite(ring, Pos(tail_publish), cells)
    BY Zenon DEF PushWriteHeader
  <1>5. head_publish <= tail_publish
    BY DEF CursorOrder
  <1> HIDE DEF cells, words
  <1>6. Pos(tail_publish) + Len(cells) <= Capacity
        /\ tail_publish + Len(cells) <= head_publish + Capacity
        /\ Len(cells) \in Nat /\ Len(cells) > 0
    BY <1>1, <1>2, <1>3, CapacityType
  <1>7. ring'[Pos(tail_publish)] = HeaderCell(psize, Current, FALSE)
    BY ZenonT(30), <1>1, <1>3, <1>4, <1>6, StoreHitsFirst
  <1>8. ASSUME NEW c \in Nat, head_publish <= c, c < tail_publish
        PROVE  ring'[Pos(c)] = ring[Pos(c)]
    <2>1. c < head_publish + Capacity
      BY <1>1, <1>6, <1>8, CapacityType
    <2>2. Overwrite(ring, Pos(tail_publish), cells)[Pos(c)] = ring[Pos(c)]
      BY <1>1, <1>5, <1>6, <1>8, <2>1, StoreMisses
    <2> QED BY Zenon, <1>4, <2>2
  <1> QED BY Zenon, <1>7, <1>8

\* The memcpy of the payload.
LEMMA PayloadStored ==
    ASSUME TypeOK, CursorOrder, Writing, PushWritePayload
    PROVE  /\ \A j \in 1..PayloadWords(psize) :
                 ring'[Pos(tail_publish + 1 + j)] = PayloadCell(Current, j)
           /\ \A c \in Nat : head_publish <= c /\ c < tail_publish + 2
                                 => ring'[Pos(c)] = ring[Pos(c)]
  <1> DEFINE cells == Payload(Current, psize)
             words == RecordWords(psize)
             b == tail_publish + 2
  <1>1. /\ tail_publish \in Nat /\ head_publish \in Nat /\ phead \in Nat
        /\ words \in 2..Capacity /\ PayloadWords(psize) = words - 2
        /\ Pos(tail_publish) \in 0..(Capacity - 1) /\ HeaderWords = 2
    BY Zenon, ProducerType
  <1>2. /\ phead <= head_publish /\ Pos(tail_publish) + words <= Capacity
        /\ tail_publish + words <= phead + Capacity
    BY Zenon DEF PushWritePayload, Writing
  <1>3. /\ Len(cells) = words - 2
        /\ \A j \in 1..(words - 2) : cells[j] = PayloadCell(Current, j)
    BY <1>1 DEF Payload
  <1>4. ring' = Overwrite(ring, Pos(tail_publish) + 2, cells)
    BY Zenon, <1>1 DEF PushWritePayload
  <1>5. head_publish <= tail_publish
    BY DEF CursorOrder
  <1> HIDE DEF cells, words
  <1>6. CASE words = 2
    <2>1. Len(cells) = 0
      BY <1>3, <1>6
    <2>2. ASSUME NEW c \in Nat PROVE ring'[Pos(c)] = ring[Pos(c)]
      <3>1. Pos(c) \in Words
        BY Zenon, PosRange
      <3> QED BY <1>4, <2>1, <3>1 DEF Overwrite
    <2> QED BY <1>1, <1>6, <2>2
  <1>7. CASE words > 2
    <2>1. b \in Nat /\ Pos(b) = Pos(tail_publish) + 2
      BY <1>1, <1>2, <1>7, PosAdd, CapacityType
    <2>2. /\ Pos(b) + Len(cells) <= Capacity /\ Len(cells) \in Nat /\ Len(cells) > 0
          /\ b + Len(cells) <= head_publish + Capacity /\ head_publish <= b
      BY <1>1, <1>2, <1>3, <1>5, <1>7, <2>1, CapacityType
    <2>3. ring' = Overwrite(ring, Pos(b), cells)
      BY Zenon, <1>4, <2>1
    <2>4. ASSUME NEW j \in 1..(words - 2)
          PROVE  ring'[Pos(tail_publish + 1 + j)] = PayloadCell(Current, j)
      <3>1. b + (j - 1) = tail_publish + 1 + j /\ j \in 1..Len(cells)
        BY <1>1, <1>3, <2>4
      <3>2. Overwrite(ring, Pos(b), cells)[Pos(b + (j - 1))] = cells[j]
        BY <2>1, <2>2, <3>1, StoreHits
      <3> QED BY Zenon, <1>3, <2>3, <3>1, <3>2
    <2>5. ASSUME NEW c \in Nat, head_publish <= c, c < b
          PROVE  ring'[Pos(c)] = ring[Pos(c)]
      <3>1. c < head_publish + Capacity
        BY <1>1, <2>1, <2>2, <2>5, CapacityType
      <3> HIDE DEF b
      <3>2. Overwrite(ring, Pos(b), cells)[Pos(c)] = ring[Pos(c)]
        BY <1>1, <2>1, <2>2, <2>5, <3>1, StoreMisses
      <3> QED BY Zenon, <2>3, <3>2
    <2> QED BY Zenon, <1>1, <2>4, <2>5
  <1> QED BY <1>1, <1>6, <1>7

\* The store of the record's number.
LEMMA NumberStored ==
    ASSUME TypeOK, CursorOrder, Writing, PushNumber
    PROVE  /\ ring'[Pos(tail_publish + 1)] = SequenceCell(sequence + 1)
           /\ \A c \in Nat : /\ head_publish <= c /\ c < head_publish + Capacity
                             /\ c # tail_publish + 1
                             => ring'[Pos(c)] = ring[Pos(c)]
  <1> DEFINE cells == <<SequenceCell(sequence + 1)>>
             words == RecordWords(psize)
             b == tail_publish + 1
  <1>1. /\ tail_publish \in Nat /\ head_publish \in Nat /\ phead \in Nat
        /\ words \in 2..Capacity /\ Pos(tail_publish) \in 0..(Capacity - 1)
    BY Zenon, ProducerType
  <1>2. /\ phead <= head_publish /\ Pos(tail_publish) + words <= Capacity
        /\ tail_publish + words <= phead + Capacity
    BY Zenon DEF PushNumber, Writing
  <1>3. Len(cells) = 1 /\ cells[1] = SequenceCell(sequence + 1)
    BY Zenon
  <1>4. ring' = Overwrite(ring, Pos(tail_publish) + 1, cells)
    BY Zenon DEF PushNumber
  <1>5. head_publish <= tail_publish
    BY DEF CursorOrder
  <1> HIDE DEF cells, words
  <1>6. b \in Nat /\ Pos(b) = Pos(tail_publish) + 1
    BY <1>1, <1>2, PosAdd, CapacityType
  <1>7. /\ Pos(b) + Len(cells) <= Capacity /\ Len(cells) \in Nat /\ Len(cells) > 0
        /\ b + Len(cells) <= head_publish + Capacity /\ head_publish <= b
    BY <1>1, <1>2, <1>3, <1>5, <1>6, CapacityType
  <1>8. ring' = Overwrite(ring, Pos(b), cells)
    BY Zenon, <1>4, <1>6
  <1> HIDE DEF b
  <1>9. ring'[Pos(b)] = SequenceCell(sequence + 1)
    BY Zenon, <1>3, <1>6, <1>7, <1>8, StoreHitsFirst
  <1>10. ASSUME NEW c \in Nat, head_publish <= c, c < head_publish + Capacity, c # b
         PROVE  ring'[Pos(c)] = ring[Pos(c)]
    <2>1. c < b \/ c >= b + Len(cells)
      BY <1>3, <1>6, <1>10
    <2>2. Overwrite(ring, Pos(b), cells)[Pos(c)] = ring[Pos(c)]
      BY <1>1, <1>6, <1>7, <1>10, <2>1, StoreMisses
    <2> QED BY <1>8, <2>2
  <1> QED BY Zenon, <1>9, <1>10 DEF b

\* No step touches the words between head_publish and tail_publish.
LEMMA UnreadWordsStay ==
    ASSUME TypeOK, CursorOrder, Writing, [Next]_vars
    PROVE  \A c \in Nat : head_publish <= c /\ c < tail_publish
                              => ring'[Pos(c)] = ring[Pos(c)]
  <1>1. CASE PushPad
    BY Zenon, <1>1, WrapStored
  <1>2. CASE PushWriteHeader
    BY Zenon, <1>2, HeaderStored
  <1>3. CASE PushWritePayload
    <2> SUFFICES ASSUME NEW c \in Nat, head_publish <= c, c < tail_publish
                 PROVE  ring'[Pos(c)] = ring[Pos(c)]
      BY Zenon
    <2>1. c < tail_publish + 2
      BY ProducerType
    <2> QED BY Zenon, <1>3, <2>1, PayloadStored
  <1>4. CASE PushNumber
    <2> SUFFICES ASSUME NEW c \in Nat, head_publish <= c, c < tail_publish
                 PROVE  ring'[Pos(c)] = ring[Pos(c)]
      OBVIOUS
    <2>1. c # tail_publish + 1 /\ c < head_publish + Capacity
      BY ProducerType, CapacityType DEF CursorOrder
    <2> QED BY Zenon, <1>4, <2>1, NumberStored
  <1>5. CASE ~ (PushPad \/ PushWriteHeader \/ PushWritePayload \/ PushNumber)
    <2> USE DEF fileVars, producerVars, consumerVars
    <2>1. CASE Producer
      BY Zenon, <1>5, <2>1 DEF Producer, Claim, PushCall, PushLoadHead, PushReject, PushStoreReserve,
                        PushPublishPad, PushPublish
    <2>2. CASE Consumer
      BY Zenon, <2>2 DEF Consumer, Open, PopLoadTail, PopSkip, PopRead, PopStoreReserve,
                  PopStorePublish
    <2>3. CASE ProducerDies \/ ConsumerDies \/ UNCHANGED vars
      BY Zenon, <2>3 DEF ProducerDies, ConsumerDies, vars
    <2> QED BY Zenon, <2>1, <2>2, <2>3 DEF Next
  <1> QED BY Zenon, <1>1, <1>2, <1>3, <1>4, <1>5

\* A published record that is not given back keeps its words.
LEMMA StoredStays ==
    ASSUME TypeOK, Layout, Reading, Unread, NEW i \in (Len(popped) + 1)..Len(log),
           \A c \in Nat : head_publish <= c /\ c < tail_publish
                              => ring'[Pos(c)] = ring[Pos(c)]
    PROVE  /\ ring'[Pos(log[i].at)] = HeaderCell(log[i].size, log[i].msg, FALSE)
           /\ ring'[Pos(log[i].at + 1)] = SequenceCell(log[i].seq)
           /\ \A j \in 1..PayloadWords(log[i].size) :
                 ring'[Pos(log[i].at + 1 + j)] = PayloadCell(log[i].msg, j)
  <1> DEFINE at == log[i].at
             words == RecordWords(log[i].size)
  <1>1. i \in 1..Len(log) /\ head_publish <= at /\ End(log[i]) <= tail_publish
    BY Zenon, HeadPlace
  <1>2. /\ at \in Nat /\ words \in Nat /\ words >= 2 /\ PayloadWords(log[i].size) = words - 2
        /\ End(log[i]) = at + words /\ head_publish \in Nat /\ tail_publish \in Nat
    BY Zenon, <1>1, RecordType, ProducerType
  <1>3. /\ ring[Pos(at)] = HeaderCell(log[i].size, log[i].msg, FALSE)
        /\ ring[Pos(at + 1)] = SequenceCell(log[i].seq)
        /\ \A j \in 1..(words - 2) : ring[Pos(at + 1 + j)] = PayloadCell(log[i].msg, j)
    BY Zenon, <1>2 DEF Unread, Stored, Word
  <1> HIDE DEF at, words
  <1>4. ASSUME NEW c \in Nat, at <= c, c < at + words
        PROVE  ring'[Pos(c)] = ring[Pos(c)]
    <2>1. head_publish <= c /\ c < tail_publish
      BY <1>1, <1>2, <1>4
    <2> QED BY Zenon, <2>1
  <1>5. ring'[Pos(at)] = ring[Pos(at)] /\ ring'[Pos(at + 1)] = ring[Pos(at + 1)]
    BY <1>2, <1>4
  <1>6. ASSUME NEW j \in 1..(words - 2)
        PROVE  ring'[Pos(at + 1 + j)] = PayloadCell(log[i].msg, j)
    <2>1. at + 1 + j \in Nat /\ at <= at + 1 + j /\ at + 1 + j < at + words
      BY <1>2
    <2> QED BY Zenon, <1>3, <1>4, <2>1
  <1> QED BY Zenon, <1>2, <1>3, <1>5, <1>6 DEF at

\* Published records and the wrap records between them stay in the ring until
\* they are given back.
LEMMA UnreadStep ==
    ASSUME TypeOK, CursorOrder, Layout, Reading, Writing, Unread, [Next]_vars,
           Len(popped') \in Nat, Len(popped') >= Len(popped),
           head_publish' \in Nat, head_publish' >= head_publish
    PROVE  Unread'
  <1> DEFINE n == Len(log)
             p == Len(popped)
             q == Len(popped')
  <1>0. /\ n \in Nat /\ p \in Nat /\ q \in Nat /\ q >= p
        /\ head_publish \in Nat /\ tail_publish \in Nat
    BY Zenon, Lengths, ProducerType
  <1>1. \A c \in Nat : head_publish <= c /\ c < tail_publish => ring'[Pos(c)] = ring[Pos(c)]
    BY Zenon, UnreadWordsStay
  <1>2. ASSUME NEW i \in (q + 1)..n, log'[i] = log[i] PROVE Stored(log[i])'
    <2>1. i \in (p + 1)..n
      BY <1>0
    <2> QED BY Zenon, <1>1, <1>2, <2>1, StoredStays DEF Stored, Word
  <1>3. ASSUME NEW k \in q..n, Front(k) # Edge(k), Remaining(Edge(k)) >= HeaderWords,
               head_publish' <= Edge(k)
        PROVE  ring'[Pos(Edge(k))] = WrapCell
    <2>1. k \in p..n
      BY <1>0
    <2>2. k \in 0..n /\ Edge(k) < tail_publish
      BY Zenon, <1>3, <2>1, HeadPlace
    <2>3. Edge(k) \in Nat
      BY Zenon, <2>2, Edges
    <2>4. head_publish <= Edge(k)
      BY <1>0, <1>3, <2>3
    <2>5. ring[Pos(Edge(k))] = WrapCell
      BY Zenon, <1>3, <2>1, <2>4 DEF Unread, Word
    <2> QED BY Zenon, <1>1, <2>2, <2>3, <2>4, <2>5
  <1>4. CASE UNCHANGED <<log, tail_publish>>
    <2>1. \A i \in (q + 1)..n : Stored(log[i])'
      BY Zenon, <1>2, <1>4
    <2>2. \A k : Edge(k)' = Edge(k) /\ Front(k)' = Front(k)
      BY Zenon, <1>4, PlacesStay
    <2>3. ASSUME NEW k \in q..n, (Front(k) # Edge(k))', (Remaining(Edge(k)) >= HeaderWords)',
                 (head_publish <= Edge(k))'
          PROVE  (Word(Edge(k)) = WrapCell)'
      BY Zenon, <1>3, <2>2, <2>3 DEF Word, WrapCell
    <2> QED BY Zenon, <1>4, <2>1, <2>3 DEF Unread
  <1>5. CASE PushPublishPad
    <2>1. /\ Edge(n) = tail_publish
          /\ Remaining(tail_publish) >= HeaderWords => Word(tail_publish) = WrapCell
          /\ \A k \in 0..n : Edge(k)' = Edge(k)
          /\ \A k \in 0..(n - 1) : Front(k)' = Front(k)
      BY Zenon, <1>5, PadFacts DEF PushPublishPad
    <2>2. log' = log /\ ring' = ring
      BY Zenon, <1>5 DEF PushPublishPad
    <2>3. \A i \in (q + 1)..n : Stored(log[i])'
      BY Zenon, <1>2, <2>2
    <2>4. ASSUME NEW k \in q..n, (Front(k) # Edge(k))', (Remaining(Edge(k)) >= HeaderWords)',
                 (head_publish <= Edge(k))'
          PROVE  (Word(Edge(k)) = WrapCell)'
      <3>1. CASE k \in 0..(n - 1)
        <4>1. k \in 0..n
          BY <1>0, <3>1
        <4> QED BY Zenon, <1>3, <2>1, <2>4, <3>1, <4>1 DEF Word, WrapCell
      <3>2. CASE k = n
        <4>1. Edge(k)' = tail_publish
          BY <1>0, <2>1, <3>2
        <4> QED BY ZenonT(30), <2>1, <2>2, <2>4, <4>1 DEF Word, WrapCell
      <3> QED BY <1>0, <3>1, <3>2
    <2> QED BY Zenon, <2>2, <2>3, <2>4 DEF Unread
  <1>6. CASE PushPublish
    <2>1. /\ Len(log') = n + 1
          /\ \A i \in 1..n : log'[i] = log[i]
          /\ log'[n + 1] = Published
          /\ Published.at = tail_publish /\ Published.size = psize
          /\ Published.msg = Current /\ Published.seq = sequence
          /\ \A k \in 0..n : Edge(k)' = Edge(k) /\ Front(k)' = Front(k)
          /\ \A k \in Nat : k = n + 1 => Edge(k)' = tail_publish' /\ Front(k)' = tail_publish'
      BY Zenon, <1>6, PublishFacts
    <2>2. ring' = ring
      BY Zenon, <1>6 DEF PushPublish
    <2>3. /\ Word(tail_publish) = HeaderCell(psize, Current, FALSE)
          /\ Word(tail_publish + 1) = SequenceCell(sequence)
          /\ \A j \in 1..PayloadWords(psize) :
                Word(tail_publish + 1 + j) = PayloadCell(Current, j)
      BY Zenon, <1>6 DEF PushPublish, Writing
    <2>4. ASSUME NEW i \in (q + 1)..(n + 1) PROVE Stored(log[i])'
      <3>1. CASE i = n + 1
        BY Zenon, <2>1, <2>2, <2>3, <3>1 DEF Stored, Word
      <3>2. CASE i \in (q + 1)..n
        <4>1. i \in 1..n
          BY <1>0, <3>2
        <4> QED BY Zenon, <1>2, <2>1, <3>2, <4>1
      <3> QED BY <1>0, <3>1, <3>2
    <2>5. ASSUME NEW k \in q..(n + 1), (Front(k) # Edge(k))',
                 (Remaining(Edge(k)) >= HeaderWords)', (head_publish <= Edge(k))'
          PROVE  (Word(Edge(k)) = WrapCell)'
      <3>1. k # n + 1
        BY <1>0, <2>1, <2>5
      <3>2. k \in q..n /\ k \in 0..n
        BY <1>0, <3>1
      <3> QED BY Zenon, <1>3, <2>1, <2>5, <3>2 DEF Word, WrapCell
    <2> QED BY Zenon, <2>1, <2>4, <2>5 DEF Unread
  <1> QED BY Zenon, <1>4, <1>5, <1>6, TailSteps

-------------------------------------------------------------------------------
(* The consumer takes over exactly one record, or one stretch of padding.        *)

\* At a record: its header, number and payload are read, and it is complete.
LEMMA SeesRecord ==
    ASSUME TypeOK, Layout, Unread, Reading, NEW k \in Nat, k = Len(popped),
           k < Len(log), head_publish = Front(k)
    PROVE  /\ head_publish = log[k + 1].at
           /\ ~ Skippable
           /\ ring[Pos(head_publish)].kind = "header"
           /\ Header = HeaderCell(log[k + 1].size, log[k + 1].msg, FALSE)
           /\ ring[Pos(head_publish) + 1] = SequenceCell(log[k + 1].seq)
           /\ \A j \in 1..PayloadWords(log[k + 1].size) :
                 ring[Pos(head_publish) + HeaderWords + j - 1] = PayloadCell(log[k + 1].msg, j)
           /\ End(log[k + 1]) <= ctail => ~ Malformed
  <1> DEFINE r == log[k + 1]
             at == r.at
             words == RecordWords(r.size)
  <1>1. /\ k + 1 \in 1..Len(log) /\ k + 1 \in (Len(popped) + 1)..Len(log)
        /\ head_publish = at
    <2>1. Len(log) \in Nat /\ k \in 0..Len(log)
      BY Lengths
    <2> QED BY <2>1, Edges
  <1>2. /\ at \in Nat /\ words \in Nat /\ words >= 2 /\ PayloadWords(r.size) = words - 2
        /\ End(r) = at + words
    BY Zenon, <1>1, RecordType
  <1>3. Pos(at) + words <= Capacity /\ Pos(at) \in 0..(Capacity - 1)
    BY Zenon, <1>1, <1>2, PosQuotient DEF Layout
  <1>4. Stored(r)
    BY Zenon, <1>1 DEF Unread
  <1>5. /\ ring[Pos(at)] = HeaderCell(r.size, r.msg, FALSE)
        /\ ring[Pos(at + 1)] = SequenceCell(r.seq)
        /\ \A j \in 1..PayloadWords(r.size) : ring[Pos(at + 1 + j)] = PayloadCell(r.msg, j)
    BY Zenon, <1>4 DEF Stored, Word
  <1>6. /\ ring[Pos(head_publish)].kind = "header"
        /\ Header = HeaderCell(r.size, r.msg, FALSE)
        /\ Header.wrap = FALSE /\ Header.size = r.size
    BY <1>1, <1>5 DEF Header, HeaderCell
  <1>7. HeaderWords = 2
    BY Zenon, RecordGeometry
  <1> HIDE DEF at, words, r
  <1>8. Remaining(head_publish) = Capacity - Pos(at)
    BY Zenon, <1>1 DEF Remaining
  <1>9. ~ Skippable
    <2>1. ~ (Remaining(head_publish) < HeaderWords)
      BY <1>2, <1>3, <1>7, <1>8, CapacityType
    <2> QED BY Zenon, <1>6, <2>1 DEF Skippable
  <1>10. ring[Pos(head_publish) + 1] = SequenceCell(r.seq)
    <2>1. Pos(at + 1) = Pos(at) + 1
      BY <1>2, <1>3, PosAdd, CapacityType
    <2> QED BY Zenon, <1>1, <1>5, <2>1
  <1>11. ASSUME NEW j \in 1..PayloadWords(r.size)
         PROVE  ring[Pos(head_publish) + HeaderWords + j - 1] = PayloadCell(r.msg, j)
    <2>1. 1 + j \in Nat /\ Pos(at) + (1 + j) < Capacity /\ at + (1 + j) = at + 1 + j
      BY <1>2, <1>3, CapacityType
    <2>2. Pos(at + 1 + j) = Pos(at) + (1 + j)
      BY Zenon, <1>2, <2>1, PosAdd
    <2>3. Pos(head_publish) + HeaderWords + j - 1 = Pos(at) + (1 + j)
      BY <1>1, <1>2, <1>3, <1>7, CapacityType
    <2> QED BY Zenon, <1>5, <2>2, <2>3
  <1>12. ASSUME End(r) <= ctail PROVE ~ Malformed
    <2>1. ctail \in Nat
      BY Zenon, Lengths
    <2>2. ctail >= at /\ ~ (ctail - at < words)
      BY <1>2, <1>12, <2>1
    <2>3. ~ (Sub64(ctail, head_publish, U64) < words)
      BY Zenon, <1>1, <2>2 DEF Sub64
    <2>4. ~ (words > Remaining(head_publish))
      BY <1>2, <1>3, <1>8, CapacityType
    <2>5. RecordWords(Header.size) = words
      BY Zenon, <1>6 DEF words
    <2> QED BY Zenon, <2>3, <2>4, <2>5 DEF Malformed
  <1> QED BY Zenon, <1>1, <1>6, <1>9, <1>10, <1>11, <1>12 DEF r, at

\* In front of padding: it is skipped, exactly.
LEMMA SeesPadding ==
    ASSUME TypeOK, Layout, Unread, Reading, NEW k \in Nat, k = Len(popped),
           head_publish # Front(k)
    PROVE  /\ head_publish = Edge(k) /\ Skippable
           /\ head_publish + Remaining(head_publish) = Front(k)
  <1>1. k \in 0..Len(log) /\ k \in Len(popped)..Len(log)
    BY HeadPlace, Lengths
  <1>2. head_publish = Edge(k)
    BY Zenon DEF Reading
  <1>3. Front(k) = Edge(k) + Remaining(Edge(k)) /\ Edge(k) \in Nat
    BY Zenon, <1>1, <1>2, Edges
  <1>4. Skippable
    <2>1. CASE Remaining(Edge(k)) < HeaderWords
      BY Zenon, <1>2, <2>1 DEF Skippable
    <2>2. CASE ~ (Remaining(Edge(k)) < HeaderWords)
      <3>1. Remaining(Edge(k)) >= HeaderWords /\ head_publish <= Edge(k)
        <4>1. Pos(Edge(k)) \in 0..(Capacity - 1)
          BY Zenon, <1>3, PosQuotient
        <4>2. \A x \in 0..(Capacity - 1) : Capacity - x \in Nat
          BY CapacityType
        <4>3. HeaderWords = 2 /\ Remaining(Edge(k)) \in Nat
          BY Zenon, <4>1, <4>2, ProducerType DEF Remaining
        <4>4. \A x \in Nat : ~ (x < 2) => x >= 2
          OBVIOUS
        <4>5. Remaining(Edge(k)) >= HeaderWords
          BY Zenon, <2>2, <4>3, <4>4
        <4> QED BY <1>2, <1>3, <4>5
      <3>2. ring[Pos(head_publish)] = WrapCell
        BY Zenon, <1>1, <1>2, <3>1 DEF Unread, Word
      <3> QED BY <3>2 DEF Skippable, Header, WrapCell, HeaderCell
    <2> QED BY Zenon, <2>1, <2>2
  <1> QED BY Zenon, <1>2, <1>3, <1>4

\* The consumer's view of the log survives every step it does not take itself.
LEMMA ReadingOthers ==
    ASSUME TypeOK, Layout, Reading, Writing, [Next]_vars,
           UNCHANGED <<consumerVars, head_publish, head_reserve>>
    PROVE  Reading'
  <1> SUFFICES ASSUME NEW k \in Nat, k = Len(popped) PROVE Reading'
    BY Zenon, Lengths
  <1> DEFINE n == Len(log)
  <1>1. /\ n \in Nat /\ k <= n /\ k \in 0..n /\ ctail \in Nat /\ tail_publish \in Nat
        /\ \A i \in 1..k : Intact(popped[i], i)
        /\ head_publish \in {Edge(k), Front(k)}
        /\ cpc = "inspect" =>
            /\ ctail <= tail_publish
            /\ head_publish # Front(k) \/ (k < n /\ End(log[k + 1]) <= ctail)
        /\ cpc \in {"reserve", "publish"} =>
            \/ cgot = <<>> /\ head_publish # Front(k) /\ cnew = Front(k)
            \/ /\ Len(cgot) = 1 /\ k < n
               /\ head_publish = log[k + 1].at /\ cnew = End(log[k + 1])
               /\ Intact(cgot[1], k + 1)
        /\ cdeaths = 0 => head_reserve = IF cpc = "publish" THEN cnew ELSE head_publish
    <2>1. n \in Nat /\ ctail \in Nat /\ tail_publish \in Nat
      BY Zenon, Lengths, ProducerType
    <2>2. k <= n
      BY Zenon DEF Reading
    <2>3. k \in 0..n
      BY <2>1, <2>2
    <2> QED BY Zenon, <2>1, <2>2, <2>3 DEF Reading
  <1>2. /\ UNCHANGED <<popped, cpc, ctail, cnew, cgot, cdeaths, head_publish, head_reserve>>
        /\ k = Len(popped')
    BY Zenon DEF consumerVars
  <1>3. CASE UNCHANGED <<log, tail_publish>>
    <2>1. Edge(k)' = Edge(k) /\ Front(k)' = Front(k)
      BY Zenon, <1>3, PlacesStay
    <2> QED BY Zenon, <1>1, <1>2, <1>3, <2>1 DEF Reading, Intact, End, Edge, Front
  <1>4. CASE PushPublish
    <2>1. /\ Len(log') = n + 1 /\ \A i \in 1..n : log'[i] = log[i]
          /\ tail_publish' >= tail_publish /\ tail_publish' \in Nat
          /\ k < n => k < Len(log')
          /\ Edge(k)' = Edge(k) /\ Front(k)' = Front(k)
      <3>1. /\ tail_publish' = tail_publish + RecordWords(psize)
            /\ \A i \in 0..Len(log) : Edge(i)' = Edge(i) /\ Front(i)' = Front(i)
        BY Zenon, <1>4, PublishFacts
      <3>2. \A a \in Nat, w \in 2..Capacity : a + w >= a /\ a + w \in Nat
        BY CapacityType
      <3>3. tail_publish' >= tail_publish /\ tail_publish' \in Nat
        BY Zenon, <3>1, <3>2, ProducerType
      <3>4. Edge(k)' = Edge(k) /\ Front(k)' = Front(k)
        BY Zenon, <1>1, <3>1
      <3>5. Len(log') = Len(log) + 1 /\ \A i \in 1..Len(log) : log'[i] = log[i]
        BY Zenon, <1>4, PublishFacts
      <3>6. \A m \in Nat : k < m => k < m + 1
        OBVIOUS
      <3>7. k < n => k < Len(log')
        BY Zenon, <1>1, <3>5, <3>6
      <3> QED BY Zenon, <3>3, <3>4, <3>5, <3>7
    <2>2. \A i \in 1..k : Intact(popped[i], i)'
      <3>1. 1..k \subseteq 1..n
        BY <1>1
      <3> QED BY Zenon, <1>1, <1>2, <2>1, <3>1 DEF Intact
    <2>3. k < n => log'[k + 1] = log[k + 1]
      <3>1. \A m \in Nat : k < m => k + 1 \in 1..m
        OBVIOUS
      <3>2. k < n => k + 1 \in 1..n
        BY Zenon, <1>1, <3>1
      <3> QED BY Zenon, <2>1, <3>2
    <2>4. cpc' \in {"reserve", "publish"} =>
              \/ cgot' = <<>> /\ head_publish' # Front(k)' /\ cnew' = Front(k)'
              \/ /\ Len(cgot') = 1 /\ k < Len(log')
                 /\ head_publish' = log'[k + 1].at /\ cnew' = End(log[k + 1])'
                 /\ Intact(cgot[1], k + 1)'
      BY ZenonT(30), <1>1, <1>2, <2>1, <2>3 DEF Intact, End
    <2>5. cpc' = "inspect" =>
              /\ ctail' <= tail_publish'
              /\ head_publish' # Front(k)' \/ (k < Len(log') /\ End(log[k + 1])' <= ctail')
      <3>1. \A c, a, b \in Nat : c <= a /\ b >= a => c <= b
        OBVIOUS
      <3>2. ctail <= tail_publish => ctail' <= tail_publish'
        BY Zenon, <1>1, <1>2, <2>1, <3>1
      <3> QED BY Zenon, <1>1, <1>2, <2>1, <2>3, <3>2 DEF End
    <2>6. k <= Len(log')
      BY <1>1, <2>1
    <2> QED BY ZenonT(30), <2>6, <1>1, <1>2, <2>1, <2>2, <2>4, <2>5 DEF Reading, Intact, End, Edge, Front
  <1>5. CASE PushPublishPad
    <2>1. /\ Edge(n) = tail_publish /\ Front(n) = tail_publish /\ pnew > tail_publish
          /\ \A i \in 0..n : Edge(i)' = Edge(i)
          /\ \A i \in 0..(n - 1) : Front(i)' = Front(i)
          /\ Front(n)' = pnew
          /\ log' = log /\ tail_publish' = pnew /\ pnew \in Nat
      BY Zenon, <1>5, PadFacts, ProducerType DEF PushPublishPad
    <2>2. Edge(k)' = Edge(k)
      BY Zenon, <1>1, <2>1
    <2>3. k < n => Front(k)' = Front(k)
      BY <1>1, <2>1
    <2>4. k = n => /\ head_publish = Edge(k) /\ head_publish = Front(k)
                   /\ head_publish # Front(k)'
      BY <1>1, <2>1 DEF Front
    <2>5. k < n \/ k = n
      BY <1>1
    <2>6. head_publish' \in {Edge(k)', Front(k)'}
      BY Zenon, <1>1, <1>2, <2>2, <2>3, <2>4, <2>5
    <2>7. cpc' = "inspect" =>
              /\ ctail' <= tail_publish'
              /\ head_publish' # Front(k)' \/ (k < Len(log') /\ End(log[k + 1])' <= ctail')
      BY <1>1, <1>2, <2>1, <2>3, <2>4, <2>5 DEF End
    <2>8. cpc' \in {"reserve", "publish"} =>
              \/ cgot' = <<>> /\ head_publish' # Front(k)' /\ cnew' = Front(k)'
              \/ /\ Len(cgot') = 1 /\ k < Len(log')
                 /\ head_publish' = log'[k + 1].at /\ cnew' = End(log[k + 1])'
                 /\ Intact(cgot[1], k + 1)'
      BY Zenon, <1>1, <1>2, <2>1, <2>3, <2>4, <2>5 DEF Intact, End
    <2> QED BY ZenonT(30), <1>1, <1>2, <2>1, <2>6, <2>7, <2>8 DEF Reading, Intact, End, Edge, Front
  <1> QED BY Zenon, <1>3, <1>4, <1>5, TailSteps

\* What try_pop copies at a record is that record.
LEMMA ReadsRecord ==
    ASSUME TypeOK, Layout, Unread, Reading, PopRead, NEW k \in Nat, k = Len(popped)
    PROVE  /\ cpc' = "reserve" /\ Len(cgot') = 1 /\ k < Len(log)
           /\ head_publish = log[k + 1].at /\ cnew' = End(log[k + 1])
           /\ cgot'[1].type = log[k + 1].msg
           /\ cgot'[1].payload = Payload(log[k + 1].msg, log[k + 1].size)
           /\ cgot'[1].sequence = SequenceCell(log[k + 1].seq)
  <1> DEFINE r == log[k + 1]
             payload == [i \in 1..PayloadWords(Header.size) |->
                             ring[Pos(head_publish) + HeaderWords + i - 1]]
             got == [type |-> Header.type, sequence |-> ring[Pos(head_publish) + 1],
                     payload |-> payload]
  <1>1. cpc = "inspect" /\ ~ Skippable
    BY Zenon DEF PopRead
  <1>2. head_publish = Front(k)
    BY Zenon, <1>1, SeesPadding
  <1>3. k < Len(log) /\ End(r) <= ctail
    BY Zenon, <1>1, <1>2 DEF Reading
  <1>4. /\ head_publish = r.at /\ ~ Malformed
        /\ Header = HeaderCell(r.size, r.msg, FALSE)
        /\ ring[Pos(head_publish) + 1] = SequenceCell(r.seq)
        /\ \A j \in 1..PayloadWords(r.size) :
              ring[Pos(head_publish) + HeaderWords + j - 1] = PayloadCell(r.msg, j)
    BY ZenonT(30), <1>2, <1>3, SeesRecord
  <1>5. Header.size = r.size /\ Header.type = r.msg
    BY Zenon, <1>4 DEF HeaderCell
  <1>6. /\ cpc' = "reserve" /\ cgot' = <<got>>
        /\ cnew' = head_publish + RecordWords(Header.size)
    BY Zenon, <1>4 DEF PopRead
  <1>7. payload = Payload(r.msg, r.size)
    BY ZenonT(30), <1>4, <1>5 DEF Payload
  <1>8. Len(cgot') = 1 /\ cgot'[1] = got
    <2> HIDE DEF got
    <2> QED BY Zenon, <1>6
  <1>9. cnew' = End(r)
    BY Zenon, <1>4, <1>5, <1>6 DEF End
  <1>10. /\ got.type = r.msg /\ got.payload = Payload(r.msg, r.size)
         /\ got.sequence = SequenceCell(r.seq)
    BY Zenon, <1>4, <1>5, <1>7
  <1> QED BY Zenon, <1>3, <1>4, <1>6, <1>8, <1>9, <1>10

\* Giving words back moves the head over one record or one stretch of padding.
LEMMA GivesBack ==
    ASSUME TypeOK, Layout, Reading, PopStorePublish, NEW k \in Nat, k = Len(popped)
    PROVE  /\ head_publish' \in Nat /\ head_publish' > head_publish
           /\ head_publish' <= tail_publish
           /\ \/ popped' = popped /\ head_publish' = Front(k)
              \/ /\ k < Len(log) /\ head_publish' = End(log[k + 1])
                 /\ popped' \in Seq(Records) /\ Len(popped') = k + 1
                 /\ \A i \in 1..k : popped'[i] = popped[i]
                 /\ popped'[k + 1] = cgot[1] /\ Intact(cgot[1], k + 1)
  <1>1. /\ k \in 0..Len(log) /\ Edge(k) <= head_publish /\ head_publish <= Front(k)
        /\ head_publish \in Nat /\ tail_publish \in Nat /\ Len(log) \in Nat
    BY Zenon, HeadPlace, ProducerType, Lengths
  <1>2. Front(k) \in Nat /\ Front(k) <= tail_publish
    BY Zenon, <1>1, Edges
  <1>3. /\ popped \in Seq(Records) /\ cgot \in Seq(Records)
        /\ head_publish' = cnew /\ popped' = popped \o cgot /\ cpc = "publish"
    BY Zenon DEF TypeOK, PopStorePublish
  <1>4. CASE cgot = <<>> /\ head_publish # Front(k) /\ cnew = Front(k)
    <2>1. popped' = popped
      BY <1>3, <1>4, ConcatFacts
    <2> QED BY <1>1, <1>2, <1>3, <1>4, <2>1
  <1>5. CASE /\ Len(cgot) = 1 /\ k < Len(log)
             /\ head_publish = log[k + 1].at /\ cnew = End(log[k + 1])
             /\ Intact(cgot[1], k + 1)
    <2>1. k + 1 \in 1..Len(log)
      BY <1>1, <1>5
    <2>2. /\ log[k + 1].at \in Nat /\ End(log[k + 1]) \in Nat
          /\ End(log[k + 1]) = log[k + 1].at + RecordWords(log[k + 1].size)
          /\ RecordWords(log[k + 1].size) \in Nat /\ RecordWords(log[k + 1].size) >= 2
      BY Zenon, <2>1, RecordType
    <2>3. End(log[k + 1]) <= tail_publish
      BY Zenon, <2>1 DEF Layout
    <2>4. /\ popped' \in Seq(Records) /\ Len(popped') = k + 1
          /\ \A i \in 1..k : popped'[i] = popped[i]
          /\ popped'[k + 1] = cgot[1]
      <3> HIDE DEF Records
      <3>1. Len(cgot) = 1 /\ Len(<<>>) = 0
        BY Zenon, <1>5
      <3>2. Len(cgot) <= 1 /\ cgot # <<>>
        BY <3>1
      <3>3. popped \o cgot \in Seq(Records)
        BY <1>3
      <3>4. /\ Len(popped \o cgot) = k + 1
            /\ \A i \in 1..k : (popped \o cgot)[i] = popped[i]
            /\ (popped \o cgot)[k + 1] = cgot[1]
        BY Zenon, <1>3, <3>2, ConcatFacts
      <3> QED BY Zenon, <1>3, <3>3, <3>4
    <2>5. head_publish' \in Nat /\ head_publish' > head_publish
      BY <1>3, <1>5, <2>2
    <2> QED BY Zenon, <1>3, <1>5, <2>3, <2>4, <2>5
  <1> QED BY Zenon, <1>3, <1>4, <1>5 DEF Reading

\* The consumer's own steps.
LEMMA ReadingConsumer ==
    ASSUME TypeOK, Layout, Unread, Reading, Consumer \/ ConsumerDies
    PROVE  Reading'
  <1> SUFFICES ASSUME NEW k \in Nat, k = Len(popped) PROVE Reading'
    BY Zenon, Lengths
  <1> DEFINE n == Len(log)
             Moves ==
                 \/ cgot = <<>> /\ head_publish # Front(k) /\ cnew = Front(k)
                 \/ /\ Len(cgot) = 1 /\ k < n
                    /\ head_publish = log[k + 1].at /\ cnew = End(log[k + 1])
                    /\ Intact(cgot[1], k + 1)
  <1>1. /\ n \in Nat /\ k <= n /\ k \in 0..n /\ ctail \in Nat /\ tail_publish \in Nat
        /\ \A i \in 1..k : Intact(popped[i], i)
        /\ head_publish \in {Edge(k), Front(k)}
        /\ cpc = "inspect" =>
            /\ ctail <= tail_publish
            /\ head_publish # Front(k) \/ (k < n /\ End(log[k + 1]) <= ctail)
        /\ cpc \in {"reserve", "publish"} => Moves
        /\ cdeaths = 0 => head_reserve = IF cpc = "publish" THEN cnew ELSE head_publish
    BY Lengths, ProducerType DEF Reading
  <1>2. UNCHANGED <<log, tail_publish>>
    BY Zenon DEF Consumer, Open, PopLoadTail, PopSkip, PopRead, PopStoreReserve,
           PopStorePublish, ConsumerDies, fileVars, producerVars
  <1>3. Edge(k)' = Edge(k) /\ Front(k)' = Front(k)
    BY Zenon, <1>2, PlacesStay
  <1>4. ASSUME popped' = popped, head_publish' = head_publish,
               cpc' = "inspect" =>
                  /\ ctail' <= tail_publish
                  /\ head_publish # Front(k) \/ (k < n /\ End(log[k + 1]) <= ctail'),
               cpc' \in {"reserve", "publish"} =>
                  \/ cgot' = <<>> /\ head_publish # Front(k) /\ cnew' = Front(k)
                  \/ /\ Len(cgot') = 1 /\ k < n
                     /\ head_publish = log[k + 1].at /\ cnew' = End(log[k + 1])
                     /\ cgot'[1].type = log[k + 1].msg
                     /\ cgot'[1].payload = Payload(log[k + 1].msg, log[k + 1].size)
                     /\ cgot'[1].sequence = SequenceCell(log[k + 1].seq),
               cdeaths' = 0 =>
                  head_reserve' = IF cpc' = "publish" THEN cnew' ELSE head_publish
        PROVE  Reading'
    BY ZenonT(30), <1>1, <1>2, <1>3, <1>4 DEF Reading, Intact, End, Edge, Front
  <1> USE DEF fileVars, producerVars
  <1>5. CASE Open
    BY ZenonT(30), <1>1, <1>4, <1>5 DEF Open
  <1>6. CASE ConsumerDies
    <2>1. cdeaths' # 0
      BY <1>6 DEF ConsumerDies, TypeOK
    <2> QED BY Zenon, <1>4, <1>6, <2>1 DEF ConsumerDies
  <1>7. CASE PopLoadTail
    <2>1. ASSUME head_publish # tail_publish, head_publish = Front(k)
          PROVE  k < n /\ End(log[k + 1]) <= tail_publish
      <3>1. k < n
        BY Zenon, <1>1, <2>1 DEF Front
      <3>2. k + 1 \in 1..n
        BY <1>1, <3>1
      <3> QED BY Zenon, <3>1, <3>2 DEF Layout
    <2>2. /\ popped' = popped /\ head_publish' = head_publish /\ ctail' = tail_publish
          /\ cpc' = "inspect" => head_publish # tail_publish
          /\ cpc' \in {"inspect", "load_tail"} /\ cpc = "load_tail"
          /\ UNCHANGED <<cdeaths, head_reserve>>
      BY Zenon, <1>7 DEF PopLoadTail
    <2>3. tail_publish <= tail_publish
      BY <1>1
    <2> QED BY Zenon, <1>1, <1>4, <2>1, <2>2, <2>3
  <1>8. CASE PopSkip
    <2>1. /\ cpc = "inspect" /\ Skippable /\ cnew' = head_publish + Remaining(head_publish)
          /\ cgot' = <<>> /\ cpc' = "reserve" /\ popped' = popped
          /\ UNCHANGED <<head_publish, cdeaths, head_reserve>>
      BY Zenon, <1>8 DEF PopSkip
    <2>2. head_publish # Front(k)
      BY Zenon, <1>1, <2>1, SeesRecord
    <2>3. cnew' = Front(k)
      BY Zenon, <2>1, <2>2, SeesPadding
    <2> QED BY Zenon, <1>1, <1>4, <2>1, <2>2, <2>3
  <1>9. CASE PopRead
    <2>1. /\ cpc = "inspect" /\ popped' = popped
          /\ UNCHANGED <<head_publish, cdeaths, head_reserve>>
      BY Zenon, <1>9 DEF PopRead
    <2>2. /\ cpc' = "reserve" /\ Len(cgot') = 1 /\ k < Len(log)
          /\ head_publish = log[k + 1].at /\ cnew' = End(log[k + 1])
          /\ cgot'[1].type = log[k + 1].msg
          /\ cgot'[1].payload = Payload(log[k + 1].msg, log[k + 1].size)
          /\ cgot'[1].sequence = SequenceCell(log[k + 1].seq)
      BY Zenon, <1>9, ReadsRecord
    <2>3. cdeaths' = 0 => head_reserve' = head_publish
      BY Zenon, <1>1, <2>1
    <2> QED BY Zenon, <1>4, <2>1, <2>2, <2>3
  <1>10. CASE PopStoreReserve
    <2>1. Moves
      BY Zenon, <1>1, <1>10 DEF PopStoreReserve
    <2>2. /\ cpc' = "publish" /\ head_reserve' = cnew
          /\ UNCHANGED <<popped, head_publish, cgot, cnew>>
      BY Zenon, <1>10 DEF PopStoreReserve
    <2> QED BY Zenon, <1>4, <2>1, <2>2 DEF Intact
  <1>11. CASE PopStorePublish
    <2>1. /\ cpc = "publish" /\ cpc' = "load_tail" /\ head_publish' = cnew
          /\ UNCHANGED <<cdeaths, head_reserve>>
      BY Zenon, <1>11 DEF PopStorePublish
    <2>2. cdeaths' = 0 => head_reserve' = head_publish'
      BY Zenon, <1>1, <2>1
    <2>3. CASE popped' = popped /\ head_publish' = Front(k)
      BY ZenonT(30), <1>1, <1>2, <1>3, <2>1, <2>2, <2>3 DEF Reading, Intact, End, Edge, Front
    <2>4. CASE /\ k < n /\ head_publish' = End(log[k + 1])
               /\ popped' \in Seq(Records) /\ Len(popped') = k + 1
               /\ \A i \in 1..k : popped'[i] = popped[i]
               /\ popped'[k + 1] = cgot[1] /\ Intact(cgot[1], k + 1)
      <3>1. \A i \in 1..(k + 1) : Intact(popped[i], i)'
        <4>1. \A i \in 1..(k + 1) : i \in 1..k \/ i = k + 1
          OBVIOUS
        <4> QED BY ZenonT(30), <1>1, <1>2, <2>4, <4>1 DEF Intact
      <3>0. \A m \in Nat : k < m => k + 1 <= m /\ k + 1 \in Nat
        OBVIOUS
      <3>a. k + 1 # 0
        OBVIOUS
      <3>2. \A m \in Nat : m = k + 1 => head_publish' = Edge(m)'
        BY Zenon, <1>2, <2>4, <3>a DEF Edge, End
      <3>3. k + 1 <= n /\ k + 1 \in Nat
        BY Zenon, <1>1, <2>4, <3>0
      <3> QED BY ZenonT(30), <1>2, <2>1, <2>2, <2>4, <3>1, <3>2, <3>3
              DEF Reading, Intact, End, Edge, Front
    <2> QED BY Zenon, <1>11, <2>3, <2>4, GivesBack
  <1> QED BY Zenon, <1>5, <1>6, <1>7, <1>8, <1>9, <1>10, <1>11 DEF Consumer

\* The consumer is at a record or at padding, at every step.
LEMMA ReadingStep ==
    ASSUME TypeOK, Layout, Unread, Reading, Writing, [Next]_vars
    PROVE  Reading'
  <1>1. CASE Consumer \/ ConsumerDies
    BY Zenon, <1>1, ReadingConsumer
  <1>2. CASE Producer \/ ProducerDies \/ UNCHANGED vars
    <2>1. UNCHANGED <<consumerVars, head_publish, head_reserve>>
      BY Zenon, <1>2 DEF Producer, Claim, PushCall, PushLoadHead, PushReject, PushPad,
              PushWriteHeader, PushWritePayload, PushNumber, PushStoreReserve,
              PushPublishPad, PushPublish, ProducerDies, vars, fileVars
    <2> QED BY Zenon, <2>1, ReadingOthers
  <1> QED BY Zenon, <1>1, <1>2 DEF Next

-------------------------------------------------------------------------------
(* What the producer has written beyond tail_publish.                            *)

\* The consumer's steps leave it alone and only raise the head.
LEMMA HeadAdvances ==
    ASSUME TypeOK, Layout, Reading, [Next]_vars
    PROVE  /\ head_publish' \in Nat /\ head_publish' >= head_publish
           /\ Len(popped') \in Nat /\ Len(popped') >= Len(popped)
           /\ PopStorePublish \/ UNCHANGED <<head_publish, popped>>
  <1>0. head_publish \in Nat /\ Len(popped) \in Nat
    BY Zenon, ProducerType, Lengths
  <1>1. CASE PopStorePublish
    <2> SUFFICES ASSUME NEW k \in Nat, k = Len(popped)
                 PROVE  /\ head_publish' \in Nat /\ head_publish' >= head_publish
                        /\ Len(popped') \in Nat /\ Len(popped') >= Len(popped)
      BY Zenon, <1>0, <1>1
    <2>1. /\ head_publish' \in Nat /\ head_publish' > head_publish
          /\ popped' = popped \/ Len(popped') = k + 1
      BY Zenon, <1>1, GivesBack
    <2> QED BY <1>0, <2>1
  <1>2. CASE ~ PopStorePublish
    <2>1. UNCHANGED <<head_publish, popped>>
      BY ZenonT(30), <1>2 DEF Next, Producer, Claim, PushCall, PushLoadHead, PushReject, PushPad,
              PushWriteHeader, PushWritePayload, PushNumber, PushStoreReserve,
              PushPublishPad, PushPublish, ProducerDies, Consumer, Open, PopLoadTail,
              PopSkip, PopRead, PopStoreReserve, ConsumerDies, vars, fileVars, consumerVars
    <2> QED BY <1>0, <2>1
  <1> QED BY Zenon, <1>1, <1>2

\* A step that is not the producer's.
LEMMA WritingOthers ==
    ASSUME TypeOK, Writing, head_publish' \in Nat, head_publish' >= head_publish,
           UNCHANGED <<producerVars, tail_reserve, tail_publish, sequence, ring>>
    PROVE  Writing'
  <1>1. phead <= head_publish => phead <= head_publish'
    BY ProducerType
  <1>2. UNCHANGED <<ppc, psize, phead, pnew, pmsg, tail_reserve, tail_publish, sequence, ring>>
    BY Zenon DEF producerVars
  <1> QED BY ZenonT(30), <1>1, <1>2 DEF Writing, Word, Current

\* The words of the record being written: the stores follow each other.
LEMMA WritingStores ==
    ASSUME TypeOK, CursorOrder, Writing,
           PushPad \/ PushWriteHeader \/ PushWritePayload \/ PushNumber
    PROVE  Writing'
  <1> DEFINE words == RecordWords(psize)
             tail == tail_publish
  <1>0. /\ tail \in Nat /\ head_publish \in Nat /\ phead \in Nat /\ words \in 2..Capacity
        /\ PayloadWords(psize) = words - 2 /\ head_publish <= tail
    BY Zenon, ProducerType DEF CursorOrder
  <1>1. CASE PushPad
    <2>1. /\ ppc = "decide" /\ ppc' = "reserve_pad" /\ pnew' = tail_publish + Pad
          /\ UNCHANGED <<head_publish, tail_reserve, tail_publish, psize, phead, pmsg>>
          /\ ~ Refused /\ Pad > 0
      BY Zenon, <1>1 DEF PushPad
    <2>2. /\ Pad = Remaining(tail_publish) /\ Pos(tail_publish) # 0
          /\ tail_publish + Pad <= phead + Capacity
      BY Zenon, <2>1, RoomComputed
    <2>3. Remaining(tail_publish) >= HeaderWords => ring'[Pos(tail_publish)] = WrapCell
      BY Zenon, <1>1, WrapStored
    <2>4. /\ psize \in Sizes /\ pmsg <= MaxPush /\ phead <= head_publish
          /\ tail_reserve = tail_publish
      BY Zenon, <2>1 DEF Writing
    <2> QED BY ZenonT(30), <2>1, <2>2, <2>3, <2>4 DEF Writing, Word, WrapCell
  <1>2. CASE PushWriteHeader
    <2>1. /\ ppc = "decide" /\ ppc' = "payload"
          /\ UNCHANGED <<head_publish, tail_reserve, tail_publish, psize, phead, pmsg>>
          /\ ~ Refused /\ Pad = 0
      BY Zenon, <1>2 DEF PushWriteHeader
    <2>2. /\ Pos(tail_publish) + words <= Capacity
          /\ tail_publish + words <= phead + Capacity
      BY Zenon, <2>1, RoomComputed
    <2>3. ring'[Pos(tail_publish)] = HeaderCell(psize, Current, FALSE)
      BY Zenon, <1>2, HeaderStored
    <2>4. /\ psize \in Sizes /\ pmsg <= MaxPush /\ phead <= head_publish
          /\ tail_reserve = tail_publish
      BY Zenon, <2>1 DEF Writing
    <2> QED BY Zenon, <2>1, <2>2, <2>3, <2>4 DEF Writing, Word, Current
  <1>3. CASE PushWritePayload
    <2>1. /\ ppc = "payload" /\ ppc' = "number"
          /\ UNCHANGED <<head_publish, tail_reserve, tail_publish, psize, phead, pmsg>>
      BY Zenon, <1>3 DEF PushWritePayload
    <2>2. \A j \in 1..PayloadWords(psize) :
              ring'[Pos(tail_publish + 1 + j)] = PayloadCell(Current, j)
      BY Zenon, <1>3, PayloadStored
    <2>3. ring'[Pos(tail_publish)] = ring[Pos(tail_publish)]
      <3>1. tail_publish < tail_publish + 2
        BY <1>0
      <3> QED BY Zenon, <1>0, <1>3, <3>1, PayloadStored
    <2>4. /\ psize \in Sizes /\ pmsg <= MaxPush /\ phead <= head_publish
          /\ tail_reserve = tail_publish
          /\ Pos(tail_publish) + words <= Capacity
          /\ tail_publish + words <= phead + Capacity
          /\ ring[Pos(tail_publish)] = HeaderCell(psize, Current, FALSE)
      BY ZenonT(30), <2>1 DEF Writing, Word
    <2> QED BY Zenon, <2>1, <2>2, <2>3, <2>4 DEF Writing, Word, Current
  <1>4. CASE PushNumber
    <2>1. /\ ppc = "number" /\ ppc' = "reserve" /\ sequence' = sequence + 1
          /\ pnew' = tail_publish + words
          /\ UNCHANGED <<head_publish, tail_reserve, tail_publish, psize, phead, pmsg>>
      BY Zenon, <1>4 DEF PushNumber
    <2>2. /\ psize \in Sizes /\ pmsg <= MaxPush /\ phead <= head_publish
          /\ tail_reserve = tail_publish
          /\ Pos(tail_publish) + words <= Capacity
          /\ tail_publish + words <= phead + Capacity
          /\ ring[Pos(tail_publish)] = HeaderCell(psize, Current, FALSE)
          /\ \A j \in 1..PayloadWords(psize) :
                ring[Pos(tail_publish + 1 + j)] = PayloadCell(Current, j)
      BY ZenonT(30), <2>1 DEF Writing, Word
    <2>3. \A c \in Nat : tail <= c /\ c < tail + words /\ c # tail + 1
                             => ring'[Pos(c)] = ring[Pos(c)]
      <3> SUFFICES ASSUME NEW c \in Nat, tail <= c, c < tail + words, c # tail + 1
                   PROVE  ring'[Pos(c)] = ring[Pos(c)]
        BY Zenon
      <3>1. head_publish <= c /\ c < head_publish + Capacity
        BY <1>0, <2>2, CapacityType
      <3> QED BY ZenonT(30), <1>4, <3>1, NumberStored
    <2>4. ring'[Pos(tail_publish)] = ring[Pos(tail_publish)]
      <3>1. tail <= tail /\ tail < tail + words /\ tail # tail + 1
        BY <1>0
      <3> QED BY Zenon, <1>0, <2>3, <3>1
    <2>5. ASSUME NEW j \in 1..PayloadWords(psize)
          PROVE  ring'[Pos(tail_publish + 1 + j)] = PayloadCell(Current, j)
      <3>1. /\ tail + 1 + j \in Nat /\ tail <= tail + 1 + j /\ tail + 1 + j < tail + words
            /\ tail + 1 + j # tail + 1
        BY <1>0
      <3> QED BY Zenon, <2>2, <2>3, <3>1
    <2>6. ring'[Pos(tail_publish + 1)] = SequenceCell(sequence')
      BY Zenon, <1>4, <2>1, NumberStored
    <2> QED BY Zenon, <2>1, <2>2, <2>4, <2>5, <2>6 DEF Writing, Word, Current
  <1> QED BY Zenon, <1>1, <1>2, <1>3, <1>4

\* The producer writes only beyond what is published, up to the head it loaded.
LEMMA WritingStep ==
    ASSUME TypeOK, CursorOrder, Layout, Reading, Writing, [Next]_vars
    PROVE  Writing'
  <1> USE DEF fileVars, producerVars, consumerVars
  <1>1. CASE Claim
    BY Zenon, <1>1 DEF Claim, Writing
  <1>2. ASSUME NEW size \in Sizes, PushCall(size) PROVE Writing'
    BY ZenonT(30), <1>2 DEF PushCall, Writing
  <1>3. CASE PushLoadHead
    <2>1. head_publish <= head_publish
      BY ProducerType
    <2> QED BY Zenon, <1>3, <2>1 DEF PushLoadHead, Writing
  <1>4. CASE PushReject
    BY Zenon, <1>4 DEF PushReject, Writing
  <1>5. CASE PushPad \/ PushWriteHeader \/ PushWritePayload \/ PushNumber
    BY Zenon, <1>5, WritingStores
  <1>6. CASE PushStoreReserve
    BY ZenonT(30), <1>6 DEF PushStoreReserve, Writing, Word, Current
  <1>7. CASE PushPublishPad
    BY Zenon, <1>7 DEF PushPublishPad, Writing
  <1>8. CASE PushPublish
    BY ZenonT(30), <1>8 DEF PushPublish, Writing
  <1>9. CASE ProducerDies
    BY Zenon, <1>9 DEF ProducerDies, Writing
  <1>10. CASE Consumer \/ ConsumerDies \/ UNCHANGED vars
    <2>1. UNCHANGED <<producerVars, tail_reserve, tail_publish, sequence, ring>>
      BY Zenon, <1>10 DEF Consumer, Open, PopLoadTail, PopSkip, PopRead, PopStoreReserve,
               PopStorePublish, ConsumerDies, vars
    <2> QED BY Zenon, <2>1, HeadAdvances, WritingOthers
  <1> QED BY Zenon, <1>1, <1>2, <1>3, <1>4, <1>5, <1>6, <1>7, <1>8, <1>9, <1>10 DEF Next, Producer

\* The published words stay within one ring from the head.
LEMMA CursorOrderStep ==
    ASSUME TypeOK, CursorOrder, Layout, Reading, Writing, [Next]_vars
    PROVE  CursorOrder'
  <1>0. /\ tail_publish \in Nat /\ head_publish \in Nat /\ phead \in Nat /\ pnew \in Nat
        /\ RecordWords(psize) \in Nat /\ Capacity \in Nat
        /\ head_publish <= tail_publish /\ tail_publish <= head_publish + Capacity
    BY ProducerType, CapacityType DEF CursorOrder
  <1>1. CASE PopStorePublish
    <2>1. head_publish' \in Nat /\ head_publish' > head_publish /\ head_publish' <= tail_publish
      <3>1. Len(popped) \in Nat
        BY Zenon, Lengths
      <3> QED BY ZenonT(30), <1>1, <3>1, GivesBack
    <2>2. tail_publish' = tail_publish
      BY Zenon, <1>1 DEF PopStorePublish
    <2>3. tail_publish <= head_publish' + Capacity
      <3>1. \A t, h, g, c \in Nat : t <= h + c /\ g > h => t <= g + c
        OBVIOUS
      <3> QED BY Zenon, <1>0, <2>1, <3>1
    <2> QED BY Zenon, <2>1, <2>2, <2>3 DEF CursorOrder
  <1>2. CASE PushPublish
    <2>1. /\ tail_publish' = pnew /\ head_publish' = head_publish
          /\ pnew = tail_publish + RecordWords(psize)
          /\ tail_publish + RecordWords(psize) <= phead + Capacity /\ phead <= head_publish
      BY Zenon, <1>2 DEF PushPublish, Writing
    <2> QED BY <1>0, <2>1 DEF CursorOrder
  <1>3. CASE PushPublishPad
    <2>1. /\ tail_publish' = pnew /\ head_publish' = head_publish /\ phead <= head_publish
          /\ ppc = "publish_pad"
      BY Zenon, <1>3 DEF PushPublishPad, Writing
    <2>2. pnew > tail_publish /\ pnew <= phead + Capacity
      BY Zenon, <2>1, PadFacts
    <2> QED BY <1>0, <2>1, <2>2 DEF CursorOrder
  <1>4. CASE UNCHANGED <<tail_publish, head_publish>>
    BY Zenon, <1>0, <1>4 DEF CursorOrder
  <1> QED BY Zenon, <1>1, <1>2, <1>3, <1>4, TailSteps, HeadAdvances

\* Every number goes into the log or is lost in a death.
LEMMA NumbersStep ==
    ASSUME TypeOK, Layout, Writing, Numbers, [Next]_vars
    PROVE  Numbers'
  <1> DEFINE taken == IF ppc \in {"reserve", "publish"} THEN sequence - 1 ELSE sequence
             n == Len(log)
  <1>0. /\ n \in Nat /\ sequence \in Nat /\ pdeaths \in Nat
        /\ taken - n \in 0..pdeaths /\ taken \in Int
        /\ n > 0 => log[n].seq <= taken
        /\ GapsAreDeaths
        /\ \A i \in 1..n : log[i].seq \in Nat
    <2>1. n \in Nat /\ sequence \in Nat /\ pdeaths \in Nat
      BY Lengths, ProducerType, BoundsAssumption DEF TypeOK
    <2>2. \A i \in 1..n : log[i].seq \in Nat
      BY Zenon, RecordType
    <2> QED BY <2>1, <2>2 DEF Numbers
  <1>1. ASSUME UNCHANGED <<log, pdeaths>>, taken' = taken PROVE Numbers'
    BY Zenon, <1>0, <1>1 DEF Numbers, GapsAreDeaths
  <1>2. CASE PushPublish
    <2>1. /\ ppc = "publish" /\ ppc' = "idle" /\ UNCHANGED <<sequence, pdeaths>>
          /\ taken = sequence - 1 /\ taken' = sequence
      BY Zenon, <1>2 DEF PushPublish
    <2>2. /\ Len(log') = n + 1 /\ \A i \in 1..n : log'[i] = log[i]
          /\ log'[n + 1].seq = sequence
      BY Zenon, <1>2, PublishFacts
    <2>3. taken' - Len(log') \in 0..pdeaths'
      BY <1>0, <2>1, <2>2
    <2>4. log'[Len(log')].seq <= taken'
      BY <1>0, <2>1, <2>2
    <2>5. ASSUME NEW i \in 1..(n + 1)
          PROVE  /\ i > 1 => log'[i - 1].seq < log'[i].seq
                 /\ log'[i].seq - i \in 0..pdeaths
      <3>1. CASE i \in 1..n
        <4>1. i > 1 => i - 1 \in 1..n
          BY <1>0, <3>1
        <4> QED BY Zenon, <1>0, <2>2, <3>1, <4>1 DEF GapsAreDeaths
      <3>2. CASE i = n + 1
        <4>1. i > 1 => n \in 1..n /\ i - 1 = n /\ log'[n] = log[n] /\ log[n].seq < sequence
          BY <1>0, <2>1, <2>2, <3>2
        <4>2. log'[i].seq = sequence /\ sequence - i = taken - n
          BY <1>0, <2>1, <2>2, <3>2
        <4> QED BY Zenon, <1>0, <4>1, <4>2
      <3> QED BY <1>0, <3>1, <3>2
    <2> QED BY Zenon, <2>1, <2>2, <2>3, <2>4, <2>5 DEF Numbers, GapsAreDeaths
  <1>3. CASE ProducerDies
    <2>1. /\ log' = log /\ pdeaths' = pdeaths + 1 /\ sequence' = sequence /\ ppc' = "down"
      BY Zenon, <1>3 DEF ProducerDies, fileVars
    <2>2. taken' = sequence /\ taken' - n \in 0..(pdeaths + 1) /\ taken <= taken'
      BY <1>0, <2>1
    <2>3. n > 0 => n \in 1..n /\ log[n].seq \in Nat
      BY <1>0
    <2>4. n > 0 => log[n].seq <= taken'
      BY <1>0, <2>2, <2>3
    <2>5. \A i \in 1..n : log[i].seq - i \in 0..(pdeaths + 1)
      BY <1>0 DEF GapsAreDeaths
    <2> QED BY Zenon, <1>0, <2>1, <2>2, <2>4, <2>5 DEF Numbers, GapsAreDeaths
  <1>4. CASE PushNumber
    <2>1. /\ log' = log /\ pdeaths' = pdeaths /\ sequence' = sequence + 1
          /\ ppc = "number" /\ ppc' = "reserve"
      BY Zenon, <1>4 DEF PushNumber
    <2>2. taken' = taken
      BY <1>0, <2>1
    <2> QED BY Zenon, <1>1, <2>1, <2>2
  <1>5. CASE ~ (PushPublish \/ ProducerDies \/ PushNumber)
    <2>1. /\ UNCHANGED <<log, pdeaths, sequence>>
          /\ ppc' \in {"reserve", "publish"} <=> ppc \in {"reserve", "publish"}
      BY Zenon, <1>5 DEF Next, Producer, Claim, PushCall, PushLoadHead, PushReject, PushPad,
              PushWriteHeader, PushWritePayload, PushStoreReserve, PushPublishPad,
              Consumer, Open, PopLoadTail, PopSkip, PopRead, PopStoreReserve,
              PopStorePublish, ConsumerDies, vars, fileVars, producerVars
    <2>2. taken' = taken
      BY Zenon, <2>1
    <2> QED BY Zenon, <1>1, <2>1, <2>2
  <1> QED BY Zenon, <1>2, <1>3, <1>4, <1>5

-------------------------------------------------------------------------------
(* The inductive invariant. *)

LEMMA RingInit == Init => RingInv
  <1> SUFFICES ASSUME Init PROVE RingInv
    OBVIOUS
  <1>1. TypeOK
    BY Zenon, TypeInit
  <1>2. /\ log = <<>> /\ popped = <<>> /\ Len(log) = 0 /\ Len(popped) = 0
        /\ head_publish = 0 /\ tail_publish = 0 /\ head_reserve = 0 /\ tail_reserve = 0
        /\ cpc = "down" /\ ppc = "down" /\ sequence = 0 /\ pdeaths = 0
    BY Zenon DEF Init
  <1>3. CursorOrder
    BY <1>2, CapacityType DEF CursorOrder
  <1>4. \A k \in 0..0 : Edge(k) = 0 /\ Front(k) = 0
    BY <1>2 DEF Edge, Front
  <1>5. Layout
    BY <1>2, <1>4 DEF Layout
  <1>6. Unread
    BY <1>2, <1>4 DEF Unread
  <1>7. Reading
    BY <1>2 DEF Reading, Edge
  <1>8. Writing
    BY Zenon, <1>2 DEF Writing
  <1>9. Numbers
    BY <1>2 DEF Numbers, GapsAreDeaths
  <1> QED BY Zenon, <1>1, <1>3, <1>5, <1>6, <1>7, <1>8, <1>9 DEF RingInv

LEMMA RingStep == RingInv /\ [Next]_vars => RingInv'
  <1> SUFFICES ASSUME RingInv, [Next]_vars PROVE RingInv'
    BY Zenon
  <1>0. TypeOK /\ CursorOrder /\ Layout /\ Unread /\ Reading /\ Writing /\ Numbers
    BY Zenon DEF RingInv
  <1>1. TypeOK'
    BY Zenon, <1>0, TypeStep
  <1>2. CursorOrder'
    BY Zenon, <1>0, CursorOrderStep
  <1>3. Layout'
    BY Zenon, <1>0, LayoutStep
  <1>4. Unread'
    BY Zenon, <1>0, HeadAdvances, UnreadStep
  <1>5. Reading'
    BY Zenon, <1>0, ReadingStep
  <1>6. Writing'
    BY Zenon, <1>0, WritingStep
  <1>7. Numbers'
    BY Zenon, <1>0, NumbersStep
  <1> QED BY Zenon, <1>1, <1>2, <1>3, <1>4, <1>5, <1>6, <1>7 DEF RingInv

\* At every moment, whoever died before: records and padding fill the words
\* between the cursors without a gap, every record published and not yet given
\* back is in the ring as try_push wrote it, the consumer stands at one of them
\* or at padding, and the producer writes only to words that are free
\* (try_push and try_pop of SharedRingBufferSPSC).
THEOREM RingInvariant == Spec => []RingInv
  BY RingInit, RingStep, PTL DEF Spec

\* The words a producer writes and the words a consumer reads are apart.
LEMMA WordsApart ==
    ASSUME RingInv
    PROVE  RegionsDisjoint
  <1> USE DEF RingInv
  <1>1. CASE ppc \notin {"payload", "number", "reserve", "publish"}
    BY Zenon, <1>1 DEF RegionsDisjoint, WrittenWords
  <1>2. CASE ppc \in {"payload", "number", "reserve", "publish"}
    <2>1. /\ Pos(tail_publish) + RecordWords(psize) <= Capacity
          /\ tail_publish + RecordWords(psize) <= phead + Capacity /\ phead <= head_publish
      BY Zenon, <1>2 DEF Writing
    <2>2. /\ tail_publish \in Nat /\ head_publish \in Nat /\ phead \in Nat
          /\ RecordWords(psize) \in Nat /\ Capacity \in Nat
      BY ProducerType, CapacityType
    <2>3. ASSUME NEW c \in tail_publish..(tail_publish + RecordWords(psize) - 1),
                 NEW d \in head_publish..(tail_publish - 1), Pos(c) = Pos(d)
          PROVE  FALSE
      <3>1. c \in Nat /\ d \in Nat /\ c # d /\ c - d < Capacity /\ d - c < Capacity
        BY <2>1, <2>2, <2>3
      <3> QED BY Zenon, <2>3, <3>1, PosInjective
    <2>4. WrittenWords \cap UnreadWords = {}
      BY Zenon, <1>2, <2>3 DEF WrittenWords, UnreadWords
    <2> QED BY Zenon, <2>1, <2>4 DEF RegionsDisjoint
  <1> QED BY Zenon, <1>1, <1>2

\* Wherever either process dies: the order of the cursors, the words being
\* written apart from those being read, the header try_pop finds, and the
\* records it returns (try_push, try_pop and claim of SharedRingBufferSPSC).
THEOREM SafeAcrossDeaths == Spec => []RingSafe
  <1>1. RingInv => RingSafe
    <2> SUFFICES ASSUME RingInv PROVE RingSafe
      BY Zenon
    <2>0. TypeOK /\ CursorOrder /\ Layout /\ Unread /\ Reading /\ Writing
      BY Zenon DEF RingInv
    <2>1. ReserveFollows
      BY ZenonT(30), <2>0 DEF ReserveFollows, Reading, Writing
    <2>2. HeadIsARecord
      <3> SUFFICES ASSUME cpc = "inspect", ~ Skippable, NEW k \in Nat, k = Len(popped)
                   PROVE  /\ ring[Pos(head_publish)].kind = "header"
                          /\ ~ Malformed
                          /\ Header.type = log[k + 1].msg
        BY Zenon, <2>0, Lengths DEF HeadIsARecord
      <3>1. head_publish = Front(k)
        BY Zenon, <2>0, SeesPadding
      <3>2. k < Len(log) /\ End(log[k + 1]) <= ctail
        BY Zenon, <2>0, <3>1 DEF Reading
      <3>3. /\ ring[Pos(head_publish)].kind = "header" /\ ~ Malformed
            /\ Header = HeaderCell(log[k + 1].size, log[k + 1].msg, FALSE)
        BY ZenonT(30), <2>0, <3>1, <3>2, SeesRecord
      <3> QED BY Zenon, <3>3 DEF HeaderCell
    <2>3. PoppedIntact
      BY ZenonT(30), <2>0 DEF PoppedIntact, Reading, Intact
    <2> QED BY Zenon, <2>0, <2>1, <2>2, <2>3, WordsApart DEF RingSafe
  <1> QED BY <1>1, RingInvariant, PTL

\* Every number missing from the log is a record that a dead producer left
\* unpublished (the fetch_add on `sequence` before the store of tail_publish).
THEOREM GapsCountDeaths == Spec => []GapsAreDeaths
  <1>1. RingInv => GapsAreDeaths
    BY Zenon DEF RingInv, Numbers
  <1> QED BY <1>1, RingInvariant, PTL

-------------------------------------------------------------------------------
(* The ring is a queue. *)

sentLog == [i \in 1..Len(log) |-> log[i].msg]
receivedLog == [i \in 1..Len(popped) |-> popped[i].type]

\* Every record takes at least the words of a header.
LEMMA UnreadCount ==
    ASSUME RingInv
    PROVE  2 * (Len(log) - Len(popped)) <= Capacity
  <1> DEFINE n == Len(log)
             p == Len(popped)
  <1>0. TypeOK /\ CursorOrder /\ Layout /\ Reading
    BY Zenon DEF RingInv
  <1>1. /\ n \in Nat /\ p \in Nat /\ p <= n /\ Capacity \in Nat /\ HeaderWords = 2
        /\ tail_publish \in Nat /\ head_publish \in Nat
        /\ tail_publish <= head_publish + Capacity
    BY Zenon, <1>0, Lengths, ProducerType, CapacityType DEF Reading, CursorOrder
  <1>2. CASE p = n
    BY <1>1, <1>2
  <1>3. CASE p < n
    <2>1. p + 1 \in 1..n /\ n \in 1..n /\ p + 1 \in (p + 1)..n /\ n \in (p + 1)..n
      BY <1>1, <1>3
    <2>2. head_publish <= log[p + 1].at /\ End(log[n]) <= tail_publish
      BY Zenon, <1>0, <2>1, HeadPlace
    <2>3. /\ log[p + 1].at \in Nat /\ log[n].at \in Nat /\ End(log[n]) \in Nat
          /\ log[n].at + 2 <= End(log[n])
      <3>1. log[p + 1].at \in Nat
        BY Zenon, <1>0, <2>1, RecordType
      <3>2. /\ log[n].at \in Nat /\ End(log[n]) \in Nat
            /\ End(log[n]) = log[n].at + RecordWords(log[n].size)
            /\ RecordWords(log[n].size) \in Nat /\ RecordWords(log[n].size) >= 2
        BY Zenon, <1>0, <2>1, RecordType
      <3> QED BY <3>1, <3>2
    <2>4. log[p + 1].at + 2 * (n - (p + 1)) <= log[n].at
      <3>1. CASE p + 1 = n
        BY <1>1, <2>3, <3>1
      <3>2. CASE p + 1 < n
        <4>1. n \in (p + 1 + 1)..n
          BY <1>1, <3>2
        <4> QED BY Zenon, <1>0, <1>1, <2>1, <4>1 DEF Layout
      <3> QED BY <1>1, <1>3, <3>1, <3>2
    <2> DEFINE first == log[p + 1].at
               last == log[n].at
               end == End(log[n])
    <2>5. first \in Nat /\ last \in Nat /\ end \in Nat /\ head_publish <= first
          /\ end <= tail_publish /\ last + 2 <= end /\ first + 2 * (n - (p + 1)) <= last
      BY Zenon, <2>2, <2>3, <2>4
    <2> HIDE DEF n, p, first, last, end
    <2> QED BY <1>1, <2>5 DEF n, p
  <1> QED BY <1>1, <1>2, <1>3

\* The two logs as sequences of messages.
LEMMA LogTypes ==
    ASSUME RingInv
    PROVE  /\ sentLog \in [1..Len(log) -> Messages]
           /\ receivedLog \in [1..Len(popped) -> Messages]
           /\ Len(sentLog) = Len(log) /\ Len(receivedLog) = Len(popped)
           /\ Len(log) \in Nat /\ Len(popped) \in Nat
  <1>0. TypeOK /\ Reading
    BY Zenon DEF RingInv
  <1>1. Len(log) \in Nat /\ Len(popped) \in Nat /\ Len(popped) <= Len(log)
    BY Zenon, <1>0, Lengths DEF Reading
  <1>2. \A i \in 1..Len(log) : log[i].msg \in Messages
    BY Zenon, <1>0, RecordType
  <1>3. \A i \in 1..Len(popped) : popped[i].type = log[i].msg
    BY Zenon, <1>0 DEF Reading, Intact
  <1>4. \A i \in 1..Len(popped) : i \in 1..Len(log)
    BY <1>1
  <1>5. sentLog \in [1..Len(log) -> Messages]
    BY Zenon, <1>2 DEF sentLog
  <1>6. receivedLog \in [1..Len(popped) -> Messages]
    BY Zenon, <1>2, <1>3, <1>4 DEF receivedLog
  <1>7. Len(sentLog) = Len(log) /\ Len(receivedLog) = Len(popped)
    BY <1>1, <1>5, <1>6
  <1> QED BY Zenon, <1>1, <1>5, <1>6, <1>7

\* Publishing a record is sending its message.
LEMMA PublishSends ==
    ASSUME RingInv, RingInv', PushPublish
    PROVE  /\ Current \in Messages
           /\ Len(sentLog) - Len(receivedLog) < Capacity \div HeaderWords
           /\ sentLog' = Append(sentLog, Current)
           /\ receivedLog' = receivedLog
  <1>0. TypeOK /\ Layout /\ Writing
    BY Zenon DEF RingInv
  <1>1. /\ Len(log') = Len(log) + 1
        /\ \A i \in 1..Len(log) : log'[i] = log[i]
        /\ log'[Len(log) + 1].msg = Current
    BY Zenon, <1>0, PublishFacts
  <1>2. Current \in Messages
    BY Zenon, <1>0, CurrentType DEF PushPublish
  <1>3. popped' = popped
    BY Zenon DEF PushPublish, consumerVars
  <1>4. /\ sentLog \in [1..Len(log) -> Messages] /\ Len(log) \in Nat
        /\ Len(popped) \in Nat
        /\ Len(sentLog) = Len(log) /\ Len(receivedLog) = Len(popped)
    BY Zenon, LogTypes
  <1>5. sentLog' \in [1..(Len(log) + 1) -> Messages]
    <2>1. (sentLog \in [1..Len(log) -> Messages])'
      BY LogTypes, PTL
    <2> QED BY Zenon, <1>1, <2>1
  <1>6. sentLog' = [i \in 1..(Len(log) + 1) |-> log'[i].msg]
    BY Zenon, <1>1 DEF sentLog
  <1>7. (\A i \in 1..Len(log) : sentLog'[i] = sentLog[i]) /\ sentLog'[Len(log) + 1] = Current
    BY <1>1, <1>4, <1>6 DEF sentLog
  <1>8. sentLog' = Append(sentLog, Current)
    BY <1>4, <1>5, <1>7, AppendFunction
  <1>9. 2 * (Len(log') - Len(popped')) <= Capacity
    <2>1. (2 * (Len(log) - Len(popped)) <= Capacity)'
      BY UnreadCount, PTL
    <2> QED BY Zenon, <2>1
  <1>10. Len(log) - Len(popped) < Capacity \div HeaderWords
    <2>1. HeaderWords = 2
      BY Zenon, RecordGeometry
    <2> QED BY <1>1, <1>3, <1>4, <1>9, <2>1, CapacityType
  <1>11. receivedLog' = receivedLog
    BY Zenon, <1>3 DEF receivedLog
  <1> QED BY Zenon, <1>2, <1>4, <1>8, <1>10, <1>11

\* Giving the words of a record back is receiving its message.
LEMMA StoreReceives ==
    ASSUME RingInv, RingInv', PopStorePublish, NEW k \in Nat, k = Len(popped),
           k < Len(log), Len(popped') = k + 1, popped'[k + 1] = cgot[1],
           \A i \in 1..k : popped'[i] = popped[i], Intact(cgot[1], k + 1)
    PROVE  /\ Len(receivedLog) < Len(sentLog)
           /\ receivedLog' = Append(receivedLog, sentLog[Len(receivedLog) + 1])
           /\ sentLog' = sentLog
  <1>1. /\ Len(sentLog) = Len(log) /\ Len(receivedLog) = k
        /\ receivedLog \in [1..k -> Messages] /\ Len(log) \in Nat
    BY Zenon, LogTypes
  <1>2. sentLog[k + 1] = cgot[1].type
    BY <1>1 DEF sentLog, Intact
  <1>3. receivedLog' \in [1..(k + 1) -> Messages]
    <2>1. (receivedLog \in [1..Len(popped) -> Messages])'
      BY LogTypes, PTL
    <2> QED BY Zenon, <2>1
  <1>4. receivedLog' = [i \in 1..(k + 1) |-> popped'[i].type]
    BY Zenon DEF receivedLog
  <1>5. /\ \A i \in 1..k : receivedLog'[i] = receivedLog[i]
        /\ receivedLog'[k + 1] = cgot[1].type
    BY <1>1, <1>4 DEF receivedLog
  <1>6. receivedLog' = Append(receivedLog, cgot[1].type)
    BY <1>1, <1>3, <1>5, AppendFunction
  <1>7. sentLog' = sentLog
    BY Zenon DEF sentLog, PopStorePublish, producerVars
  <1> QED BY Zenon, <1>1, <1>2, <1>6, <1>7

\* A producer and a consumer that die and come back see one bounded queue:
\* messages come out in the order of their publication, none twice, none skipped
\* (SharedRingBufferSPSC's try_push, try_pop, claim and open).
THEOREM RefinesFifo == Spec => ImplementsFifo
  <1>1. Init => Queue!Init
    BY DEF Init, Queue!Init
  <1>2. RingInv /\ RingInv' /\ [Next]_vars => [Queue!Next]_(Queue!fifoVars)
    <2> SUFFICES ASSUME RingInv, RingInv', [Next]_vars
                 PROVE  \/ Queue!Next
                        \/ sentLog' = sentLog /\ receivedLog' = receivedLog
      BY Zenon DEF Queue!fifoVars, sentLog, receivedLog
    <2>0. TypeOK /\ Layout /\ Reading /\ Len(popped) \in Nat
      BY Zenon, Lengths DEF RingInv
    <2>1. CASE PushPublish
      <3>1. /\ Current \in Messages
            /\ Len(sentLog) - Len(receivedLog) < Capacity \div HeaderWords
            /\ sentLog' = Append(sentLog, Current)
            /\ receivedLog' = receivedLog
        BY Zenon, <2>1, PublishSends
      <3> QED BY Zenon, <3>1 DEF Queue!Next, Queue!Send, sentLog, receivedLog
    <2>2. CASE PopStorePublish
      <3> SUFFICES ASSUME NEW k \in Nat, k = Len(popped)
                   PROVE  \/ Queue!Next
                          \/ sentLog' = sentLog /\ receivedLog' = receivedLog
        BY Zenon, <2>0
      <3>1. CASE popped' = popped
        BY Zenon, <2>2, <3>1 DEF PopStorePublish, producerVars, sentLog, receivedLog
      <3>2. CASE /\ k < Len(log) /\ Len(popped') = k + 1
                 /\ \A i \in 1..k : popped'[i] = popped[i]
                 /\ popped'[k + 1] = cgot[1] /\ Intact(cgot[1], k + 1)
        <4>1. /\ Len(receivedLog) < Len(sentLog)
              /\ receivedLog' = Append(receivedLog, sentLog[Len(receivedLog) + 1])
              /\ sentLog' = sentLog
          BY Zenon, <2>2, <3>2, StoreReceives
        <4> QED BY Zenon, <4>1 DEF Queue!Next, Queue!Receive, sentLog, receivedLog
      <3> QED BY Zenon, <2>0, <2>2, <3>1, <3>2, GivesBack
    <2>3. CASE ~ PushPublish /\ ~ PopStorePublish
      <3>1. UNCHANGED <<log, popped>>
        BY Zenon, <2>0, <2>3, TailSteps, HeadAdvances DEF PushPublishPad
      <3> QED BY Zenon, <3>1 DEF sentLog, receivedLog
    <2> QED BY Zenon, <2>1, <2>2, <2>3
  <1> QED BY <1>1, <1>2, RingInvariant, PTL DEF Spec, ImplementsFifo, Queue!Spec
===============================================================================
