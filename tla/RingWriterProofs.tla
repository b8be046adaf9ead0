--------------------------- MODULE RingWriterProofs ---------------------------
(***************************************************************************)
(* Proofs about detail::try_push, for any set of producers, any capacity,  *)
(* any payload sizes, and any producers that may die: a step of a producer *)
(* preserves WriterInv, and so does a reader that moves head_publish       *)
(* forward and not past tail_publish.  The MPSC and the MPMC ring rest on  *)
(* these two facts.                                                        *)
(***************************************************************************)
EXTENDS RingWriter, RingCellLemmas

\* Time for the large leaves.
USE SMTT(30), ZenonT(30)

-------------------------------------------------------------------------------
(* The types of the state. *)

\* The words try_push writes are words of the ring.
LEMMA CellTypes ==
    ASSUME NEW size \in Nat, NEW m \in Messages, NEW n \in Nat
    PROVE  /\ SequenceCell(n) \in Cells
           /\ <<SequenceCell(n)>> \in Seq(Cells)
           /\ <<HeaderCell(size, m, FALSE), SequenceCell(n)>> \in Seq(Cells)
           /\ <<HeaderCell(0, NoMessage, TRUE), SequenceCell(n)>> \in Seq(Cells)
           /\ Payload(m, size) \in Seq(Cells)
  <1>1. SequenceCell(n) \in Cells
    BY Zenon DEF SequenceCell, Cells
  <1>2. HeaderCell(size, m, FALSE) \in Cells
    BY Zenon DEF HeaderCell, Cells
  <1>3. HeaderCell(0, NoMessage, TRUE) \in Cells
    BY Zenon DEF HeaderCell, Cells
  <1>4. \A i \in 1..PayloadWords(size) : PayloadCell(m, i) \in Cells
    BY RecordGeometry DEF PayloadCell, Cells
  <1>5. PayloadWords(size) \in Nat
    BY Zenon, RecordGeometry
  <1>6. Payload(m, size) \in Seq(Cells)
    BY <1>4, <1>5 DEF Payload
  <1>7. <<SequenceCell(n)>> \in Seq(Cells)
    BY Zenon, <1>1, ShortSeqs
  <1>8. <<HeaderCell(size, m, FALSE), SequenceCell(n)>> \in Seq(Cells)
    BY Zenon, <1>1, <1>2, ShortSeqs
  <1>9. <<HeaderCell(0, NoMessage, TRUE), SequenceCell(n)>> \in Seq(Cells)
    BY Zenon, <1>1, <1>3, ShortSeqs
  <1> QED BY Zenon, <1>1, <1>6, <1>7, <1>8, <1>9

\* A fresh ring has its types.
LEMMA WriterTypeInit == WriterInit => WriterTypeOK
  <1> SUFFICES ASSUME WriterInit PROVE WriterTypeOK
    BY Zenon
  <1>1. 0 \in Fitting
    BY CapacityAssumption DEF Fitting, RecordWords, AlignUp, HeaderWords,
       RecordHeaderBytes, kAlignment
  <1>2. ZeroCell \in Cells
    BY Zenon DEF ZeroCell, Cells
  <1>3. ring \in [Words -> Cells]
    BY Zenon, <1>2 DEF WriterInit
  <1> QED BY <1>1, <1>3, MaxPushAssumption DEF WriterInit, WriterTypeOK

\* The message of the current call is one of the finitely many modelled.
LEMMA CurrentType ==
    ASSUME WriterTypeOK, NEW p \in Producers, ppc[p] # "idle"
    PROVE  /\ Current(p) \in Messages
           /\ psize[p] \in Fitting
           /\ psize[p] \in Nat
           /\ sent[p] \in Nat /\ sent[p] + 1 <= MaxPush
  <1>1. sent[p] \in Nat /\ sent[p] < MaxPush
    BY Zenon DEF WriterTypeOK
  <1>2. psize[p] \in Fitting /\ psize[p] \in Nat
    BY Zenon DEF WriterTypeOK, Fitting
  <1> QED BY <1>1, <1>2, MaxPushAssumption DEF Current, Messages

\* The cursors and positions of a reservation are numbers.
LEMMA ReservationType ==
    ASSUME WriterTypeOK, NEW p \in Producers
    PROVE  /\ Start(p) \in Nat /\ ppad[p] \in Nat /\ psize[p] \in Nat
           /\ RecordWords(psize[p]) \in Nat
           /\ RecordWords(psize[p]) >= 2
           /\ PublishTo(p) \in Nat
           /\ PublishTo(p) = Start(p) + ppad[p] + RecordWords(psize[p])
           /\ Pos(Start(p)) \in Nat
           /\ RecordPos(p) \in Nat
  <1>1. Start(p) \in Nat /\ ppad[p] \in Nat /\ psize[p] \in Nat
    BY Zenon DEF WriterTypeOK, Start, Fitting
  <1>2. RecordWords(psize[p]) \in Nat /\ RecordWords(psize[p]) >= 2
    BY Zenon, <1>1, RecordGeometry
  <1>3. PublishTo(p) = Start(p) + ppad[p] + RecordWords(psize[p])
    BY Zenon DEF PublishTo
  <1>4. Pos(Start(p)) \in Words
    BY Zenon, <1>1, PosRange
  <1>5. Words \subseteq Nat
    BY CapacityAssumption DEF Words
  <1>6. RecordPos(p) \in Nat
    BY Zenon, <1>4, <1>5 DEF RecordPos
  <1>7. PublishTo(p) \in Nat
    BY <1>1, <1>2, <1>3
  <1>8. Pos(Start(p)) \in Nat
    BY Zenon, <1>4, <1>5
  <1> QED BY Zenon, <1>1, <1>2, <1>3, <1>6, <1>7, <1>8

\* A step of a call of try_push.
LEMMA TypePushStep ==
    ASSUME WriterTypeOK, NEW p \in Producers, PushStep(p)
    PROVE  WriterTypeOK' \/ dead' # dead
  <1> SUFFICES ASSUME dead' = dead PROVE WriterTypeOK'
    BY Zenon
  <1>0. 0 \in Fitting
    BY CapacityAssumption DEF Fitting, RecordWords, AlignUp, HeaderWords,
       RecordHeaderBytes, kAlignment
  <1>1. CASE PushLoadHead(p)
    BY Zenon, <1>1 DEF PushLoadHead, controlVars, WriterTypeOK
  <1>2. CASE PushLoadTail(p)
    <2>1. RecordWords(psize[p]) \in Nat /\ tail_reserve \in Nat
      BY Zenon, ReservationType DEF WriterTypeOK
    <2>2. Padding(tail_reserve, RecordWords(psize[p])) \in Nat
      BY Zenon, <2>1, PaddingType
    <2> QED BY Zenon, <1>2, <2>2 DEF PushLoadTail, controlVars, WriterTypeOK
  <1>3. CASE PushReject(p)
    BY Zenon, <1>0, <1>3 DEF PushReject, Return, controlVars, WriterTypeOK
  <1>4. CASE PushReserve(p)
    <2>1. PublishTo(p) \in Nat
      BY Zenon, ReservationType
    <2> QED BY Zenon, <1>4, <2>1 DEF PushReserve, Holding, WriterTypeOK
  <1>5. CASE PushRetry(p)
    BY Zenon, <1>5 DEF PushRetry, controlVars, WriterTypeOK
  <1>6. CASE PushWriteHeader(p)
    <2> DEFINE wrap == <<HeaderCell(0, NoMessage, TRUE), SequenceCell(0)>>
               header == <<HeaderCell(psize[p], Current(p), FALSE), SequenceCell(0)>>
               wrapped == IF ppad[p] >= HeaderWords
                          THEN Overwrite(ring, Pos(Start(p)), wrap) ELSE ring
    <2>1. Current(p) \in Messages /\ psize[p] \in Nat
      BY Zenon, <1>6, CurrentType DEF PushWriteHeader
    <2>2. wrap \in Seq(Cells) /\ header \in Seq(Cells)
      BY Zenon, <2>1, CellTypes
    <2>3. Pos(Start(p)) \in Nat /\ RecordPos(p) \in Nat
      BY Zenon, ReservationType
    <2> HIDE DEF wrap, header
    <2>4. wrapped \in [Words -> Cells]
      BY Zenon, <2>2, <2>3, OverwriteType DEF WriterTypeOK
    <2> HIDE DEF wrapped
    <2>5. Overwrite(wrapped, RecordPos(p), header) \in [Words -> Cells]
      BY Zenon, <2>2, <2>3, <2>4, OverwriteType
    <2>6. ring' = Overwrite(wrapped, RecordPos(p), header)
      BY Zenon, <1>6 DEF PushWriteHeader, wrap, header, wrapped, WriterTypeOK
    <2> QED BY Zenon, <1>6, <2>5, <2>6 DEF PushWriteHeader, Holding, WriterTypeOK
  <1>7. CASE PushWritePayload(p)
    <2>1. Current(p) \in Messages /\ psize[p] \in Nat
      BY Zenon, <1>7, CurrentType DEF PushWritePayload
    <2>2. Payload(Current(p), psize[p]) \in Seq(Cells)
      BY Zenon, <2>1, CellTypes
    <2>3. RecordPos(p) + HeaderWords \in Nat
      BY ReservationType, RecordGeometry
    <2>4. ring' \in [Words -> Cells]
      BY Zenon, <1>7, <2>2, <2>3, OverwriteType DEF PushWritePayload, WriterTypeOK
    <2> QED BY Zenon, <1>7, <2>4 DEF PushWritePayload, Holding, WriterTypeOK
  <1>8. CASE PushTakeTurn(p)
    <2>1. Current(p) \in Messages /\ psize[p] \in Nat
      BY Zenon, <1>8, CurrentType DEF PushTakeTurn
    <2>0. sequence + 1 \in Nat
      BY DEF WriterTypeOK
    <2>2. <<SequenceCell(sequence + 1)>> \in Seq(Cells)
      BY Zenon, <2>0, <2>1, CellTypes
    <2>3. RecordPos(p) + 1 \in Nat
      BY ReservationType, RecordGeometry
    <2>4. ring' \in [Words -> Cells]
      BY Zenon, <1>8, <2>2, <2>3, OverwriteType DEF PushTakeTurn, WriterTypeOK
    <2> QED BY Zenon, <1>8, <2>0, <2>4 DEF PushTakeTurn, Holding, WriterTypeOK
  <1>9. CASE PushPublish(p)
    <2>1. /\ Current(p) \in Messages /\ psize[p] \in Fitting /\ psize[p] \in Nat
          /\ sent[p] \in Nat /\ sent[p] + 1 <= MaxPush
      BY Zenon, <1>9, CurrentType DEF PushPublish
    <2>2. PublishTo(p) \in Nat
      BY ReservationType
    <2>3. Published(p) \in [msg : Messages, size : Fitting, at : Nat, pad : Nat]
      BY Zenon, <2>1, ReservationType DEF Published
    <2>4. log' \in Seq([msg : Messages, size : Fitting, at : Nat, pad : Nat])
      BY <1>9, <2>3 DEF PushPublish, WriterTypeOK
    <2>5. /\ sent' \in [Producers -> Nat]
          /\ \A q \in Producers :
                sent'[q] <= MaxPush /\ (ppc'[q] # "idle" => sent'[q] < MaxPush)
      BY <1>9, <2>1 DEF PushPublish, Return, WriterTypeOK
    <2> QED BY Zenon, <1>0, <1>9, <2>2, <2>4, <2>5 DEF PushPublish, Return, WriterTypeOK
  <1> QED
    BY Zenon, <1>1, <1>2, <1>3, <1>4, <1>5, <1>6, <1>7, <1>8, <1>9 DEF PushStep

\* Any step of a producer.
LEMMA WriterTypePush ==
    ASSUME WriterTypeOK, NEW p \in Producers, Push(p)
    PROVE  WriterTypeOK'
  <1>1. CASE PushStep(p) /\ UNCHANGED dead
    BY Zenon, <1>1, TypePushStep
  <1>2. ASSUME NEW size \in Sizes, PushCall(p, size), UNCHANGED dead
        PROVE  WriterTypeOK'
    BY Zenon, <1>2, SizesAssumption
       DEF PushCall, WriterTypeOK, controlVars, Fitting
  <1>3. CASE PushCrash(p)
    BY Zenon, <1>3 DEF PushCrash, WriterTypeOK, controlVars, producerVars
  <1> QED BY Zenon, <1>1, <1>2, <1>3 DEF Push

-------------------------------------------------------------------------------
(* The reserved, unpublished words belong to exactly one call each. *)

\* A step that leaves the tail cursors and every reservation as they are, and
\* brings nobody to the publishing store out of turn.
LEMMA ReservationsFrame ==
    ASSUME Reservations,
           UNCHANGED <<tail_reserve, tail_publish>>,
           \A q \in Producers :
               /\ ppc'[q] \in Holding <=> ppc[q] \in Holding
               /\ ppc[q] \in Holding =>
                      /\ ptail'[q] = ptail[q]
                      /\ ppad'[q] = ppad[q]
                      /\ psize'[q] = psize[q]
               /\ ppc'[q] = "publish" => \/ ppc[q] = "publish"
                                         \/ tail_publish = Start(q)
    PROVE  Reservations'
  <1>1. \A q \in Producers : ppc[q] \in Holding =>
            Start(q)' = Start(q) /\ PublishTo(q)' = PublishTo(q)
    BY Zenon DEF Start, PublishTo
  <1> QED BY Zenon, <1>1 DEF Reservations, Holding

\* The successful compare_exchange_weak: the new reservation begins where the
\* last one ends.
LEMMA ReservationsReserve ==
    ASSUME WriterTypeOK, Reservations, NEW p \in Producers, PushReserve(p)
    PROVE  Reservations'
  <1>1. /\ ppc[p] = "cas" /\ tail_reserve = Start(p)
        /\ tail_reserve' = PublishTo(p) /\ tail_publish' = tail_publish
        /\ ppc' = [ppc EXCEPT ![p] = "header"]
        /\ UNCHANGED <<ptail, ppad, psize>>
    BY Zenon DEF PushReserve, Start
  <1>2. \A q \in Producers : Start(q)' = Start(q) /\ PublishTo(q)' = PublishTo(q)
    BY Zenon, <1>1 DEF Start, PublishTo
  <1>3. \A q \in Producers :
            /\ Start(q) \in Nat /\ PublishTo(q) \in Nat
            /\ Start(q) < PublishTo(q)
    BY ReservationType
  <1>4. tail_publish \in Nat /\ tail_reserve \in Nat
    BY Zenon DEF WriterTypeOK
  <1>5. \A q \in Producers :
            /\ q # p => ppc'[q] = ppc[q]
            /\ ppc'[p] = "header"
    BY Zenon, <1>1 DEF WriterTypeOK
  <1>6. ppc[p] \notin Holding /\ ppc'[p] \in Holding
    BY Zenon, <1>1, <1>5 DEF Holding
  <1>7. \A q \in Producers : ppc'[q] \in Holding =>
            /\ tail_publish <= Start(q)
            /\ PublishTo(q) <= tail_reserve'
            /\ ppc'[q] = "publish" => tail_publish = Start(q)
    BY <1>1, <1>3, <1>4, <1>5, <1>6 DEF Reservations
  <1>8. \A q, r \in Producers :
            q # r /\ ppc'[q] \in Holding /\ ppc'[r] \in Holding =>
                PublishTo(q) <= Start(r) \/ PublishTo(r) <= Start(q)
    BY Zenon, <1>1, <1>3, <1>4, <1>5, <1>6 DEF Reservations
  <1>9. ASSUME NEW c \in tail_publish..(tail_reserve' - 1)
        PROVE  \E q \in Producers : ppc'[q] \in Holding /\ Start(q) <= c /\ c < PublishTo(q)
    <2>1. CASE c < tail_reserve
      <3>1. PICK q \in Producers : ppc[q] \in Holding /\ Start(q) <= c /\ c < PublishTo(q)
        BY <1>4, <1>1, <1>3, <2>1 DEF Reservations
      <3> QED BY Zenon, <3>1, <1>5, <1>6
    <2>2. CASE c >= tail_reserve
      BY <2>2, <1>1, <1>3, <1>4, <1>6
    <2> QED BY <2>1, <2>2, <1>1, <1>3, <1>4
  <1>10. tail_publish <= tail_reserve'
    BY <1>1, <1>3, <1>4 DEF Reservations
  <1> QED BY <1>1, <1>2, <1>7, <1>8, <1>9, <1>10 DEF Reservations

\* The store to tail_publish: it moves to the beginning of the next
\* reservation, whose producer has the turn from then on.
LEMMA ReservationsPublish ==
    ASSUME WriterTypeOK, Reservations, NEW p \in Producers, PushPublish(p)
    PROVE  Reservations'
  <1>1. /\ ppc[p] = "publish" /\ ppc[p] \in Holding
        /\ tail_publish' = PublishTo(p) /\ tail_reserve' = tail_reserve
        /\ ppc'[p] = "idle" /\ ppc'[p] \notin Holding
    BY Zenon DEF PushPublish, Return, WriterTypeOK, Holding
  <1>2. \A q \in Producers : q # p =>
            Start(q)' = Start(q) /\ PublishTo(q)' = PublishTo(q) /\ ppc'[q] = ppc[q]
    BY Zenon DEF PushPublish, Return, WriterTypeOK, Start, PublishTo
  <1>3. \A q \in Producers :
            /\ Start(q) \in Nat /\ PublishTo(q) \in Nat
            /\ Start(q) < PublishTo(q)
    BY ReservationType
  <1>4. tail_publish \in Nat /\ tail_reserve \in Nat
    BY DEF WriterTypeOK
  <1>5. Start(p) = tail_publish /\ PublishTo(p) <= tail_reserve
    BY Zenon, <1>1 DEF Reservations
  <1>6. \A q \in Producers : q # p /\ ppc[q] \in Holding =>
            /\ PublishTo(p) <= Start(q)
            /\ ppc[q] # "publish"
            /\ PublishTo(q) <= tail_reserve
    BY <1>1, <1>3, <1>4, <1>5 DEF Reservations
  <1>7. ASSUME NEW c \in PublishTo(p)..(tail_reserve - 1)
        PROVE  \E q \in Producers : /\ q # p
                                    /\ ppc[q] \in Holding
                                    /\ Start(q) <= c
                                    /\ c < PublishTo(q)
    <2>1. c \in tail_publish..(tail_reserve - 1)
      BY <1>3, <1>4, <1>5
    <2>2. PICK q \in Producers : ppc[q] \in Holding /\ Start(q) <= c /\ c < PublishTo(q)
      BY Zenon, <2>1 DEF Reservations
    <2> QED BY <2>2, <1>3
  <1>8. \A q, r \in Producers :
            q # r /\ ppc'[q] \in Holding /\ ppc'[r] \in Holding =>
                PublishTo(q)' <= Start(r)' \/ PublishTo(r)' <= Start(q)'
    BY Zenon, <1>1, <1>2 DEF Reservations
  <1> QED BY Zenon, <1>1, <1>2, <1>5, <1>6, <1>7, <1>8 DEF Reservations

\* Every step of a producer preserves the tiling.
LEMMA ReservationsPush ==
    ASSUME WriterTypeOK, Reservations, NEW p \in Producers, Push(p)
    PROVE  Reservations'
  <1> USE DEF WriterTypeOK, controlVars, producerVars
  <1>1. CASE PushLoadHead(p)
    BY Zenon, <1>1, ReservationsFrame DEF PushLoadHead, Holding
  <1>2. CASE PushLoadTail(p)
    BY Zenon, <1>2, ReservationsFrame DEF PushLoadTail, Holding
  <1>3. CASE PushReject(p)
    BY Zenon, <1>3, ReservationsFrame DEF PushReject, Return, Holding
  <1>4. CASE PushReserve(p)
    BY Zenon, <1>4, ReservationsReserve
  <1>5. CASE PushRetry(p)
    BY Zenon, <1>5, ReservationsFrame DEF PushRetry, Holding
  <1>6. CASE PushWriteHeader(p)
    BY Zenon, <1>6, ReservationsFrame DEF PushWriteHeader, Holding
  <1>7. CASE PushWritePayload(p)
    BY Zenon, <1>7, ReservationsFrame DEF PushWritePayload, Holding
  <1>8. CASE PushTakeTurn(p)
    BY Zenon, <1>8, ReservationsFrame DEF PushTakeTurn, Holding
  <1>9. CASE PushPublish(p)
    BY <1>9, ReservationsPublish
  <1>10. ASSUME NEW size \in Sizes, PushCall(p, size) PROVE Reservations'
    BY Zenon, <1>10, ReservationsFrame DEF PushCall, Holding
  <1>11. CASE PushCrash(p)
    BY Zenon, <1>11, ReservationsFrame DEF PushCrash
  <1> QED BY Zenon, <1>1, <1>2, <1>3, <1>4, <1>5, <1>6, <1>7, <1>8, <1>9,
             <1>10, <1>11 DEF Push, PushStep

-------------------------------------------------------------------------------
(* The numbers of records and calls. *)

\* A payload that fits, with its header.
LEMMA FittingWords ==
    ASSUME NEW size \in Fitting
    PROVE  /\ size \in Nat
           /\ RecordWords(size) \in 2..Capacity
           /\ PayloadWords(size) \in Nat
           /\ PayloadWords(size) = RecordWords(size) - 2
  <1>1. size \in Nat /\ RecordWords(size) <= Capacity
    BY Zenon DEF Fitting
  <1>2. /\ HeaderWords = 2 /\ RecordWords(size) \in Nat /\ RecordWords(size) >= 2
        /\ PayloadWords(size) \in Nat
    BY Zenon, <1>1, RecordGeometry
  <1>3. RecordWords(size) \in 2..Capacity
    BY <1>1, <1>2, CapacityType
  <1> QED BY Zenon, <1>1, <1>2, <1>3 DEF PayloadWords

\* The numbers of a published record.
LEMMA RecordType ==
    ASSUME WriterTypeOK, NEW i \in 1..Len(log)
    PROVE  /\ log[i].at \in Nat /\ log[i].pad \in Nat /\ log[i].size \in Nat
           /\ log[i].msg \in Messages
           /\ RecordWords(log[i].size) \in 2..Capacity
           /\ PayloadWords(log[i].size) \in Nat
           /\ PayloadWords(log[i].size) = RecordWords(log[i].size) - 2
           /\ Base(log[i]) \in Nat /\ End(log[i]) \in Nat
           /\ Base(log[i]) = log[i].at + log[i].pad
           /\ End(log[i]) = Base(log[i]) + RecordWords(log[i].size)
  <1> DEFINE R == [msg : Messages, size : Fitting, at : Nat, pad : Nat]
  <1>0. log \in Seq(R)
    BY Zenon DEF WriterTypeOK
  <1> HIDE DEF R
  <1>1. log[i] \in R
    BY <1>0
  <1>2. /\ log[i].at \in Nat /\ log[i].pad \in Nat /\ log[i].size \in Fitting
        /\ log[i].msg \in Messages
    BY Zenon, <1>1 DEF R
  <1>3. /\ log[i].size \in Nat
        /\ RecordWords(log[i].size) \in 2..Capacity
        /\ PayloadWords(log[i].size) \in Nat
        /\ PayloadWords(log[i].size) = RecordWords(log[i].size) - 2
    BY Zenon, <1>2, FittingWords
  <1>4. Base(log[i]) = log[i].at + log[i].pad
    BY Zenon DEF Base
  <1>5. End(log[i]) = Base(log[i]) + RecordWords(log[i].size)
    BY Zenon DEF End
  <1>6. Base(log[i]) \in Nat
    BY <1>2, <1>4
  <1>7. End(log[i]) \in Nat
    BY <1>3, <1>5, <1>6
  <1> QED BY Zenon, <1>2, <1>3, <1>4, <1>5, <1>6, <1>7

\* Padding comes before the header, which comes before the end of a record.
LEMMA RecordOrder ==
    ASSUME WriterTypeOK, NEW i \in 1..Len(log)
    PROVE  /\ log[i].at <= Base(log[i])
           /\ Base(log[i]) + 2 <= End(log[i])
           /\ Base(log[i]) < End(log[i])
           /\ log[i].at <= End(log[i])
  <1> DEFINE at == log[i].at
             pad == log[i].pad
             words == RecordWords(log[i].size)
             base == Base(log[i])
             end == End(log[i])
  <1>1. /\ at \in Nat /\ pad \in Nat /\ base \in Nat /\ end \in Nat
        /\ words \in 2..Capacity /\ base = at + pad /\ end = base + words
    BY Zenon, RecordType
  <1> HIDE DEF at, pad, words, base, end
  <1>2. at <= base /\ base + 2 <= end /\ base < end /\ at <= end
    BY <1>1, CapacityType
  <1> QED BY Zenon, <1>2 DEF at, base, end

\* The numbers of a call under way.
LEMMA CallType ==
    ASSUME WriterTypeOK, NEW p \in Producers
    PROVE  /\ Start(p) \in Nat /\ ppad[p] \in Nat /\ psize[p] \in Nat
           /\ Start(p) = ptail[p]
           /\ RecordWords(psize[p]) \in 2..Capacity
           /\ PayloadWords(psize[p]) \in Nat
           /\ PayloadWords(psize[p]) = RecordWords(psize[p]) - 2
           /\ PublishTo(p) \in Nat
           /\ PublishTo(p) = Start(p) + ppad[p] + RecordWords(psize[p])
  <1>1. psize[p] \in Fitting
    BY Zenon DEF WriterTypeOK
  <1>2. /\ RecordWords(psize[p]) \in 2..Capacity
        /\ PayloadWords(psize[p]) \in Nat
        /\ PayloadWords(psize[p]) = RecordWords(psize[p]) - 2
    BY Zenon, <1>1, FittingWords
  <1>3. Start(p) = ptail[p]
    BY Zenon DEF Start
  <1> QED BY Zenon, <1>2, <1>3, ReservationType

\* The types of the cursors and of the length of the log.
LEMMA CursorType ==
    ASSUME WriterTypeOK
    PROVE  /\ head_publish \in Nat /\ tail_publish \in Nat /\ tail_reserve \in Nat
           /\ head_reserve \in Nat /\ sequence \in Nat
           /\ Len(log) \in Nat
           /\ log = <<>> <=> Len(log) = 0
  <1>1. Len(log) \in Nat /\ (log = <<>> <=> Len(log) = 0)
    BY DEF WriterTypeOK
  <1> QED BY Zenon, <1>1 DEF WriterTypeOK

\* No published record reaches past tail_publish.
LEMMA RecordsPublished ==
    ASSUME WriterTypeOK, Layout, NEW i \in 1..Len(log)
    PROVE  End(log[i]) <= tail_publish
  <1> DEFINE n == Len(log)
  <1>1. n \in Nat /\ n >= 1 /\ n \in 1..Len(log)
    BY CursorType
  <1>2. End(log[n]) = tail_publish
    BY <1>1, CursorType DEF Layout
  <1>3. CASE i = n
    BY <1>2, <1>3, CursorType
  <1>4. CASE i < n
    <2>1. End(log[i]) <= log[n].at
      BY Zenon, <1>1, <1>4 DEF Layout
    <2>2. log[n].at <= End(log[n])
      BY Zenon, <1>1, RecordOrder
    <2>3. End(log[i]) \in Nat /\ log[n].at \in Nat /\ End(log[n]) \in Nat
      BY Zenon, <1>1, RecordType
    <2> QED BY <1>2, <2>1, <2>2, <2>3
  <1> QED BY <1>1, <1>3, <1>4

-------------------------------------------------------------------------------
(* The published records keep following one another. *)

\* What a publishing store does to the log.
LEMMA PublishFacts ==
    ASSUME WriterTypeOK, Reservations, Snapshots, NEW p \in Producers, PushPublish(p)
    PROVE  /\ Len(log') = Len(log) + 1
           /\ log' # <<>>
           /\ \A i \in 1..Len(log) : log'[i] = log[i]
           /\ log'[Len(log) + 1] = Published(p)
           /\ Published(p).at = tail_publish
           /\ Published(p).pad = ppad[p]
           /\ Published(p).size = psize[p]
           /\ Published(p).msg = Current(p)
           /\ Published(p).pad = Padding(Published(p).at, RecordWords(Published(p).size))
           /\ Base(Published(p)) = Start(p) + ppad[p]
           /\ End(Published(p)) = PublishTo(p)
           /\ tail_publish' = PublishTo(p)
           /\ Start(p) = tail_publish
           /\ PublishTo(p) >= tail_publish + 2
           /\ ppc[p] = "publish"
           /\ UNCHANGED <<ring, sequence, head_publish, head_reserve, tail_reserve>>
  <1> DEFINE R == [msg : Messages, size : Fitting, at : Nat, pad : Nat]
  <1>1. log \in Seq(R)
    BY Zenon DEF WriterTypeOK
  <1>2. /\ ppc[p] = "publish" /\ ppc[p] # "idle" /\ ppc[p] \in Holding
        /\ log' = Append(log, Published(p))
        /\ tail_publish' = PublishTo(p)
        /\ UNCHANGED <<ring, sequence, head_publish, head_reserve, tail_reserve>>
    BY Zenon DEF PushPublish, Holding
  <1>3. /\ Published(p).at = Start(p) /\ Published(p).pad = ppad[p]
        /\ Published(p).size = psize[p] /\ Published(p).msg = Current(p)
    BY Zenon DEF Published
  <1>4. Published(p) \in R
    <2>1. Current(p) \in Messages /\ psize[p] \in Fitting
      BY Zenon, <1>2, CurrentType
    <2> QED BY Zenon, <2>1, CallType DEF Published
  <1> HIDE DEF R
  <1>5. /\ Len(log') = Len(log) + 1
        /\ log' # <<>>
        /\ \A i \in 1..Len(log) : log'[i] = log[i]
        /\ log'[Len(log) + 1] = Published(p)
    BY <1>1, <1>2, <1>4, AppendFacts
  <1>6. Start(p) = tail_publish
    BY Zenon, <1>2 DEF Reservations
  <1>7. ppad[p] = Padding(Start(p), RecordWords(psize[p]))
    BY Zenon, <1>2 DEF Snapshots, Start
  <1>8. Base(Published(p)) = Start(p) + ppad[p]
    BY Zenon, <1>3 DEF Base
  <1>9. End(Published(p)) = PublishTo(p)
    BY Zenon, <1>3, <1>8, CallType DEF End
  <1>10. PublishTo(p) >= tail_publish + 2
    BY <1>6, CallType
  <1> QED BY Zenon, <1>2, <1>3, <1>5, <1>6, <1>7, <1>8, <1>9, <1>10

\* Only a publishing store changes the log or tail_publish; no producer moves
\* head_publish or head_reserve.
LEMMA LogChanges ==
    ASSUME NEW p \in Producers, Push(p)
    PROVE  /\ ~ PushPublish(p) => UNCHANGED <<log, tail_publish>>
           /\ UNCHANGED <<head_publish, head_reserve>>
  <1>1. UNCHANGED <<head_publish, head_reserve>>
    BY Zenon DEF Push, PushStep, PushLoadHead, PushLoadTail, PushReject, PushReserve,
       PushRetry, PushWriteHeader, PushWritePayload, PushTakeTurn, PushPublish,
       PushCall, PushCrash, producerVars, controlVars
  <1>2. ASSUME ~ PushPublish(p) PROVE UNCHANGED <<log, tail_publish>>
    BY Zenon, <1>2 DEF Push, PushStep, PushLoadHead, PushLoadTail, PushReject, PushReserve,
       PushRetry, PushWriteHeader, PushWritePayload, PushTakeTurn, PushCall,
       PushCrash, producerVars, controlVars
  <1> QED BY Zenon, <1>1, <1>2

\* Every step of a producer keeps the published records one behind the other.
LEMMA LayoutPush ==
    ASSUME WriterTypeOK, Reservations, Snapshots, Layout,
           NEW p \in Producers, Push(p)
    PROVE  Layout'
  <1>1. CASE UNCHANGED <<log, tail_publish>>
    BY ZenonT(30), <1>1 DEF Layout, End, Base
  <1>2. CASE PushPublish(p)
    <2> DEFINE n == Len(log)
               r == Published(p)
    <2>1. /\ Len(log') = n + 1 /\ log' # <<>>
          /\ \A i \in 1..n : log'[i] = log[i]
          /\ log'[n + 1] = r
          /\ r.at = tail_publish
          /\ r.pad = Padding(r.at, RecordWords(r.size))
          /\ End(r) = tail_publish'
          /\ tail_publish' >= tail_publish + 2
          /\ tail_publish' \in Nat
      BY Zenon, <1>2, PublishFacts, CallType
    <2>2. n \in Nat /\ tail_publish \in Nat /\ (log = <<>> <=> n = 0)
      BY Zenon, CursorType
    <2> HIDE DEF r, n
    <2>3. log'[1].at = 0
      <3>1. CASE n = 0
        BY <2>1, <2>2, <3>1 DEF Layout
      <3>2. CASE n > 0
        BY <2>1, <2>2, <3>2 DEF Layout
      <3> QED BY <2>2, <3>1, <3>2
    <2>4. ASSUME NEW i \in 1..(n + 1)
          PROVE  /\ log'[i].pad = Padding(log'[i].at, RecordWords(log'[i].size))
                 /\ i < n + 1 => log'[i + 1].at = End(log'[i])
      <3>1. CASE i = n + 1
        BY <2>1, <2>2, <3>1
      <3>2. CASE i = n
        BY <2>1, <2>2, <3>2 DEF Layout, n
      <3>3. CASE i < n
        <4>1. i \in 1..n /\ i + 1 \in 1..n
          BY <2>2, <3>3
        <4>2. log'[i] = log[i] /\ log'[i + 1] = log[i + 1]
          BY Zenon, <2>1, <4>1
        <4>3. /\ log[i].pad = Padding(log[i].at, RecordWords(log[i].size))
              /\ log[i + 1].at = End(log[i])
          BY Zenon, <3>3, <4>1 DEF Layout, n
        <4> QED BY Zenon, <4>2, <4>3
      <3> QED BY <2>2, <3>1, <3>2, <3>3
    <2>5. ASSUME NEW i \in 1..(n + 1), NEW j \in 1..(n + 1), i < j
          PROVE  End(log'[i]) <= log'[j].at
      <3>1. CASE j = n + 1
        BY <2>1, <2>2, <2>5, <3>1, RecordsPublished DEF n
      <3>2. CASE j < n + 1
        <4>1. i \in 1..n /\ j \in 1..n
          BY <2>2, <2>5, <3>2
        <4>2. End(log[i]) <= log[j].at
          BY Zenon, <2>5, <4>1 DEF Layout, n
        <4> QED BY Zenon, <2>1, <4>1, <4>2
      <3> QED BY <2>2, <3>1, <3>2
    <2>6. ASSUME NEW i \in 1..(n + 1), NEW j \in 1..(n + 1), i <= j
          PROVE  End(log'[j]) >= log'[i].at + HeaderWords * (j - i + 1)
      <3>0. HeaderWords = 2
        BY Zenon, RecordGeometry
      <3>1. CASE j < n + 1
        <4>1. i \in 1..n /\ j \in 1..n
          BY <2>2, <2>6, <3>1
        <4>2. End(log[j]) >= log[i].at + HeaderWords * (j - i + 1)
          BY Zenon, <2>6, <4>1 DEF Layout, n
        <4> QED BY Zenon, <2>1, <4>1, <4>2
      <3>2. CASE i = n + 1
        <4>1. j = n + 1 /\ j - i + 1 = 1
          BY <2>2, <2>6, <3>2
        <4>2. End(log'[n + 1]) = tail_publish' /\ log'[n + 1].at = tail_publish
          BY Zenon, <2>1
        <4>3. tail_publish' >= tail_publish + 2 * 1
          BY <2>1, <2>2
        <4>4. End(log'[n + 1]) >= log'[n + 1].at + 2 * 1
          BY Zenon, <4>2, <4>3
        <4> QED BY Zenon, <3>0, <3>2, <4>1, <4>4
      <3>3. CASE j = n + 1 /\ i <= n
        <4>1. n \in 1..n /\ i \in 1..n /\ i <= n
          BY <2>2, <3>3
        <4>2. End(log[n]) >= log[i].at + HeaderWords * (n - i + 1)
          BY Zenon, <4>1 DEF Layout, n
        <4>3. End(log[n]) = tail_publish
          BY <4>1, <2>2 DEF Layout, n
        <4>4. log[i].at \in Nat
          BY Zenon, <4>1, RecordType DEF n
        <4>5. tail_publish' >= log[i].at + 2 * (n + 1 - i + 1)
          BY <2>1, <2>2, <3>0, <4>1, <4>2, <4>3, <4>4
        <4> QED BY <2>1, <3>0, <3>3, <4>1, <4>5
      <3> QED BY <2>2, <2>6, <3>1, <3>2, <3>3
    <2>7. End(log'[n + 1]) = tail_publish'
      BY Zenon, <2>1
    <2> QED BY Zenon, <2>1, <2>2, <2>3, <2>4, <2>5, <2>6, <2>7 DEF Layout, End, Base
  <1> QED BY Zenon, <1>1, <1>2, LogChanges

-------------------------------------------------------------------------------
(* The producers' snapshots stay sound. *)

\* The room that try_push computes from an old head_publish and the current
\* tail_reserve is there.
LEMMA RoomComputed ==
    ASSUME WriterTypeOK, Reservations, Snapshots, head_publish <= tail_publish,
           NEW p \in Producers, ppc[p] = "load_tail", ~ NoRoom(p, tail_reserve)
    PROVE  tail_reserve + Padding(tail_reserve, RecordWords(psize[p]))
               + RecordWords(psize[p]) <= phead[p] + Capacity
  <1> DEFINE words == RecordWords(psize[p])
             pad == Padding(tail_reserve, words)
  <1>1. phead[p] \in Nat /\ tail_reserve \in Nat /\ words \in Nat
    BY CallType DEF WriterTypeOK
  <1>2. phead[p] <= tail_reserve
    <2>1. phead[p] <= head_publish
      BY Zenon DEF Snapshots
    <2> QED BY <1>1, <2>1, CursorType DEF Reservations
  <1>3. Sub64(tail_reserve, phead[p], U64) = tail_reserve - phead[p]
    BY Zenon, <1>1, <1>2 DEF Sub64
  <1>4. ~ (tail_reserve - phead[p] + pad + words > Capacity)
    BY Zenon, <1>3 DEF NoRoom
  <1>5. pad \in Nat
    BY Zenon, <1>1, PaddingType
  <1> HIDE DEF pad, words
  <1>6. tail_reserve + pad + words <= phead[p] + Capacity
    BY <1>1, <1>4, <1>5, CapacityType
  <1> QED BY Zenon, <1>6 DEF pad, words

\* Every step of a producer keeps the snapshots of head_publish safe.
LEMMA SnapshotsPush ==
    ASSUME WriterTypeOK, Reservations, Snapshots, head_publish <= tail_publish,
           NEW p \in Producers, Push(p)
    PROVE  Snapshots'
  <1>1. UNCHANGED head_publish
    BY Zenon, LogChanges
  <1> USE DEF WriterTypeOK, controlVars, producerVars
  <1>2. CASE PushLoadHead(p)
    BY <1>1, <1>2 DEF PushLoadHead, Snapshots, Holding, PublishTo, Start
  <1>3. CASE PushLoadTail(p)
    <2>1. PublishTo(p)' <= phead[p] + Capacity
      BY ZenonT(30), <1>3, RoomComputed DEF PushLoadTail, PublishTo, Start
    <2> QED BY Zenon, <1>1, <1>3, <2>1 DEF PushLoadTail, Snapshots, Holding, PublishTo, Start
  <1>4. CASE PushReject(p)
    BY Zenon, <1>1, <1>4 DEF PushReject, Return, Snapshots, Holding, PublishTo, Start
  <1>5. CASE PushReserve(p)
    <2>1. PublishTo(p) <= phead[p] + Capacity /\ phead[p] <= head_publish
      BY Zenon, <1>5 DEF PushReserve, Snapshots
    <2>2. PublishTo(p) \in Nat /\ phead[p] \in Nat /\ head_publish \in Nat
      BY Zenon, CallType
    <2>3. PublishTo(p) <= head_publish + Capacity
      BY <2>1, <2>2, CapacityType
    <2> QED BY Zenon, <1>1, <1>5, <2>3 DEF PushReserve, Snapshots, Holding, PublishTo, Start
  <1>6. CASE PushRetry(p)
    BY Zenon, <1>1, <1>6 DEF PushRetry, Snapshots, Holding, PublishTo, Start
  <1>7. CASE PushWriteHeader(p)
    BY Zenon, <1>1, <1>7 DEF PushWriteHeader, Snapshots, Holding, PublishTo, Start
  <1>8. CASE PushWritePayload(p)
    BY Zenon, <1>1, <1>8 DEF PushWritePayload, Snapshots, Holding, PublishTo, Start
  <1>9. CASE PushTakeTurn(p)
    BY Zenon, <1>1, <1>9 DEF PushTakeTurn, Snapshots, Holding, PublishTo, Start
  <1>10. CASE PushPublish(p)
    BY Zenon, <1>1, <1>10 DEF PushPublish, Return, Snapshots, Holding, PublishTo, Start
  <1>11. ASSUME NEW size \in Sizes, PushCall(p, size) PROVE Snapshots'
    BY Zenon, <1>1, <1>11 DEF PushCall, Snapshots, Holding, PublishTo, Start
  <1>12. CASE PushCrash(p)
    BY Zenon, <1>1, <1>12 DEF PushCrash, Snapshots, Holding, PublishTo, Start
  <1> QED BY Zenon, <1>2, <1>3, <1>4, <1>5, <1>6, <1>7, <1>8, <1>9,
             <1>10, <1>11, <1>12 DEF Push, PushStep

-------------------------------------------------------------------------------
(* The three stores of try_push into the ring: they stay in the reservation,  *)
(* so the words of other calls, and of records not given back, survive them.  *)

\* The reservation of a call, in the ring and in the window of the cursors.
LEMMA HoldingSpan ==
    ASSUME WriterTypeOK, Reservations, Snapshots, head_publish <= tail_publish,
           NEW p \in Producers, ppc[p] \in Holding
    PROVE  /\ Start(p) + ppad[p] \in Nat
           /\ Pos(Start(p) + ppad[p]) = RecordPos(p)
           /\ RecordPos(p) \in 0..(Capacity - 1)
           /\ RecordPos(p) + RecordWords(psize[p]) <= Capacity
           /\ \A j \in 0..(RecordWords(psize[p]) - 1) :
                  Pos(Start(p) + ppad[p] + j) = RecordPos(p) + j
           /\ ppad[p] > 0 => ppad[p] = Remaining(Start(p))
           /\ head_publish <= tail_publish
           /\ head_publish <= Start(p)
           /\ tail_publish <= Start(p)
           /\ PublishTo(p) <= tail_reserve
           /\ PublishTo(p) <= head_publish + Capacity
  <1>1. /\ Start(p) \in Nat /\ ppad[p] \in Nat /\ Start(p) = ptail[p]
        /\ RecordWords(psize[p]) \in 2..Capacity /\ PublishTo(p) \in Nat
    BY Zenon, CallType
  <1>2. ppad[p] = Padding(Start(p), RecordWords(psize[p]))
    BY Zenon, <1>1 DEF Snapshots
  <1>3. /\ ppad[p] = 0 \/ ppad[p] = Remaining(Start(p))
        /\ Pos(Start(p) + ppad[p]) = IF ppad[p] > 0 THEN 0 ELSE Pos(Start(p))
        /\ Pos(Start(p) + ppad[p]) \in 0..(Capacity - 1)
        /\ Pos(Start(p) + ppad[p]) + RecordWords(psize[p]) <= Capacity
        /\ \A j \in 0..(RecordWords(psize[p]) - 1) :
               Pos(Start(p) + ppad[p] + j) = Pos(Start(p) + ppad[p]) + j
    BY <1>1, <1>2, RecordSpan
  <1>4. Pos(Start(p) + ppad[p]) = RecordPos(p)
    BY Zenon, <1>3 DEF RecordPos
  <1>5. tail_publish <= Start(p) /\ PublishTo(p) <= tail_reserve
    BY Zenon DEF Reservations
  <1>6. head_publish <= tail_publish /\ tail_reserve <= head_publish + Capacity
    BY Zenon DEF Snapshots
  <1>7. head_publish <= Start(p) /\ PublishTo(p) <= head_publish + Capacity
    <2> DEFINE start == Start(p)
               end == PublishTo(p)
    <2>1. start \in Nat /\ end \in Nat /\ tail_publish <= start /\ end <= tail_reserve
      BY Zenon, <1>5, CallType
    <2> HIDE DEF start, end
    <2>2. head_publish <= start /\ end <= head_publish + Capacity
      BY <1>6, <2>1, CursorType, CapacityType
    <2> QED BY Zenon, <2>2 DEF start, end
  <1> QED BY <1>1, <1>3, <1>4, <1>5, <1>6, <1>7

\* Words outside a reservation that the window of the cursors holds.
Elsewhere(c, p) ==
    /\ c \in Nat /\ head_publish <= c /\ c < head_publish + Capacity
    /\ c < Start(p) \/ c >= PublishTo(p)

\* The stores of wrap record and header hit their words and none that others use.
LEMMA HeaderStored ==
    ASSUME WriterTypeOK, Reservations, Snapshots, head_publish <= tail_publish,
           NEW p \in Producers, PushWriteHeader(p)
    PROVE  /\ ring'[Pos(Start(p) + ppad[p])] = HeaderCell(psize[p], Current(p), FALSE)
           /\ ppad[p] >= HeaderWords => ring'[Pos(Start(p))] = WrapCell
           /\ \A c : Elsewhere(c, p) => ring'[Pos(c)] = ring[Pos(c)]
  <1> DEFINE wrap == <<HeaderCell(0, NoMessage, TRUE), SequenceCell(0)>>
             header == <<HeaderCell(psize[p], Current(p), FALSE), SequenceCell(0)>>
             wrapped == IF ppad[p] >= HeaderWords
                        THEN Overwrite(ring, Pos(Start(p)), wrap) ELSE ring
             b == Start(p) + ppad[p]
             words == RecordWords(psize[p])
  <1>1. ppc[p] \in Holding
    BY Zenon DEF PushWriteHeader, Holding
  <1>2. /\ Start(p) \in Nat /\ ppad[p] \in Nat /\ words \in 2..Capacity
        /\ PublishTo(p) = b + words /\ head_publish \in Nat
    BY Zenon, CallType, CursorType
  <1>3. /\ b \in Nat /\ Pos(b) = RecordPos(p) /\ Pos(b) + words <= Capacity
        /\ Pos(b) \in 0..(Capacity - 1)
        /\ ppad[p] > 0 => ppad[p] = Remaining(Start(p))
        /\ head_publish <= Start(p) /\ b + words <= head_publish + Capacity
    BY Zenon, <1>1, <1>2, HoldingSpan
  <1>4. /\ Len(wrap) = 2 /\ wrap[1] = WrapCell
        /\ Len(header) = 2 /\ header[1] = HeaderCell(psize[p], Current(p), FALSE)
    BY Zenon DEF WrapCell
  <1>5. ring' = Overwrite(wrapped, Pos(b), header)
    BY Zenon, <1>3 DEF PushWriteHeader
  <1>L. /\ Len(wrap) \in Nat /\ Len(header) \in Nat
        /\ Len(wrap) > 0 /\ Len(header) > 0
    BY <1>4
  <1>6. HeaderWords = 2
    BY Zenon, RecordGeometry
  <1> HIDE DEF wrap, header, wrapped, b, words
  <1>8. ring'[Pos(b)] = HeaderCell(psize[p], Current(p), FALSE)
    <2>1. Pos(b) + Len(header) <= Capacity
      BY <1>2, <1>3, <1>4, CapacityType
    <2>2. Overwrite(wrapped, Pos(b), header)[Pos(b)] = header[1]
      BY Zenon, <1>3, <1>L, <2>1, StoreHitsFirst
    <2> QED BY Zenon, <1>4, <1>5, <2>2
  <1>9. ASSUME ppad[p] >= HeaderWords PROVE Pos(Start(p)) + Len(wrap) <= Capacity
    BY <1>2, <1>3, <1>4, <1>6, <1>9, CapacityType, PosQuotient DEF Remaining
  <1>10. ASSUME ppad[p] >= HeaderWords PROVE ring'[Pos(Start(p))] = WrapCell
    <2>1. Overwrite(ring, Pos(Start(p)), wrap)[Pos(Start(p))] = wrap[1]
      BY ZenonT(30), <1>2, <1>L, <1>9, <1>10, StoreHitsFirst
    <2>2. wrapped[Pos(Start(p))] = WrapCell
      BY Zenon, <1>4, <1>10, <2>1 DEF wrapped
    <2>3. Overwrite(wrapped, Pos(b), header)[Pos(Start(p))] = wrapped[Pos(Start(p))]
      <3>1. Apart(head_publish, b, Len(header), Start(p))
        BY <1>2, <1>3, <1>4, <1>6, <1>10, CapacityType DEF b, Apart
      <3> QED BY <3>1, StoreApart
    <2> QED BY Zenon, <1>5, <2>2, <2>3
  <1>11. ASSUME NEW c, Elsewhere(c, p) PROVE ring'[Pos(c)] = ring[Pos(c)]
    <2>1. /\ c \in Nat /\ head_publish <= c /\ c < head_publish + Capacity
          /\ c < Start(p) \/ c >= b + words
      BY Zenon, <1>2, <1>11 DEF Elsewhere
    <2>2. Overwrite(wrapped, Pos(b), header)[Pos(c)] = wrapped[Pos(c)]
      <3>1. Apart(head_publish, b, Len(header), c)
        BY <1>2, <1>3, <1>4, <2>1, CapacityType DEF b, Apart
      <3> QED BY <3>1, StoreApart
    <2>3. wrapped[Pos(c)] = ring[Pos(c)]
      <3>1. CASE ppad[p] >= HeaderWords
        <4>1. Apart(head_publish, Start(p), Len(wrap), c)
          BY <1>2, <1>3, <1>4, <1>6, <1>9, <2>1, <3>1, CapacityType DEF b, Apart
        <4>2. Overwrite(ring, Pos(Start(p)), wrap)[Pos(c)] = ring[Pos(c)]
          BY <4>1, StoreApart
        <4> QED BY Zenon, <3>1, <4>2 DEF wrapped
      <3>2. CASE ~ (ppad[p] >= HeaderWords)
        BY Zenon, <3>2 DEF wrapped
      <3> QED BY Zenon, <3>1, <3>2
    <2> QED BY Zenon, <1>5, <2>2, <2>3
  <1> QED BY Zenon, <1>8, <1>10, <1>11 DEF b

\* The memcpy of the payload fills the words behind the header and no others.
LEMMA PayloadStored ==
    ASSUME WriterTypeOK, Reservations, Snapshots, head_publish <= tail_publish,
           NEW p \in Producers, PushWritePayload(p)
    PROVE  /\ \A j \in 1..PayloadWords(psize[p]) :
                  ring'[Pos(Start(p) + ppad[p] + 1 + j)] = PayloadCell(Current(p), j)
           /\ \A c \in Nat : /\ head_publish <= c /\ c < head_publish + Capacity
                             /\ c < Start(p) + ppad[p] + 2 \/ c >= PublishTo(p)
                             => ring'[Pos(c)] = ring[Pos(c)]
  <1> DEFINE cells == Payload(Current(p), psize[p])
             b == Start(p) + ppad[p]
             d == b + 2
             words == RecordWords(psize[p])
  <1>1. ppc[p] \in Holding
    BY Zenon DEF PushWritePayload, Holding
  <1>2. /\ Start(p) \in Nat /\ ppad[p] \in Nat /\ words \in 2..Capacity
        /\ PublishTo(p) = b + words /\ head_publish \in Nat
        /\ PayloadWords(psize[p]) \in Nat /\ PayloadWords(psize[p]) = words - 2
    BY Zenon, CallType, CursorType
  <1>3. /\ b \in Nat /\ Pos(b) = RecordPos(p) /\ Pos(b) + words <= Capacity
        /\ Pos(b) \in 0..(Capacity - 1)
        /\ head_publish <= Start(p) /\ b + words <= head_publish + Capacity
    BY Zenon, <1>1, <1>2, HoldingSpan
  <1>4. Len(cells) = words - 2 /\ Len(cells) \in Nat
    BY <1>2 DEF Payload
  <1>C. \A j \in 1..(words - 2) : cells[j] = PayloadCell(Current(p), j)
    BY Zenon, <1>2 DEF Payload
  <1>5. ring' = Overwrite(ring, RecordPos(p) + 2, cells)
    BY Zenon, RecordGeometry DEF PushWritePayload
  <1> HIDE DEF cells, words
  <1>6. CASE words = 2
    <2>1. Len(cells) = 0
      BY <1>4, <1>6
    <2>2. \A c \in Nat : ring'[Pos(c)] = ring[Pos(c)]
      <3>1. ASSUME NEW c \in Nat PROVE Pos(c) \in Words
        BY Zenon, PosRange
      <3> QED BY <1>5, <2>1, <3>1 DEF Overwrite
    <2> QED BY <1>2, <1>6, <2>2
  <1>7. CASE words > 2
    <2>1. 2 \in 0..(words - 1)
      BY <1>2, <1>7
    <2>P. Pos(d) = Pos(b) + 2
      BY Zenon, <1>1, <1>3, <2>1, HoldingSpan DEF words
    <2>2. d \in Nat /\ Pos(d) = Pos(b) + 2 /\ ring' = Overwrite(ring, Pos(d), cells)
      BY <1>3, <1>5, <2>P
    <2>3. Pos(d) + Len(cells) <= Capacity
      BY <1>2, <1>3, <1>4, <2>2, CapacityType
    <2>4. ASSUME NEW j \in 1..(words - 2)
          PROVE  ring'[Pos(b + 1 + j)] = PayloadCell(Current(p), j)
      <3> DEFINE k == j - 1
      <3>0. words \in 2..Capacity /\ Len(cells) = words - 2 /\ b \in Nat
        BY Zenon, <1>2, <1>3, <1>4
      <3> HIDE DEF b
      <3>1. k \in 0..(Len(cells) - 1) /\ k + 1 = j /\ d + k = b + 1 + j
        BY <3>0, CapacityType
      <3> HIDE DEF k, d
      <3>T. d \in Nat /\ Len(cells) \in Nat /\ k \in 0..(Len(cells) - 1)
        BY Zenon, <1>4, <2>2, <3>1
      <3>P. Pos(d) \in 0..(Capacity - 1)
        BY Zenon, <3>T, PosQuotient
      <3>Q. k \in Nat /\ Pos(d) + k < Capacity
        BY <2>3, <3>T, <3>P, CapacityType
      <3>2. Pos(d + k) = Pos(d) + k
        BY Zenon, <3>Q, <3>T, PosAdd
      <3>3. Pos(d + k) \in Words /\ Pos(d + k) - Pos(d) + 1 \in 1..Len(cells)
            /\ Pos(d + k) - Pos(d) + 1 = k + 1
        BY <2>3, <3>T, <3>P, <3>2, CapacityType DEF Words
      <3>4. ring'[Pos(d + k)] = cells[k + 1]
        BY Zenon, <2>2, <3>3 DEF Overwrite
      <3> QED BY Zenon, <1>C, <3>1, <3>4
    <2>5. ASSUME NEW c \in Nat, head_publish <= c, c < head_publish + Capacity,
                 c < b + 2 \/ c >= b + words
          PROVE  ring'[Pos(c)] = ring[Pos(c)]
      <3>1. words \in Nat /\ head_publish \in Nat /\ b \in Nat /\ Len(cells) \in Nat
        BY <1>2, <1>3, <1>4
      <3>2. head_publish <= d
        BY <1>2, <1>3
      <3> HIDE DEF b
      <3>3. d + Len(cells) = b + words
        BY <1>4, <3>1
      <3>4. d + Len(cells) <= head_publish + Capacity
        BY Zenon, <1>3, <3>3
      <3>5. c < d \/ c >= d + Len(cells)
        BY Zenon, <2>5, <3>3
      <3> HIDE DEF d
      <3>6. Overwrite(ring, Pos(d), cells)[Pos(c)] = ring[Pos(c)]
        BY <2>2, <2>3, <2>5, <3>1, <3>2, <3>4, <3>5, StoreMisses
      <3> QED BY Zenon, <2>2, <3>6
    <2> QED BY Zenon, <1>2, <2>4, <2>5
  <1> QED BY <1>2, <1>6, <1>7

\* The store of the sequence number changes the second word of the header only.
LEMMA SequenceStored ==
    ASSUME WriterTypeOK, Reservations, Snapshots, head_publish <= tail_publish,
           NEW p \in Producers, PushTakeTurn(p)
    PROVE  /\ ring'[Pos(Start(p) + ppad[p] + 1)] = SequenceCell(sequence + 1)
           /\ \A c \in Nat : /\ head_publish <= c /\ c < head_publish + Capacity
                             /\ c # Start(p) + ppad[p] + 1
                             => ring'[Pos(c)] = ring[Pos(c)]
  <1> DEFINE cells == <<SequenceCell(sequence + 1)>>
             b == Start(p) + ppad[p]
             d == b + 1
             words == RecordWords(psize[p])
  <1>1. ppc[p] \in Holding
    BY Zenon DEF PushTakeTurn, Holding
  <1>2. /\ Start(p) \in Nat /\ ppad[p] \in Nat /\ words \in 2..Capacity
        /\ PublishTo(p) = b + words /\ head_publish \in Nat
    BY CallType, CursorType
  <1>3. /\ b \in Nat /\ Pos(b) = RecordPos(p) /\ Pos(b) + words <= Capacity
        /\ Pos(b) \in 0..(Capacity - 1)
        /\ \A j \in 0..(words - 1) : Pos(b + j) = Pos(b) + j
        /\ head_publish <= Start(p) /\ b + words <= head_publish + Capacity
    BY Zenon, <1>1, <1>2, HoldingSpan
  <1>4. Len(cells) = 1 /\ cells[1] = SequenceCell(sequence + 1)
    BY Zenon
  <1>5. ring' = Overwrite(ring, RecordPos(p) + 1, cells)
    BY Zenon DEF PushTakeTurn
  <1> HIDE DEF cells, words
  <1>6. 1 \in 0..(words - 1)
    BY <1>2
  <1>7. d \in Nat /\ Pos(d) = Pos(b) + 1 /\ ring' = Overwrite(ring, Pos(d), cells)
    BY <1>3, <1>5, <1>6
  <1>8. /\ Pos(d) + Len(cells) <= Capacity /\ Len(cells) \in Nat /\ Len(cells) > 0
        /\ head_publish <= d /\ d + Len(cells) <= head_publish + Capacity
    BY <1>2, <1>3, <1>4, <1>7, CapacityType
  <1>9. ASSUME NEW c \in Nat, c # d PROVE c < d \/ c >= d + Len(cells)
    BY <1>4, <1>7, <1>9
  <1> HIDE DEF d
  <1>10. ring'[Pos(d)] = SequenceCell(sequence + 1)
    <2>1. Overwrite(ring, Pos(d), cells)[Pos(d)] = cells[1]
      BY Zenon, <1>7, <1>8, StoreHitsFirst
    <2> QED BY Zenon, <1>4, <1>7, <2>1
  <1>11. ASSUME NEW c \in Nat, head_publish <= c, c < head_publish + Capacity, c # d
         PROVE  ring'[Pos(c)] = ring[Pos(c)]
    <2>1. Overwrite(ring, Pos(d), cells)[Pos(c)] = ring[Pos(c)]
      BY <1>2, <1>7, <1>8, <1>9, <1>11, StoreMisses
    <2> QED BY Zenon, <1>7, <2>1
  <1> QED BY Zenon, <1>10, <1>11 DEF b, d

-------------------------------------------------------------------------------
(* Records that were published stay as they are until they are given back. *)

\* No step of a producer changes a published word that was not given back.
LEMMA PushKeepsWords ==
    ASSUME WriterTypeOK, Reservations, Snapshots, head_publish <= tail_publish,
           NEW p \in Producers, Push(p),
           NEW c \in Nat, head_publish <= c, c < tail_publish
    PROVE  ring'[Pos(c)] = ring[Pos(c)]
  <1>1. ASSUME ppc[p] \in Holding
        PROVE  /\ c < head_publish + Capacity
               /\ c < Start(p) /\ c < Start(p) + ppad[p] + 1
               /\ c < Start(p) + ppad[p] + 2 /\ c # Start(p) + ppad[p] + 1
    <2>1. /\ tail_publish <= Start(p) /\ PublishTo(p) <= head_publish + Capacity
      BY Zenon, <1>1, HoldingSpan
    <2>2. /\ Start(p) \in Nat /\ ppad[p] \in Nat /\ PublishTo(p) \in Nat
          /\ RecordWords(psize[p]) \in Nat
          /\ PublishTo(p) = Start(p) + ppad[p] + RecordWords(psize[p])
          /\ head_publish \in Nat /\ tail_publish \in Nat
      BY CallType, CursorType
    <2> QED BY <2>1, <2>2, CapacityType
  <1>2. CASE PushWriteHeader(p)
    BY Zenon, <1>1, <1>2, HeaderStored DEF PushWriteHeader, Holding, Elsewhere
  <1>3. CASE PushWritePayload(p)
    <2>1. c < head_publish + Capacity /\ c < Start(p) + ppad[p] + 2
      BY Zenon, <1>1, <1>3 DEF PushWritePayload, Holding
    <2> QED BY Zenon, <1>3, <2>1, PayloadStored
  <1>4. CASE PushTakeTurn(p)
    <2>1. c < head_publish + Capacity /\ c # Start(p) + ppad[p] + 1
      BY Zenon, <1>1, <1>4 DEF PushTakeTurn, Holding
    <2> QED BY Zenon, <1>4, <2>1, SequenceStored
  <1>5. CASE ~ (PushWriteHeader(p) \/ PushWritePayload(p) \/ PushTakeTurn(p))
    BY Zenon, <1>5 DEF Push, PushStep, PushLoadHead, PushLoadTail, PushReject,
       PushReserve, PushRetry, PushPublish, PushCall, PushCrash, producerVars,
       controlVars
  <1> QED BY Zenon, <1>2, <1>3, <1>4, <1>5

\* Steps that keep the log and the words from the new head_publish on.
LEMMA UnreadFrame ==
    ASSUME WriterTypeOK, Layout, Unread, UNCHANGED log,
           head_publish' \in Nat, head_publish <= head_publish',
           \A c \in Nat : head_publish' <= c /\ c < tail_publish
                              => ring'[Pos(c)] = ring[Pos(c)]
    PROVE  Unread'
  <1> SUFFICES ASSUME NEW i \in 1..Len(log)
               PROVE  /\ head_publish' <= Base(log[i]) =>
                          /\ ring'[Pos(Base(log[i]))] = HeaderCell(log[i].size, log[i].msg, FALSE)
                          /\ ring'[Pos(Base(log[i]) + 1)] = SequenceCell(i)
                          /\ \A j \in 1..PayloadWords(log[i].size) :
                                ring'[Pos(Base(log[i]) + 1 + j)] = PayloadCell(log[i].msg, j)
                      /\ log[i].pad >= HeaderWords /\ head_publish' <= log[i].at =>
                            ring'[Pos(log[i].at)] = WrapCell
    BY Zenon DEF Unread, Stored, Word, Base, WrapCell
  <1>1. /\ log[i].at \in Nat /\ Base(log[i]) \in Nat /\ End(log[i]) \in Nat
        /\ PayloadWords(log[i].size) = RecordWords(log[i].size) - 2
        /\ RecordWords(log[i].size) \in 2..Capacity
        /\ End(log[i]) = Base(log[i]) + RecordWords(log[i].size)
        /\ log[i].at <= Base(log[i]) /\ Base(log[i]) < End(log[i])
        /\ End(log[i]) <= tail_publish
    BY Zenon, RecordType, RecordOrder, RecordsPublished
  <1>2. head_publish \in Nat /\ tail_publish \in Nat
    BY Zenon, CursorType
  <1>3. ASSUME head_publish' <= Base(log[i]),
               NEW k \in 0..(RecordWords(log[i].size) - 1)
        PROVE  ring'[Pos(Base(log[i]) + k)] = ring[Pos(Base(log[i]) + k)]
    <2> DEFINE base == Base(log[i])
               end == End(log[i])
               words == RecordWords(log[i].size)
    <2>1. /\ base \in Nat /\ end \in Nat /\ words \in 2..Capacity /\ end = base + words
          /\ head_publish' <= base /\ end <= tail_publish /\ k \in 0..(words - 1)
      BY Zenon, <1>1, <1>3
    <2> HIDE DEF base, end, words
    <2>2. base + k \in Nat /\ head_publish' <= base + k /\ base + k < tail_publish
      BY <1>2, <2>1, CapacityType
    <2>3. ring'[Pos(base + k)] = ring[Pos(base + k)]
      BY Zenon, <2>2
    <2> QED BY Zenon, <2>3 DEF base
  <1>4. ASSUME head_publish' <= Base(log[i]) PROVE Stored(i)
    <2>1. head_publish <= Base(log[i])
      BY <1>1, <1>2, <1>4
    <2> QED BY Zenon, <2>1 DEF Unread
  <1>5. ASSUME head_publish' <= Base(log[i])
        PROVE  ring'[Pos(Base(log[i]))] = HeaderCell(log[i].size, log[i].msg, FALSE)
    <2>1. Base(log[i]) < tail_publish
      BY <1>1, <1>2
    <2>2. ring'[Pos(Base(log[i]))] = ring[Pos(Base(log[i]))]
      BY Zenon, <1>1, <1>5, <2>1
    <2> QED BY Zenon, <1>4, <1>5, <2>2 DEF Stored, Word
  <1>6. ASSUME head_publish' <= Base(log[i])
        PROVE  ring'[Pos(Base(log[i]) + 1)] = SequenceCell(i)
    <2>1. 1 \in 0..(RecordWords(log[i].size) - 1)
      BY <1>1
    <2>2. ring'[Pos(Base(log[i]) + 1)] = ring[Pos(Base(log[i]) + 1)]
      BY Zenon, <1>3, <1>6, <2>1
    <2> QED BY Zenon, <1>4, <1>6, <2>2 DEF Stored, Word
  <1>7. ASSUME head_publish' <= Base(log[i]), NEW j \in 1..PayloadWords(log[i].size)
        PROVE  ring'[Pos(Base(log[i]) + 1 + j)] = PayloadCell(log[i].msg, j)
    <2> DEFINE k == 1 + j
    <2>1. k \in 0..(RecordWords(log[i].size) - 1) /\ Base(log[i]) + k = Base(log[i]) + 1 + j
      BY <1>1
    <2>2. ring'[Pos(Base(log[i]) + k)] = ring[Pos(Base(log[i]) + k)]
      BY Zenon, <1>3, <1>7, <2>1
    <2>3. ring[Pos(Base(log[i]) + 1 + j)] = PayloadCell(log[i].msg, j)
      BY Zenon, <1>4, <1>7 DEF Stored, Word
    <2> HIDE DEF k
    <2> QED BY Zenon, <2>1, <2>2, <2>3
  <1>8. ASSUME log[i].pad >= HeaderWords, head_publish' <= log[i].at
        PROVE  ring'[Pos(log[i].at)] = WrapCell
    <2>1. log[i].at < tail_publish /\ head_publish <= log[i].at
      BY <1>1, <1>2, <1>8
    <2>2. ring[Pos(log[i].at)] = WrapCell
      BY Zenon, <1>8, <2>1 DEF Unread, Word
    <2> QED BY Zenon, <1>1, <1>8, <2>1, <2>2
  <1> QED BY Zenon, <1>5, <1>6, <1>7, <1>8

\* A record that is published is already in the ring.
LEMMA UnreadPublish ==
    ASSUME WriterTypeOK, Reservations, Snapshots, Writing, Unread,
           NEW p \in Producers, PushPublish(p)
    PROVE  Unread'
  <1> DEFINE n == Len(log)
             r == Published(p)
  <1>1. /\ Len(log') = n + 1
        /\ \A i \in 1..n : log'[i] = log[i]
        /\ log'[n + 1] = r
        /\ r.at = Start(p) /\ r.pad = ppad[p] /\ r.size = psize[p]
        /\ r.msg = Current(p)
        /\ Base(r) = Start(p) + ppad[p]
        /\ ppc[p] = "publish"
        /\ UNCHANGED <<ring, head_publish>>
    BY Zenon, PublishFacts
  <1>2. n \in Nat
    BY Zenon, CursorType
  <1> HIDE DEF r
  <1>4. /\ Word(Base(r)) = HeaderCell(r.size, r.msg, FALSE)
        /\ Word(Base(r) + 1) = SequenceCell(n + 1)
        /\ \A j \in 1..PayloadWords(r.size) :
               Word(Base(r) + 1 + j) = PayloadCell(r.msg, j)
        /\ r.pad >= HeaderWords => Word(r.at) = WrapCell
    BY Zenon, <1>1 DEF Writing, WritingOf
  <1> SUFFICES ASSUME NEW i \in 1..(n + 1)
               PROVE  /\ head_publish <= Base(log'[i]) =>
                          /\ Word(Base(log'[i])) = HeaderCell(log'[i].size, log'[i].msg, FALSE)
                          /\ Word(Base(log'[i]) + 1) = SequenceCell(i)
                          /\ \A j \in 1..PayloadWords(log'[i].size) :
                                Word(Base(log'[i]) + 1 + j) = PayloadCell(log'[i].msg, j)
                      /\ log'[i].pad >= HeaderWords /\ head_publish <= log'[i].at =>
                            Word(log'[i].at) = WrapCell
    BY Zenon, <1>1 DEF Unread, Stored, Word, Base, WrapCell
  <1>5. CASE i = n + 1
    BY Zenon, <1>1, <1>4, <1>5
  <1>6. CASE i \in 1..n
    BY Zenon, <1>1, <1>6 DEF Unread, Stored
  <1>7. i = n + 1 \/ i \in 1..n
    BY <1>2
  <1> QED BY Zenon, <1>5, <1>6, <1>7

\* Every step of a producer keeps the records that were not given back.
LEMMA UnreadPush ==
    ASSUME WriterTypeOK, Reservations, Layout, Snapshots, Writing, Unread,
           head_publish <= tail_publish, NEW p \in Producers, Push(p)
    PROVE  Unread'
  <1>1. CASE PushPublish(p)
    BY Zenon, <1>1, UnreadPublish
  <1>2. CASE ~ PushPublish(p)
    <2>1. UNCHANGED <<log, head_publish>>
      BY Zenon, <1>2, LogChanges
    <2>2. \A c \in Nat : head_publish' <= c /\ c < tail_publish
                             => ring'[Pos(c)] = ring[Pos(c)]
      BY Zenon, <2>1, PushKeepsWords
    <2>3. head_publish' \in Nat /\ head_publish <= head_publish'
      BY <2>1, CursorType
    <2> QED BY Zenon, <2>1, <2>2, <2>3, UnreadFrame
  <1> QED BY Zenon, <1>1, <1>2

-------------------------------------------------------------------------------
(* A call's words stay as it wrote them until it publishes. *)

\* A step of somebody else.
LEMMA WritingOfFrame ==
    ASSUME WriterTypeOK, NEW q \in Producers, WritingOf(q),
           /\ ppc'[q] = ppc[q] /\ psize'[q] = psize[q] /\ ptail'[q] = ptail[q]
           /\ ppad'[q] = ppad[q] /\ sent'[q] = sent[q],
           ppc[q] = "publish" => Len(log') = Len(log) /\ sequence' = sequence,
           ppc[q] \in Holding =>
               \A c \in Nat : Start(q) <= c /\ c < PublishTo(q)
                                  => ring'[Pos(c)] = ring[Pos(c)]
    PROVE  WritingOf(q)'
  <1> DEFINE b == Start(q) + ppad[q]
             words == RecordWords(psize[q])
  <1>1. /\ Start(q)' = Start(q) /\ Current(q)' = Current(q)
    BY Zenon DEF Start, Current
  <1>2. /\ Start(q) \in Nat /\ ppad[q] \in Nat /\ b \in Nat /\ words \in 2..Capacity
        /\ PublishTo(q) = b + words
        /\ PayloadWords(psize[q]) = words - 2
    BY CallType
  <1> HIDE DEF words
  <1>3. ASSUME ppc[q] \in Holding, NEW c \in Nat, Start(q) <= c, c < b + words
        PROVE  ring'[Pos(c)] = ring[Pos(c)]
    BY Zenon, <1>2, <1>3
  <1>4. ASSUME ppc[q] \in {"payload", "wait", "publish"}
        PROVE  /\ ring'[Pos(b)] = HeaderCell(psize[q], Current(q), FALSE)
               /\ ppad[q] >= HeaderWords => ring'[Pos(Start(q))] = WrapCell
    <2>1. /\ Start(q) <= b /\ b < b + words /\ Start(q) < b + words
          /\ ppc[q] \in Holding
      BY <1>2, <1>4 DEF Holding
    <2>2. ring'[Pos(b)] = ring[Pos(b)] /\ ring'[Pos(Start(q))] = ring[Pos(Start(q))]
      BY <1>2, <1>3, <2>1
    <2> QED BY Zenon, <1>4, <2>2 DEF WritingOf, Word
  <1>5. ASSUME ppc[q] \in {"wait", "publish"}, NEW j \in 1..PayloadWords(psize[q])
        PROVE  ring'[Pos(b + 1 + j)] = PayloadCell(Current(q), j)
    <2>0. j \in 1..(words - 2) /\ ppc[q] \in Holding
      BY Zenon, <1>2, <1>5 DEF Holding
    <2>1. b + 1 + j \in Nat /\ Start(q) <= b + 1 + j /\ b + 1 + j < b + words
      BY <1>2, <2>0
    <2>2. ring'[Pos(b + 1 + j)] = ring[Pos(b + 1 + j)]
      BY Zenon, <1>3, <2>0, <2>1
    <2> QED BY Zenon, <1>5, <2>2 DEF WritingOf, Word
  <1>6. ASSUME ppc[q] = "publish"
        PROVE  /\ ring'[Pos(b + 1)] = SequenceCell(Len(log') + 1)
               /\ sequence' = Len(log') + 1
    <2>0. ppc[q] \in Holding
      BY Zenon, <1>6 DEF Holding
    <2>1. b + 1 \in Nat /\ Start(q) <= b + 1 /\ b + 1 < b + words
      BY <1>2
    <2>2. ring'[Pos(b + 1)] = ring[Pos(b + 1)]
      BY Zenon, <1>3, <2>0, <2>1
    <2> QED BY Zenon, <1>6, <2>2 DEF WritingOf, Word
  <1> QED BY Zenon, <1>1, <1>4, <1>5, <1>6 DEF WritingOf, Word, WrapCell

\* One call at a time is between taking its turn and publishing.
LEMMA OneTurn ==
    ASSUME WriterTypeOK, Reservations, NEW p \in Producers, NEW q \in Producers,
           ppc[p] \in Holding, tail_publish = Start(p), ppc[q] = "publish"
    PROVE  p = q
  <1>1. ppc[q] \in Holding /\ tail_publish = Start(q)
    BY Zenon DEF Reservations, Holding
  <1>2. /\ Start(p) \in Nat /\ PublishTo(p) \in Nat /\ Start(p) < PublishTo(p)
        /\ Start(q) \in Nat /\ PublishTo(q) \in Nat /\ Start(q) < PublishTo(q)
    BY ReservationType
  <1>3. p # q => PublishTo(p) <= Start(q) \/ PublishTo(q) <= Start(p)
    BY Zenon, <1>1 DEF Reservations
  <1> QED BY <1>1, <1>2, <1>3

\* The words of one reservation are elsewhere for the other ones.
LEMMA OthersElsewhere ==
    ASSUME WriterTypeOK, Reservations, Snapshots, head_publish <= tail_publish,
           NEW p \in Producers, NEW q \in Producers, p # q,
           ppc[p] \in Holding, ppc[q] \in Holding,
           NEW c \in Nat, Start(q) <= c, c < PublishTo(q)
    PROVE  /\ Elsewhere(c, p)
           /\ head_publish <= c /\ c < head_publish + Capacity
           /\ c < Start(p) + ppad[p] + 2 \/ c >= PublishTo(p)
           /\ c # Start(p) + ppad[p] + 1
  <1>1. PublishTo(p) <= Start(q) \/ PublishTo(q) <= Start(p)
    BY Zenon DEF Reservations
  <1>2. /\ Start(p) \in Nat /\ ppad[p] \in Nat /\ PublishTo(p) \in Nat
        /\ RecordWords(psize[p]) \in 2..Capacity
        /\ PublishTo(p) = Start(p) + ppad[p] + RecordWords(psize[p])
        /\ Start(q) \in Nat /\ PublishTo(q) \in Nat
    BY Zenon, CallType
  <1>3. /\ head_publish <= Start(q) /\ PublishTo(q) <= head_publish + Capacity
        /\ head_publish \in Nat
    BY Zenon, HoldingSpan, CursorType
  <1>4. head_publish <= c /\ c < head_publish + Capacity
    BY <1>2, <1>3, CapacityType
  <1>5. c < Start(p) \/ c >= PublishTo(p)
    BY <1>1, <1>2
  <1>6. c < Start(p) + ppad[p] + 2 \/ c >= PublishTo(p)
    BY <1>2, <1>5
  <1>7. c # Start(p) + ppad[p] + 1
    BY <1>2, <1>5
  <1> QED BY Zenon, <1>4, <1>5, <1>6, <1>7 DEF Elsewhere

\* What the other calls wrote survives the stores of this one.
LEMMA WritingOthers ==
    ASSUME WriterTypeOK, Reservations, Snapshots, head_publish <= tail_publish, Writing,
           NEW p \in Producers, Push(p), NEW q \in Producers, q # p
    PROVE  WritingOf(q)'
  <1>1. /\ ppc'[q] = ppc[q] /\ psize'[q] = psize[q] /\ ptail'[q] = ptail[q]
        /\ ppad'[q] = ppad[q] /\ sent'[q] = sent[q]
    BY Zenon DEF Push, PushStep, PushLoadHead, PushLoadTail, PushReject, PushReserve,
       PushRetry, PushWriteHeader, PushWritePayload, PushTakeTurn, PushPublish,
       PushCall, PushCrash, Return, producerVars, controlVars, WriterTypeOK
  <1>2. ppc[q] = "publish" => ~ PushTakeTurn(p) /\ ~ PushPublish(p)
    <2>1. ASSUME PushTakeTurn(p), ppc[q] = "publish" PROVE FALSE
      BY Zenon, <2>1, OneTurn DEF PushTakeTurn, Holding
    <2>2. ASSUME PushPublish(p), ppc[q] = "publish" PROVE FALSE
      BY Zenon, <2>2, OneTurn DEF PushPublish, Holding, Reservations
    <2> QED BY Zenon, <2>1, <2>2
  <1>3. ppc[q] = "publish" => Len(log') = Len(log) /\ sequence' = sequence
    BY Zenon, <1>2 DEF Push, PushStep, PushLoadHead, PushLoadTail, PushReject, PushReserve,
       PushRetry, PushWriteHeader, PushWritePayload, PushCall, PushCrash,
       producerVars, controlVars
  <1>4. ASSUME ppc[q] \in Holding, NEW c \in Nat, Start(q) <= c, c < PublishTo(q)
        PROVE  ring'[Pos(c)] = ring[Pos(c)]
    <2>1. CASE PushWriteHeader(p)
      <3>1. ppc[p] \in Holding
        BY Zenon, <2>1 DEF PushWriteHeader, Holding
      <3> QED BY ZenonT(30), <1>4, <2>1, <3>1, OthersElsewhere, HeaderStored
    <2>2. CASE PushWritePayload(p)
      <3>1. ppc[p] \in Holding
        BY Zenon, <2>2 DEF PushWritePayload, Holding
      <3>2. /\ head_publish <= c /\ c < head_publish + Capacity
            /\ c < Start(p) + ppad[p] + 2 \/ c >= PublishTo(p)
        BY Zenon, <1>4, <3>1, OthersElsewhere
      <3> QED BY Zenon, <2>2, <3>2, PayloadStored
    <2>3. CASE PushTakeTurn(p)
      <3>1. ppc[p] \in Holding
        BY Zenon, <2>3 DEF PushTakeTurn, Holding
      <3>2. /\ head_publish <= c /\ c < head_publish + Capacity
            /\ c # Start(p) + ppad[p] + 1
        BY Zenon, <1>4, <3>1, OthersElsewhere
      <3> QED BY Zenon, <2>3, <3>2, SequenceStored
    <2>4. CASE ~ (PushWriteHeader(p) \/ PushWritePayload(p) \/ PushTakeTurn(p))
      BY Zenon, <2>4 DEF Push, PushStep, PushLoadHead, PushLoadTail, PushReject,
         PushReserve, PushRetry, PushPublish, PushCall, PushCrash, producerVars,
         controlVars
    <2> QED BY Zenon, <2>1, <2>2, <2>3, <2>4
  <1>5. WritingOf(q)
    BY Zenon DEF Writing
  <1> QED BY Zenon, <1>1, <1>3, <1>4, <1>5, WritingOfFrame

\* A call's own stores add up to the record.
LEMMA WritingOwn ==
    ASSUME WriterTypeOK, Reservations, Snapshots, head_publish <= tail_publish, Writing,
           NEW p \in Producers, Push(p)
    PROVE  WritingOf(p)'
  <1> DEFINE b == Start(p) + ppad[p]
             words == RecordWords(psize[p])
  <1>a. /\ Start(p) \in Nat /\ ppad[p] \in Nat /\ words \in 2..Capacity
        /\ PublishTo(p) = b + words /\ PublishTo(p) \in Nat
        /\ PayloadWords(psize[p]) = words - 2
    BY Zenon, CallType
  <1>b. b \in Nat
    BY <1>a
  <1>0. /\ Start(p) \in Nat /\ ppad[p] \in Nat /\ b \in Nat /\ words \in 2..Capacity
        /\ PublishTo(p) = b + words /\ PublishTo(p) \in Nat
        /\ PayloadWords(psize[p]) = words - 2
        /\ head_publish \in Nat
    BY Zenon, <1>a, <1>b, CursorType
  <1> HIDE DEF words
  <1>W. ASSUME ppc[p] \in Holding, NEW c \in Nat, Start(p) <= c, c < b + words
        PROVE  head_publish <= c /\ c < head_publish + Capacity
    <2>1. head_publish <= Start(p) /\ PublishTo(p) <= head_publish + Capacity
      BY Zenon, <1>W, HoldingSpan
    <2> QED BY <1>0, <1>W, <2>1, CapacityType
  <1>1. CASE PushWriteHeader(p)
    <2>1. /\ ppc'[p] = "payload"
          /\ Start(p)' = Start(p) /\ Current(p)' = Current(p)
          /\ psize'[p] = psize[p] /\ ppad'[p] = ppad[p]
      BY Zenon, <1>1 DEF PushWriteHeader, Start, Current, WriterTypeOK
    <2>2. /\ ring'[Pos(b)] = HeaderCell(psize[p], Current(p), FALSE)
          /\ ppad[p] >= HeaderWords => ring'[Pos(Start(p))] = WrapCell
      BY Zenon, <1>1, HeaderStored
    <2> QED BY Zenon, <2>1, <2>2 DEF WritingOf, Word, WrapCell
  <1>2. CASE PushWritePayload(p)
    <2>1. /\ ppc[p] = "payload" /\ ppc[p] \in Holding
          /\ ppc'[p] = "wait"
          /\ Start(p)' = Start(p) /\ Current(p)' = Current(p)
          /\ psize'[p] = psize[p] /\ ppad'[p] = ppad[p]
      BY Zenon, <1>2 DEF PushWritePayload, Start, Current, WriterTypeOK, Holding
    <2>2. \A j \in 1..PayloadWords(psize[p]) :
              ring'[Pos(b + 1 + j)] = PayloadCell(Current(p), j)
      BY ZenonT(30), <1>2, PayloadStored
    <2>3. ASSUME NEW c \in Nat, Start(p) <= c, c < b + 2
          PROVE  ring'[Pos(c)] = ring[Pos(c)]
      <3>1. c < b + words
        BY <1>0, <2>3
      <3>2. head_publish <= c /\ c < head_publish + Capacity
        BY ZenonT(30), <1>W, <2>1, <2>3, <3>1
      <3> QED BY ZenonT(30), <1>2, <2>3, <3>2, PayloadStored
    <2>4. ring'[Pos(b)] = ring[Pos(b)] /\ ring'[Pos(Start(p))] = ring[Pos(Start(p))]
      <3>1. Start(p) <= b /\ b < b + 2 /\ Start(p) < b + 2 /\ Start(p) <= Start(p)
        BY <1>0
      <3> QED BY Zenon, <1>0, <2>3, <3>1
    <2>5. /\ ring[Pos(b)] = HeaderCell(psize[p], Current(p), FALSE)
          /\ ppad[p] >= HeaderWords => ring[Pos(Start(p))] = WrapCell
      BY Zenon, <2>1 DEF Writing, WritingOf, Word
    <2> QED BY Zenon, <2>1, <2>2, <2>4, <2>5 DEF WritingOf, Word, WrapCell
  <1>3. CASE PushTakeTurn(p)
    <2>1. /\ ppc[p] = "wait" /\ ppc[p] \in Holding /\ tail_publish = Start(p)
          /\ ppc'[p] = "publish" /\ sequence' = sequence + 1 /\ log' = log
          /\ Start(p)' = Start(p) /\ Current(p)' = Current(p)
          /\ psize'[p] = psize[p] /\ ppad'[p] = ppad[p]
      BY Zenon, <1>3 DEF PushTakeTurn, Start, Current, WriterTypeOK, Holding
    <2>2. sequence = Len(log)
      BY Zenon, <2>1, OneTurn DEF Writing
    <2>3. ring'[Pos(b + 1)] = SequenceCell(sequence + 1)
      BY ZenonT(30), <1>3, SequenceStored
    <2>4. ASSUME NEW c \in Nat, Start(p) <= c, c < b + words, c # b + 1
          PROVE  ring'[Pos(c)] = ring[Pos(c)]
      <3>1. head_publish <= c /\ c < head_publish + Capacity
        BY Zenon, <1>W, <2>1, <2>4
      <3> QED BY Zenon, <1>3, <2>4, <3>1, SequenceStored
    <2>5. ring'[Pos(b)] = ring[Pos(b)] /\ ring'[Pos(Start(p))] = ring[Pos(Start(p))]
      <3>1. /\ Start(p) <= b /\ b < b + words /\ Start(p) < b + words
            /\ Start(p) <= Start(p) /\ b # b + 1 /\ Start(p) # b + 1
        BY <1>0
      <3> QED BY ZenonT(30), <1>0, <2>4, <3>1
    <2>6. /\ ring[Pos(b)] = HeaderCell(psize[p], Current(p), FALSE)
          /\ ppad[p] >= HeaderWords => ring[Pos(Start(p))] = WrapCell
          /\ \A j \in 1..PayloadWords(psize[p]) :
                ring[Pos(b + 1 + j)] = PayloadCell(Current(p), j)
      BY Zenon, <2>1 DEF Writing, WritingOf, Word
    <2>7. ASSUME NEW j \in 1..PayloadWords(psize[p])
          PROVE  ring'[Pos(b + 1 + j)] = PayloadCell(Current(p), j)
      <3>1. j \in 1..(words - 2)
        BY Zenon, <1>0
      <3>2. /\ b + 1 + j \in Nat /\ Start(p) <= b + 1 + j
            /\ b + 1 + j < b + words /\ b + 1 + j # b + 1
        BY <1>0, <3>1
      <3>3. ring'[Pos(b + 1 + j)] = ring[Pos(b + 1 + j)]
        BY Zenon, <2>4, <3>2
      <3> QED BY Zenon, <2>6, <3>3
    <2> QED BY ZenonT(30), <2>1, <2>2, <2>3, <2>5, <2>6, <2>7 DEF WritingOf, Word, WrapCell
  <1>4. CASE PushCrash(p)
    BY Zenon, <1>4 DEF PushCrash, producerVars, controlVars, Writing, WritingOf, Word,
       Start, Current, WrapCell
  <1>5. CASE ~ (\/ PushWriteHeader(p) \/ PushWritePayload(p) \/ PushTakeTurn(p)
                \/ PushCrash(p))
    <2>1. ppc'[p] \in {"idle", "load_head", "load_tail", "cas", "header"}
      BY Zenon, <1>5 DEF Push, PushStep, PushLoadHead, PushLoadTail, PushReject,
         PushReserve, PushRetry, PushPublish, PushCall, Return, WriterTypeOK
    <2> QED BY Zenon, <2>1 DEF WritingOf
  <1> QED BY Zenon, <1>1, <1>2, <1>3, <1>4, <1>5

\* Every step of a producer keeps what the calls under way have written.
LEMMA WritingPush ==
    ASSUME WriterTypeOK, Reservations, Snapshots, head_publish <= tail_publish, Writing,
           NEW p \in Producers, Push(p)
    PROVE  Writing'
  <1>1. \A q \in Producers : WritingOf(q)'
    BY Zenon, WritingOwn, WritingOthers
  <1>2. ASSUME \A q \in Producers : ppc'[q] # "publish" PROVE sequence' = Len(log')
    <2>0. Len(log) \in Nat
      BY Zenon, CursorType
    <2>1. CASE PushPublish(p)
      <3>1. sequence' = sequence /\ log' = Append(log, Published(p)) /\ ppc[p] = "publish"
        BY Zenon, <2>1 DEF PushPublish
      <3>2. Len(log') = Len(log) + 1
        BY Zenon, <3>1, AppendFacts, <2>1, PublishFacts
      <3>3. sequence = Len(log) + 1
        BY Zenon, <3>1 DEF Writing, WritingOf
      <3> QED BY Zenon, <3>1, <3>2, <3>3
    <2>2. CASE PushTakeTurn(p)
      BY Zenon, <1>2, <2>2 DEF PushTakeTurn, WriterTypeOK
    <2>3. CASE ~ PushPublish(p) /\ ~ PushTakeTurn(p)
      <3>1. sequence' = sequence /\ log' = log
        BY Zenon, <2>3 DEF Push, PushStep, PushLoadHead, PushLoadTail, PushReject,
           PushReserve, PushRetry, PushWriteHeader, PushWritePayload, PushCall,
           PushCrash, producerVars, controlVars
      <3>2. \A q \in Producers : ppc[q] # "publish"
        BY ZenonT(30), <1>2, <2>3 DEF Push, PushStep, PushLoadHead, PushLoadTail,
           PushReject, PushReserve, PushRetry, PushWriteHeader, PushWritePayload,
           PushCall, PushCrash, producerVars, Return, WriterTypeOK
      <3> QED BY Zenon, <3>1, <3>2 DEF Writing
    <2> QED BY Zenon, <2>1, <2>2, <2>3
  <1> QED BY Zenon, <1>1, <1>2 DEF Writing

-------------------------------------------------------------------------------
(* The invariant of the writers. *)

\* A fresh ring satisfies it.
LEMMA WriterInvInit == WriterInit => WriterInv
  <1> SUFFICES ASSUME WriterInit PROVE WriterInv
    OBVIOUS
  <1>1. /\ log = <<>> /\ head_publish = 0 /\ tail_publish = 0
        /\ tail_reserve = 0 /\ sequence = 0
        /\ \A p \in Producers : ppc[p] = "idle"
    BY Zenon DEF WriterInit
  <1>2. Len(log) = 0
    BY Zenon, <1>1
  <1>3. Reservations
    BY <1>1 DEF Reservations, Holding
  <1>4. Layout
    BY <1>1, <1>2 DEF Layout
  <1>5. Snapshots
    BY <1>1, CapacityType DEF Snapshots, Holding
  <1>6. Writing
    BY ZenonT(30), <1>1, <1>2 DEF Writing, WritingOf
  <1>7. Unread
    BY <1>2 DEF Unread
  <1>8. head_publish <= tail_publish
    BY <1>1
  <1> QED BY Zenon, <1>3, <1>4, <1>5, <1>6, <1>7, <1>8 DEF WriterInv

\* A step of a producer preserves it.
LEMMA WriterInvPush ==
    ASSUME WriterTypeOK, WriterInv, NEW p \in Producers, Push(p)
    PROVE  WriterInv'
  <1>1. /\ Reservations /\ Layout /\ Snapshots /\ Writing /\ Unread
        /\ head_publish <= tail_publish
    BY Zenon DEF WriterInv
  <1>2. Reservations'
    BY Zenon, <1>1, ReservationsPush
  <1>3. Layout'
    BY Zenon, <1>1, LayoutPush
  <1>4. Snapshots'
    BY Zenon, <1>1, SnapshotsPush
  <1>5. Writing'
    BY Zenon, <1>1, WritingPush
  <1>6. Unread'
    BY Zenon, <1>1, UnreadPush
  <1>7. (head_publish <= tail_publish)'
    <2>1. CASE PushPublish(p)
      <3>1. /\ UNCHANGED head_publish
            /\ tail_publish' = PublishTo(p) /\ PublishTo(p) >= tail_publish + 2
        BY Zenon, <1>1, <2>1, PublishFacts
      <3> QED BY <1>1, <3>1, CallType, CursorType
    <2>2. CASE ~ PushPublish(p)
      BY Zenon, <1>1, <2>2, LogChanges
    <2> QED BY Zenon, <2>1, <2>2
  <1> QED BY Zenon, <1>2, <1>3, <1>4, <1>5, <1>6, <1>7 DEF WriterInv

\* So does a reader that gives published words back.
LEMMA WriterInvHead ==
    ASSUME WriterTypeOK, WriterInv,
           UNCHANGED <<tail_reserve, tail_publish, sequence, ring, producerVars>>,
           head_publish' \in Nat, head_publish <= head_publish',
           head_publish' <= tail_publish
    PROVE  WriterInv'
  <1>1. /\ Reservations /\ Layout /\ Snapshots /\ Writing /\ Unread
    BY Zenon DEF WriterInv
  <1>2. UNCHANGED <<ppc, psize, phead, ptail, ppad, sent, log>>
    BY Zenon DEF producerVars
  <1>3. Reservations'
    BY Zenon, <1>1, <1>2, ReservationsFrame
  <1>4. Layout'
    BY Zenon, <1>1, <1>2 DEF Layout, End, Base
  <1>5. Snapshots'
    <2>1. \A q \in Producers : phead[q] \in Nat
      BY Zenon DEF WriterTypeOK
    <2>2. tail_reserve' <= head_publish' + Capacity
      <3>1. tail_reserve <= head_publish + Capacity
        BY Zenon, <1>1 DEF Snapshots
      <3> QED BY <3>1, CursorType, CapacityType
    <2>3. \A q \in Producers : PublishTo(q)' = PublishTo(q)
      BY Zenon, <1>2 DEF PublishTo, Start
    <2>4. \A q \in Producers : phead[q] <= head_publish => phead[q] <= head_publish'
      BY <2>1, CursorType
    <2> QED BY Zenon, <1>1, <1>2, <2>2, <2>3, <2>4 DEF Snapshots
  <1>6. Writing'
    BY Zenon, <1>1, <1>2 DEF Writing, WritingOf, Start, Current, Word
  <1>7. Unread'
    BY Zenon, <1>1, <1>2, UnreadFrame
  <1> QED BY Zenon, <1>3, <1>4, <1>5, <1>6, <1>7 DEF WriterInv

\* And a step that leaves all of it alone.
LEMMA WriterInvFrame ==
    ASSUME WriterTypeOK, WriterInv,
           UNCHANGED <<head_publish, tail_reserve, tail_publish, sequence, ring,
                       producerVars>>
    PROVE  WriterInv'
  <1>1. head_publish' \in Nat /\ head_publish <= head_publish'
    BY CursorType
  <1>2. head_publish' <= tail_publish
    BY Zenon DEF WriterInv
  <1> QED BY Zenon, <1>1, <1>2, WriterInvHead

-------------------------------------------------------------------------------
(* What a reader finds in the ring. *)

\* At the header of a record that was not given back: the record, whole.
LEMMA RecordFound ==
    ASSUME WriterTypeOK, Layout, Unread, NEW i \in 1..Len(log),
           head_publish <= Base(log[i])
    PROVE  /\ Pos(Base(log[i])) \in Words
           /\ Remaining(Base(log[i])) \in Nat
           /\ Remaining(Base(log[i])) >= RecordWords(log[i].size)
           /\ ring[Pos(Base(log[i]))] = HeaderCell(log[i].size, log[i].msg, FALSE)
           /\ ring[Pos(Base(log[i])) + 1] = SequenceCell(i)
           /\ \A j \in 1..PayloadWords(log[i].size) :
                 ring[Pos(Base(log[i])) + HeaderWords + j - 1] = PayloadCell(log[i].msg, j)
  <1> DEFINE at == log[i].at
             pad == log[i].pad
             base == Base(log[i])
             words == RecordWords(log[i].size)
             payload == PayloadWords(log[i].size)
  <1>1. /\ at \in Nat /\ pad \in Nat /\ words \in 2..Capacity
        /\ base = at + pad /\ base \in Nat /\ payload = words - 2
    BY Zenon, RecordType
  <1>2. pad = Padding(at, words)
    BY Zenon DEF Layout
  <1>3. /\ ring[Pos(base)] = HeaderCell(log[i].size, log[i].msg, FALSE)
        /\ ring[Pos(base + 1)] = SequenceCell(i)
        /\ \A j \in 1..payload : ring[Pos(base + 1 + j)] = PayloadCell(log[i].msg, j)
    BY Zenon DEF Unread, Stored, Word
  <1> HIDE DEF at, pad, base, words, payload
  <1>4. /\ Remaining(base) >= words
        /\ Pos(base) \in 0..(Capacity - 1)
        /\ \A j \in 0..(words - 1) : Pos(base + j) = Pos(base) + j
    BY <1>1, <1>2, RecordSpan
  <1>5. Pos(base) \in Words /\ Remaining(base) \in Nat
    BY <1>1, <1>4, PosRange, CapacityType DEF Remaining
  <1>6. ring[Pos(base) + 1] = SequenceCell(i)
    <2>1. 1 \in 0..(words - 1)
      BY <1>1
    <2> QED BY Zenon, <1>3, <1>4, <2>1
  <1>7. ASSUME NEW j \in 1..payload
        PROVE  ring[Pos(base) + HeaderWords + j - 1] = PayloadCell(log[i].msg, j)
    <2>1. /\ 1 + j \in 0..(words - 1) /\ base + (1 + j) = base + 1 + j
          /\ Pos(base) + 2 + j - 1 = Pos(base) + (1 + j)
      BY <1>1, <1>4, CapacityType
    <2>2. Pos(base + 1 + j) = Pos(base) + (1 + j)
      BY Zenon, <1>4, <2>1
    <2>3. HeaderWords = 2
      BY Zenon, RecordGeometry
    <2> QED BY Zenon, <1>3, <2>1, <2>2, <2>3
  <1> QED BY Zenon, <1>3, <1>4, <1>5, <1>6, <1>7 DEF base, words, payload

\* In front of padding: too few words for a header, or a wrap record; and the
\* record begins where the ring does.
LEMMA PaddingFound ==
    ASSUME WriterTypeOK, Layout, Unread, NEW i \in 1..Len(log),
           head_publish <= log[i].at, log[i].pad > 0
    PROVE  /\ Pos(log[i].at) \in Words
           /\ log[i].at + Remaining(log[i].at) = Base(log[i])
           /\ Remaining(log[i].at) < HeaderWords \/ ring[Pos(log[i].at)] = WrapCell
  <1> DEFINE at == log[i].at
             pad == log[i].pad
             words == RecordWords(log[i].size)
  <1>1. /\ at \in Nat /\ pad \in Nat /\ words \in 2..Capacity /\ Base(log[i]) = at + pad
    BY Zenon, RecordType
  <1>2. pad = Padding(at, words)
    BY Zenon DEF Layout
  <1>3. pad >= HeaderWords => ring[Pos(at)] = WrapCell
    BY Zenon DEF Unread, Word
  <1>4. pad > 0
    BY Zenon DEF pad
  <1> HIDE DEF at, pad, words
  <1>5. pad = Remaining(at)
    BY <1>1, <1>2, <1>4, RecordSpan
  <1>6. HeaderWords = 2
    BY Zenon, RecordGeometry
  <1>7. Remaining(at) < HeaderWords \/ ring[Pos(at)] = WrapCell
    BY <1>1, <1>3, <1>5, <1>6
  <1>8. Pos(at) \in Words
    BY Zenon, <1>1, PosRange
  <1> QED BY Zenon, <1>1, <1>5, <1>7, <1>8 DEF at

\* The window [head_publish, head_publish + Capacity) maps to distinct words.
LEMMA WindowInjective ==
    ASSUME WriterTypeOK,
           NEW c \in Nat, head_publish <= c, c < head_publish + Capacity,
           NEW d \in Nat, head_publish <= d, d < head_publish + Capacity,
           Pos(c) = Pos(d)
    PROVE  c = d
  <1>1. c - d < Capacity /\ d - c < Capacity
    BY CapacityType, CursorType
  <1> QED BY Zenon, <1>1, PosInjective

\* A reservation lies in the window, behind what is published.
LEMMA OwnedCursor ==
    ASSUME WriterTypeOK, WriterInv, NEW p \in Producers, ppc[p] \in Holding,
           NEW c \in Start(p)..(PublishTo(p) - 1)
    PROVE  /\ c \in Nat /\ head_publish <= c /\ tail_publish <= c
           /\ c < head_publish + Capacity
  <1>1. Reservations /\ Snapshots /\ head_publish <= tail_publish
    BY Zenon DEF WriterInv
  <1>2. /\ head_publish <= Start(p) /\ tail_publish <= Start(p)
        /\ PublishTo(p) <= head_publish + Capacity
    BY Zenon, <1>1, HoldingSpan
  <1>3. /\ Start(p) \in Nat /\ PublishTo(p) \in Nat
        /\ head_publish \in Nat /\ tail_publish \in Nat
    BY Zenon, CallType, CursorType
  <1> QED BY <1>2, <1>3, CapacityType

-------------------------------------------------------------------------------
(* What was pushed, and what becomes of it. *)

\* A record that is published is the next one of its producer.
LEMMA AcceptedPublish ==
    ASSUME WriterTypeOK, Accepted, NEW p \in Producers, PushPublish(p)
    PROVE  Accepted'
  <1> DEFINE R == [msg : Messages, size : Fitting, at : Nat, pad : Nat]
             n == Len(log)
             k == sent[p] + 1
  <1>1. /\ ppc[p] = "publish" /\ ppc[p] # "idle" /\ log' = Append(log, Published(p))
        /\ sent' = [sent EXCEPT ![p] = @ + 1]
    BY Zenon DEF PushPublish
  <1>2. Current(p) \in Messages /\ psize[p] \in Fitting
    BY Zenon, <1>1, CurrentType
  <1>3. Published(p) \in R /\ Published(p).msg = <<p, k>>
    BY Zenon, <1>2, CallType DEF Published, Current
  <1>4. log \in Seq(R) /\ sent \in [Producers -> Nat]
    BY Zenon DEF WriterTypeOK
  <1>5. \A i \in 1..n : log[i].msg[1] \in Producers /\ log[i].msg[2] \in Nat
    <2>1. ASSUME NEW S, NEW q \in Seq(S) PROVE \A i \in 1..Len(q) : q[i] \in S
      OBVIOUS
    <2>2. \A i \in 1..n : log[i] \in R
      BY Zenon, <1>4, <2>1
    <2> QED BY <2>2, MaxPushAssumption DEF Messages
  <1> HIDE DEF R
  <1>6. /\ n \in Nat /\ Len(log') = n + 1
        /\ \A i \in 1..n : log'[i] = log[i]
        /\ log'[n + 1] = Published(p)
    BY <1>1, <1>3, <1>4, AppendFacts, CursorType
  <1>7. /\ k \in Nat /\ sent'[p] = k
        /\ \A q \in Producers : q # p => sent'[q] = sent[q]
        /\ \A q \in Producers : sent[q] \in Nat /\ sent'[q] \in Nat /\ sent[q] <= sent'[q]
    BY <1>1, <1>4
  <1>8. /\ \A i \in 1..n : log[i].msg[2] <= sent[log[i].msg[1]]
        /\ \A i, j \in 1..n :
             i < j /\ log[i].msg[1] = log[j].msg[1] => log[i].msg[2] < log[j].msg[2]
        /\ \A q \in Producers : \A m \in 1..sent[q] : \E i \in 1..n : log[i].msg = <<q, m>>
    BY Zenon DEF Accepted
  <1>9. log'[n + 1].msg[1] = p /\ log'[n + 1].msg[2] = k
    BY <1>3, <1>6
  <1> HIDE DEF k
  <1>10. ASSUME NEW i \in 1..n, log'[i].msg[1] = p
         PROVE  log'[i].msg[2] < k
    <2> DEFINE m == log[i].msg[2]
    <2>1. log'[i] = log[i] /\ m \in Nat /\ sent[p] \in Nat /\ m <= sent[p]
      BY Zenon, <1>5, <1>6, <1>7, <1>8, <1>10
    <2> HIDE DEF m
    <2>2. m < k
      BY <2>1 DEF k
    <2> QED BY Zenon, <2>1, <2>2 DEF m
  <1>11. ASSUME NEW i \in 1..(n + 1) PROVE log'[i].msg[2] <= sent'[log'[i].msg[1]]
    <2>1. CASE i = n + 1
      BY <1>7, <1>9, <2>1
    <2>2. CASE i \in 1..n
      <3> DEFINE q == log[i].msg[1]
                 m == log[i].msg[2]
      <3>1. /\ log'[i] = log[i] /\ m \in Nat /\ sent[q] \in Nat /\ sent'[q] \in Nat
            /\ m <= sent[q] /\ sent[q] <= sent'[q]
        BY Zenon, <1>5, <1>6, <1>7, <1>8, <2>2
      <3> HIDE DEF q, m
      <3>2. m <= sent'[q]
        BY <3>1
      <3> QED BY Zenon, <3>1, <3>2 DEF q, m
    <2> QED BY <1>6, <2>1, <2>2
  <1>12. ASSUME NEW i \in 1..(n + 1), NEW j \in 1..(n + 1), i < j,
                log'[i].msg[1] = log'[j].msg[1]
         PROVE  log'[i].msg[2] < log'[j].msg[2]
    <2>1. CASE j = n + 1
      <3>1. i \in 1..n
        BY <1>6, <1>12, <2>1
      <3> QED BY Zenon, <1>9, <1>10, <1>12, <2>1, <3>1
    <2>2. CASE j \in 1..n
      <3>1. i \in 1..n
        BY <1>6, <1>12, <2>2
      <3> QED BY Zenon, <1>6, <1>8, <1>12, <2>2, <3>1
    <2> QED BY <1>6, <2>1, <2>2
  <1>13. ASSUME NEW q \in Producers, NEW m \in 1..sent'[q]
         PROVE  \E i \in 1..(n + 1) : log'[i].msg = <<q, m>>
    <2>1. CASE q = p /\ m = k
      <3>1. log'[n + 1].msg = <<q, m>> /\ n + 1 \in 1..(n + 1)
        BY <1>3, <1>6, <2>1 DEF k
      <3> QED BY Zenon, <3>1
    <2>2. CASE m \in 1..sent[q]
      <3>1. PICK i \in 1..n : log[i].msg = <<q, m>>
        BY Zenon, <1>8, <2>2
      <3>2. i \in 1..(n + 1) /\ log'[i].msg = <<q, m>>
        BY <1>6, <3>1
      <3> QED BY Zenon, <3>2
    <2>3. m \in 1..sent[q] \/ (q = p /\ m = k)
      BY <1>7 DEF k
    <2> QED BY Zenon, <2>1, <2>2, <2>3
  <1> QED BY Zenon, <1>6, <1>11, <1>12, <1>13 DEF Accepted

LEMMA AcceptedInit == WriterInit => Accepted
  BY DEF WriterInit, Accepted

\* Every step of a producer, and the steps of the readers.
LEMMA AcceptedPush ==
    ASSUME WriterTypeOK, Accepted, NEW p \in Producers, Push(p)
    PROVE  Accepted'
  <1>1. ASSUME ~ PushPublish(p) PROVE UNCHANGED <<log, sent>>
    BY Zenon, <1>1 DEF Push, PushStep, PushLoadHead, PushLoadTail, PushReject, PushReserve,
       PushRetry, PushWriteHeader, PushWritePayload, PushTakeTurn, PushCall,
       PushCrash, producerVars
  <1>2. CASE PushPublish(p)
    BY Zenon, <1>2, AcceptedPublish
  <1> QED BY Zenon, <1>1, <1>2 DEF Accepted

LEMMA AcceptedFrame ==
    ASSUME Accepted, UNCHANGED producerVars
    PROVE  Accepted'
  BY Zenon DEF Accepted, producerVars

\* Readers that popped the first records, and leave the words of the others alone.
LEMMA EachOnce ==
    ASSUME WriterTypeOK, Accepted, Unread, NEW records,
           Len(records) \in Nat, Len(records) <= Len(log),
           \A i \in 1..Len(records) : records[i].type = log[i].msg,
           \A i \in 1..Len(log) : i > Len(records) => head_publish <= Base(log[i])
    PROVE  EachPushOnce(records)
  <1> DEFINE m == Len(records)
  <1>1. /\ \A i \in 1..Len(log) : log[i].msg[2] <= sent[log[i].msg[1]]
        /\ \A i, j \in 1..Len(log) :
             i < j /\ log[i].msg[1] = log[j].msg[1] => log[i].msg[2] < log[j].msg[2]
        /\ \A p \in Producers : \A k \in 1..sent[p] :
             \E i \in 1..Len(log) : log[i].msg = <<p, k>>
    BY Zenon DEF Accepted
  <1>2. \A i \in 1..m : i \in 1..Len(log) /\ records[i].type = log[i].msg
    BY CursorType
  <1>3. \A i \in 1..m : records[i].type[2] <= sent[records[i].type[1]]
    BY Zenon, <1>1, <1>2
  <1>4. \A i, j \in 1..m : i < j /\ records[i].type[1] = records[j].type[1] =>
            records[i].type[2] < records[j].type[2]
    BY Zenon, <1>1, <1>2
  <1>5. ASSUME NEW p \in Producers, NEW k \in 1..sent[p]
        PROVE  \/ \E i \in 1..m : records[i].type = <<p, k>>
               \/ \E i \in 1..Len(log) : i > m /\ log[i].msg = <<p, k>> /\ Stored(i)
    <2>1. PICK i \in 1..Len(log) : log[i].msg = <<p, k>>
      BY Zenon, <1>1
    <2>2. i \in 1..m \/ i > m
      BY <2>1, CursorType
    <2>3. i > m => Stored(i)
      BY Zenon, <2>1 DEF Unread
    <2> QED BY Zenon, <1>2, <2>1, <2>2, <2>3
  <1> QED BY Zenon, <1>3, <1>4, <1>5 DEF EachPushOnce

\* A producer that died with a reservation, when another one takes a step.
LEMMA PlaceKept ==
    ASSUME WriterTypeOK, Reservations, NEW q \in dead, ppc[q] \in Holding,
           NEW p \in Producers, Push(p)
    PROVE  KeepsPlace(q)
  <1>1. q \in Producers
    BY Zenon, CrashableAssumption DEF WriterTypeOK
  <1>2. p # q /\ q \in dead'
    BY Zenon DEF Push, PushCrash
  <1>3. ppc'[q] = ppc[q] /\ ptail'[q] = ptail[q]
    BY Zenon, <1>1, <1>2 DEF WriterTypeOK, Push, PushStep, PushLoadHead, PushLoadTail,
       PushReject, PushReserve, PushRetry, PushWriteHeader, PushWritePayload,
       PushTakeTurn, PushPublish, PushCall, PushCrash, Return, producerVars
  <1>4. Reservations'
    BY Zenon, ReservationsPush
  <1>5. tail_publish' <= Start(q)'
    BY Zenon, <1>1, <1>3, <1>4 DEF Reservations
  <1> QED BY Zenon, <1>2, <1>3, <1>5 DEF KeepsPlace, Start

\* And when a reader does.
LEMMA PlaceFrame ==
    ASSUME WriterTypeOK, Reservations, NEW q \in dead, ppc[q] \in Holding,
           UNCHANGED <<producerVars, dead, tail_publish>>
    PROVE  KeepsPlace(q)
  <1>1. q \in Producers
    BY Zenon, CrashableAssumption DEF WriterTypeOK
  <1>2. tail_publish <= Start(q)
    BY Zenon, <1>1 DEF Reservations
  <1> QED BY Zenon, <1>2 DEF KeepsPlace, Start, producerVars
===============================================================================
