------------------------ MODULE SharedRingBufferProofs ------------------------
(***************************************************************************)
(* Proofs about the MPSC ring, for any set of producers, any capacity, any *)
(* payload sizes, and any producers that may die: RingInv is inductive,    *)
(* every published message is delivered once, in order and intact, and the *)
(* ring is a FIFO queue.                                                   *)
(***************************************************************************)
EXTENDS SharedRingBufferInv, RingWriterProofs

\* Time for the large leaves.
USE SMTT(30), ZenonT(30)

-------------------------------------------------------------------------------
(* The types of the state. *)

\* A fresh ring has its types.
LEMMA TypeInit == Init => TypeOK
  <1> SUFFICES ASSUME Init PROVE TypeOK
    BY Zenon
  <1>1. WriterTypeOK
    BY Zenon, WriterTypeInit DEF Init
  <1> QED BY <1>1 DEF Init, TypeOK

\* What is read as a header has a payload size, a type and flags.
LEMMA HeaderType ==
    ASSUME TypeOK, NEW at \in Words
    PROVE  /\ HeaderAt(at).size \in Nat
           /\ HeaderAt(at).type \in Messages \cup {NoMessage}
           /\ HeaderAt(at).wrap \in BOOLEAN
  <1>1. ring[at] \in Cells
    BY Zenon DEF TypeOK, WriterTypeOK
  <1>2. CASE ring[at].kind = "header"
    BY Zenon, <1>1, <1>2 DEF HeaderAt, Cells
  <1>3. CASE ring[at].kind # "header"
    BY Zenon, <1>3 DEF HeaderAt, HeaderCell
  <1> QED BY Zenon, <1>2, <1>3

\* A step of the consumer.
LEMMA TypePop ==
    ASSUME TypeOK, Pop
    PROVE  TypeOK'
  <1> USE DEF producerVars, controlVars
  <1>0. UNCHANGED <<producerVars, dead>>
    BY Zenon DEF Pop
  <1>1. CASE PopLoadTail
    BY Zenon, <1>0, <1>1 DEF PopLoadTail, TypeOK, WriterTypeOK
  <1>2. CASE PopSkip
    <2>1. head_publish \in Nat
      BY Zenon DEF TypeOK, WriterTypeOK
    <2>2. head_publish + Remaining(head_publish) \in Nat
      BY <2>1, PosRange, CapacityAssumption
    <2> QED BY Zenon, <1>0, <1>2, <2>2 DEF PopSkip, TypeOK, WriterTypeOK
  <1>3. CASE PopRead
    <2> DEFINE at == Pos(head_publish)
               header == HeaderAt(at)
               resized == IF outsize < header.size THEN header.size ELSE outsize
               payload == [i \in 1..PayloadWords(header.size) |->
                               ring[at + HeaderWords + i - 1]]
               record == [type |-> header.type, sequence |-> ring[at + 1],
                          payload |-> payload, size |-> resized]
    <2>1. /\ head_publish \in Nat /\ outsize \in Nat /\ popped \in Seq(Records)
          /\ ring \in [Words -> Cells]
      BY Zenon DEF TypeOK, WriterTypeOK
    <2>2. at \in Words /\ Remaining(head_publish) = Capacity - at
      BY Zenon, <2>1, PosRange DEF Remaining
    <2>3. header.size \in Nat /\ header.type \in Messages \cup {NoMessage}
      BY Zenon, <2>2, HeaderType
    <2> HIDE DEF at, header
    <2>4. CASE Malformed(head_publish)
      BY Zenon, <1>0, <1>3, <2>4 DEF PopRead, TypeOK, WriterTypeOK
    <2>5. CASE ~ Malformed(head_publish)
      <3>1. RecordWords(header.size) \in Nat /\ RecordWords(header.size) >= 2
            /\ PayloadWords(header.size) \in Nat /\ HeaderWords = 2
            /\ PayloadWords(header.size) = RecordWords(header.size) - HeaderWords
        BY Zenon, <2>3, RecordGeometry DEF PayloadWords
      <3>2. ~ (RecordWords(header.size) > Remaining(head_publish))
        BY Zenon, <2>5 DEF Malformed, header, at
      <3>3. at + 1 \in Words
            /\ \A i \in 1..PayloadWords(header.size) : at + HeaderWords + i - 1 \in Words
        BY <2>2, <3>1, <3>2, CapacityAssumption DEF Words
      <3>4. payload \in Seq(Cells)
        BY <2>1, <3>1, <3>3
      <3>5. ring[at + 1] \in Cells
        BY Zenon, <2>1, <3>3
      <3>6. resized \in Nat
        BY Zenon, <2>1, <2>3
      <3> HIDE DEF payload, resized
      <3>7. record \in Records
        BY Zenon, <2>3, <3>4, <3>5, <3>6 DEF Records
      <3> HIDE DEF record
      <3>8. <<record>> \in Seq(Records) /\ Len(<<record>>) = 1
        BY <3>7
      <3>9. /\ cgot' = <<record>>
            /\ outsize' = resized
            /\ cnew' = head_publish + RecordWords(header.size)
            /\ cpc' = "store_head"
        BY Zenon, <1>3, <2>5 DEF PopRead, record, resized, payload, header, at
      <3>10. cnew' \in Nat
        BY <2>1, <3>1, <3>9
      <3> QED BY <1>0, <1>3, <3>6, <3>8, <3>9, <3>10 DEF PopRead, TypeOK, WriterTypeOK
    <2> QED BY Zenon, <2>4, <2>5
  <1>4. CASE PopStoreHead
    BY <1>0, <1>4 DEF PopStoreHead, TypeOK, WriterTypeOK
  <1>5. CASE PopStoreReserve
    BY <1>0, <1>5 DEF PopStoreReserve, TypeOK, WriterTypeOK
  <1> QED BY Zenon, <1>1, <1>2, <1>3, <1>4, <1>5 DEF Pop

\* Every step of the program preserves the type invariant.
LEMMA TypeStep ==
    ASSUME TypeOK, [Next]_vars
    PROVE  TypeOK'
  <1>1. CASE Pop
    BY Zenon, <1>1, TypePop
  <1>2. ASSUME NEW p \in Producers, Push(p), UNCHANGED consumerVars
        PROVE  TypeOK'
    <2>1. WriterTypeOK'
      BY Zenon, <1>2, WriterTypePush DEF TypeOK
    <2> QED BY Zenon, <1>2, <2>1 DEF TypeOK, consumerVars
  <1>3. CASE UNCHANGED vars
    BY Zenon, <1>3 DEF TypeOK, WriterTypeOK, vars, controlVars, producerVars, consumerVars
  <1> QED BY Zenon, <1>1, <1>2, <1>3 DEF Next

\* TypeOK is an invariant of the MPSC ring: every record try_pop copies out of
\* the ring lies inside it, and every cursor and size stays a number.
THEOREM TypeCorrect == Spec => []TypeOK
  BY TypeInit, TypeStep, PTL DEF Spec

\* The types of the cursors and of the lengths of the logs.
LEMMA ConsumerType ==
    ASSUME TypeOK
    PROVE  /\ WriterTypeOK
           /\ head_publish \in Nat /\ tail_publish \in Nat /\ tail_reserve \in Nat
           /\ head_reserve \in Nat /\ ctail \in Nat /\ cnew \in Nat
           /\ Len(log) \in Nat /\ Len(popped) \in Nat /\ Oldest \in Nat
           /\ Oldest = Len(popped) + 1
           /\ log = <<>> <=> Len(log) = 0
  <1>1. WriterTypeOK /\ ctail \in Nat /\ cnew \in Nat
    BY Zenon DEF TypeOK
  <1>2. Len(popped) \in Nat
    BY DEF TypeOK
  <1> QED BY <1>1, <1>2, CursorType DEF Oldest

\* Only a publishing store changes the log or tail_publish.
LEMMA LogGrows ==
    ASSUME [Next]_vars
    PROVE  \/ UNCHANGED <<log, tail_publish>>
           \/ \E p \in Producers : PushPublish(p) /\ UNCHANGED consumerVars
  <1>1. CASE Pop \/ UNCHANGED vars
    BY Zenon, <1>1 DEF Pop, PopLoadTail, PopSkip, PopRead, PopStoreHead,
       PopStoreReserve, vars, controlVars, producerVars
  <1>2. ASSUME NEW p \in Producers, Push(p), UNCHANGED consumerVars,
               ~ PushPublish(p)
        PROVE  UNCHANGED <<log, tail_publish>>
    BY Zenon, <1>2, LogChanges
  <1> QED BY Zenon, <1>1, <1>2 DEF Next

-------------------------------------------------------------------------------
(* The consumer finds the oldest record, or the padding in front of it. *)

\* The oldest unread record and its padding.
LEMMA OldestRecord ==
    ASSUME TypeOK, Layout, Oldest <= Len(log)
    PROVE  /\ Oldest \in 1..Len(log)
           /\ log[Oldest].at \in Nat /\ log[Oldest].pad \in Nat
           /\ Base(log[Oldest]) \in Nat /\ End(log[Oldest]) \in Nat
           /\ RecordWords(log[Oldest].size) \in 2..Capacity
           /\ End(log[Oldest]) = Base(log[Oldest]) + RecordWords(log[Oldest].size)
           /\ log[Oldest].at <= Base(log[Oldest])
           /\ Base(log[Oldest]) < End(log[Oldest])
           /\ End(log[Oldest]) <= tail_publish
           /\ log[Oldest].pad = 0 => Base(log[Oldest]) = log[Oldest].at
  <1>1. Oldest \in 1..Len(log) /\ WriterTypeOK
    BY ConsumerType
  <1>2. /\ log[Oldest].at \in Nat /\ log[Oldest].pad \in Nat
        /\ Base(log[Oldest]) = log[Oldest].at + log[Oldest].pad
        /\ Base(log[Oldest]) \in Nat /\ End(log[Oldest]) \in Nat
        /\ RecordWords(log[Oldest].size) \in 2..Capacity
        /\ End(log[Oldest]) = Base(log[Oldest]) + RecordWords(log[Oldest].size)
        /\ log[Oldest].at <= Base(log[Oldest])
        /\ Base(log[Oldest]) < End(log[Oldest])
        /\ End(log[Oldest]) <= tail_publish
    BY Zenon, <1>1, RecordType, RecordOrder, RecordsPublished
  <1>3. log[Oldest].pad = 0 => Base(log[Oldest]) = log[Oldest].at
    BY <1>2
  <1> QED BY Zenon, <1>1, <1>2, <1>3

\* At the record: its header, number and payload are read, and it is complete.
LEMMA SeesRecord ==
    ASSUME TypeOK, Layout, Unread, Oldest <= Len(log),
           head_publish = Base(log[Oldest])
    PROVE  /\ ~ SkipAt(head_publish)
           /\ ring[Pos(head_publish)].kind = "header"
           /\ HeaderAt(Pos(head_publish)) = HeaderCell(log[Oldest].size, log[Oldest].msg, FALSE)
           /\ ring[Pos(head_publish) + 1] = SequenceCell(Oldest)
           /\ \A j \in 1..PayloadWords(log[Oldest].size) :
                 ring[Pos(head_publish) + HeaderWords + j - 1] = PayloadCell(log[Oldest].msg, j)
           /\ End(log[Oldest]) <= ctail => ~ Malformed(head_publish)
  <1> DEFINE r == log[Oldest]
             words == RecordWords(r.size)
             left == Remaining(head_publish)
  <1>1. /\ Oldest \in 1..Len(log) /\ WriterTypeOK /\ ctail \in Nat
        /\ head_publish \in Nat /\ head_publish <= Base(r)
        /\ words \in 2..Capacity /\ End(r) = head_publish + words
    BY OldestRecord, ConsumerType
  <1>2. /\ left \in Nat /\ left >= words
        /\ ring[Pos(head_publish)] = HeaderCell(r.size, r.msg, FALSE)
        /\ ring[Pos(head_publish) + 1] = SequenceCell(Oldest)
        /\ \A j \in 1..PayloadWords(r.size) :
              ring[Pos(head_publish) + HeaderWords + j - 1] = PayloadCell(r.msg, j)
    BY Zenon, <1>1, RecordFound
  <1>3. /\ ring[Pos(head_publish)].kind = "header"
        /\ HeaderAt(Pos(head_publish)) = HeaderCell(r.size, r.msg, FALSE)
        /\ HeaderAt(Pos(head_publish)).wrap = FALSE
        /\ HeaderAt(Pos(head_publish)).size = r.size
    BY <1>2 DEF HeaderAt, HeaderCell
  <1>4. HeaderWords = 2
    BY Zenon, RecordGeometry
  <1> HIDE DEF words, left, r
  <1>5. ~ SkipAt(head_publish)
    <2>1. ~ (left < HeaderWords)
      BY <1>1, <1>2, <1>4
    <2> QED BY Zenon, <1>3, <2>1 DEF SkipAt, left
  <1>6. ASSUME End(r) <= ctail PROVE ~ Malformed(head_publish)
    <2>1. /\ ctail >= head_publish /\ ~ (ctail - head_publish < words)
          /\ ~ (words > left)
      BY <1>1, <1>2, <1>6, CapacityType
    <2>2. ~ (Sub64(ctail, head_publish, U64) < words)
      BY Zenon, <2>1 DEF Sub64
    <2>3. RecordWords(HeaderAt(Pos(head_publish)).size) = words
      BY Zenon, <1>3 DEF words
    <2> QED BY Zenon, <2>1, <2>2, <2>3 DEF Malformed, left
  <1> QED BY Zenon, <1>2, <1>3, <1>5, <1>6 DEF r

\* In front of padding: it is skipped, exactly.
LEMMA SeesPadding ==
    ASSUME TypeOK, Layout, Unread, Oldest <= Len(log),
           head_publish = log[Oldest].at, log[Oldest].pad > 0
    PROVE  /\ SkipAt(head_publish)
           /\ head_publish + Remaining(head_publish) = Base(log[Oldest])
  <1>1. Oldest \in 1..Len(log) /\ WriterTypeOK /\ head_publish <= log[Oldest].at
    BY OldestRecord, ConsumerType
  <1>2. /\ head_publish + Remaining(head_publish) = Base(log[Oldest])
        /\ Remaining(head_publish) < HeaderWords \/ ring[Pos(head_publish)] = WrapCell
    BY Zenon, <1>1, PaddingFound
  <1>3. ring[Pos(head_publish)] = WrapCell => HeaderAt(Pos(head_publish)).wrap
    BY DEF HeaderAt, WrapCell, HeaderCell
  <1> QED BY Zenon, <1>2, <1>3 DEF SkipAt

\* One of the two is the case.
LEMMA ConsumerSees ==
    ASSUME TypeOK, Layout, Consumer, Oldest <= Len(log)
    PROVE  \/ head_publish = Base(log[Oldest])
           \/ head_publish = log[Oldest].at /\ log[Oldest].pad > 0
  <1>1. log[Oldest].pad = 0 => Base(log[Oldest]) = log[Oldest].at
    BY Zenon, OldestRecord
  <1>2. log[Oldest].pad \in Nat
    BY Zenon, OldestRecord
  <1>3. head_publish \in {log[Oldest].at, Base(log[Oldest])}
    BY Zenon DEF Consumer, AtOldest
  <1> QED BY <1>1, <1>2, <1>3

\* What try_pop is about to store to head_publish is published.
LEMMA HeadAdvances ==
    ASSUME TypeOK, Layout, Consumer, PopStoreHead
    PROVE  /\ head_publish' \in Nat /\ head_publish <= head_publish'
           /\ head_publish' <= tail_publish
  <1>1. cpc = "store_head" /\ head_publish' = cnew
    BY Zenon DEF PopStoreHead
  <1>2. /\ Oldest <= Len(log)
        /\ \/ head_publish = log[Oldest].at /\ cnew = Base(log[Oldest])
           \/ head_publish = Base(log[Oldest]) /\ cnew = End(log[Oldest])
    BY Zenon, <1>1 DEF Consumer
  <1>3. /\ log[Oldest].at \in Nat /\ Base(log[Oldest]) \in Nat /\ End(log[Oldest]) \in Nat
        /\ log[Oldest].at <= Base(log[Oldest])
        /\ Base(log[Oldest]) < End(log[Oldest])
        /\ End(log[Oldest]) <= tail_publish
    BY Zenon, <1>2, OldestRecord
  <1> DEFINE a == log[Oldest].at
             b == Base(log[Oldest])
             e == End(log[Oldest])
  <1> HIDE DEF a, b, e
  <1>4. /\ a \in Nat /\ b \in Nat /\ e \in Nat /\ a <= b /\ b < e /\ e <= tail_publish
        /\ (head_publish = a /\ cnew = b) \/ (head_publish = b /\ cnew = e)
    BY Zenon, <1>2, <1>3 DEF a, b, e
  <1> QED BY <1>1, <1>4, ConsumerType

\* A publishing store adds a record behind what the consumer knows.
LEMMA ConsumerPublish ==
    ASSUME TypeOK, Reservations, Snapshots, Consumer,
           NEW p \in Producers, PushPublish(p), UNCHANGED consumerVars
    PROVE  Consumer'
  <1>1. /\ Len(log') = Len(log) + 1
        /\ \A i \in 1..Len(log) : log'[i] = log[i]
        /\ log'[Len(log) + 1].at = tail_publish
        /\ tail_publish' = PublishTo(p) /\ PublishTo(p) >= tail_publish + 2
        /\ UNCHANGED <<head_publish, head_reserve>>
    BY Zenon, PublishFacts, ConsumerType
  <1>2. /\ Len(log) \in Nat /\ Len(popped) \in Nat /\ Oldest = Len(popped) + 1
        /\ Oldest \in Nat /\ tail_publish \in Nat
    BY Zenon, ConsumerType
  <1>3. /\ UNCHANGED <<cpc, ctail, cnew, cgot, popped>> /\ Oldest' = Oldest
        /\ Len(popped) <= Len(log)
    BY Zenon DEF consumerVars, Oldest, Consumer
  <1>4. Oldest <= Len(log) => Oldest <= Len(log') /\ log'[Oldest] = log[Oldest]
    <2>1. Oldest <= Len(log) => Oldest \in 1..Len(log)
      BY <1>2
    <2> QED BY <1>1, <1>2, <2>1
  <1>5. Len(popped') <= Len(log')
    BY <1>1, <1>2, <1>3
  <1>6. AtOldest(head_publish)'
    <2>1. CASE Oldest <= Len(log)
      BY ZenonT(30), <1>1, <1>3, <1>4, <2>1 DEF Consumer, AtOldest, Base
    <2>2. CASE ~ (Oldest <= Len(log))
      <3>1. Oldest = Len(log) + 1
        BY <1>2, <1>3, <2>2
      <3>2. head_publish = tail_publish
        BY Zenon, <2>2 DEF Consumer, AtOldest
      <3>3. Oldest' <= Len(log') /\ log'[Oldest'].at = head_publish'
        BY <1>1, <1>2, <1>3, <3>1, <3>2
      <3> QED BY Zenon, <3>3 DEF AtOldest
    <2> QED BY Zenon, <2>1, <2>2
  <1>7. cpc' = "inspect" =>
           Oldest' <= Len(log') /\ End(log'[Oldest']) <= ctail' /\ ctail' <= tail_publish'
    <2>1. ASSUME cpc = "inspect"
          PROVE  Oldest <= Len(log) /\ End(log[Oldest]) <= ctail /\ ctail <= tail_publish
      BY Zenon, <2>1 DEF Consumer
    <2>2. ctail \in Nat /\ PublishTo(p) \in Nat
      BY Zenon, CallType, ConsumerType
    <2>3. ctail <= tail_publish => ctail <= tail_publish'
      BY <1>1, <1>2, <2>2
    <2> QED BY Zenon, <1>3, <1>4, <2>1, <2>3
  <1>8. \A i \in 1..Len(popped) : Intact(popped[i], i)'
    <2> SUFFICES ASSUME NEW i \in 1..Len(popped) PROVE Intact(popped[i], i)'
      BY Zenon
    <2>1. i \in 1..Len(log)
      BY <1>2, <1>3
    <2>2. log'[i] = log[i] /\ Intact(popped[i], i)
      BY Zenon, <1>1, <2>1 DEF Consumer
    <2> QED BY Zenon, <1>3, <2>2 DEF Intact
  <1>9. cpc' = "store_head" =>
        /\ Oldest' <= Len(log')
        /\ cgot' = <<>> => /\ head_publish' = log'[Oldest'].at
                           /\ log'[Oldest'].pad > 0
                           /\ cnew' = Base(log'[Oldest'])
        /\ cgot' # <<>> => /\ head_publish' = Base(log'[Oldest'])
                           /\ cnew' = End(log'[Oldest'])
                           /\ Intact(cgot[1], Oldest)'
    <2>1. ASSUME cpc = "store_head"
          PROVE  /\ Oldest <= Len(log)
                 /\ cgot = <<>> => /\ head_publish = log[Oldest].at
                                   /\ log[Oldest].pad > 0
                                   /\ cnew = Base(log[Oldest])
                 /\ cgot # <<>> => /\ head_publish = Base(log[Oldest])
                                   /\ cnew = End(log[Oldest])
                                   /\ Intact(cgot[1], Oldest)
      BY ZenonT(30), <2>1 DEF Consumer
    <2> QED BY Zenon, <1>1, <1>3, <1>4, <2>1 DEF Intact
  <1>10. /\ head_reserve' <= head_publish'
         /\ cpc' \in {"load_tail", "inspect"} => cgot' = <<>>
         /\ cpc' = "store_reserve" => cnew' = head_publish'
    BY Zenon, <1>1, <1>3 DEF Consumer
  <1> QED BY Zenon, <1>3, <1>5, <1>6, <1>7, <1>8, <1>9, <1>10 DEF Consumer, Base, End

\* try_pop's own steps.
LEMMA ConsumerPop ==
    ASSUME TypeOK, Layout, Consumer, Unread, Pop
    PROVE  Consumer'
  <1>0. UNCHANGED log /\ UNCHANGED tail_publish
    BY Zenon DEF Pop, PopLoadTail, PopSkip, PopRead, PopStoreHead, PopStoreReserve,
       producerVars, controlVars
  <1>1. CASE PopLoadTail
    <2>1. /\ UNCHANGED <<popped, cgot, head_publish, head_reserve>> /\ cgot = <<>>
          /\ ctail' = tail_publish
          /\ cpc' \in {"load_tail", "inspect"}
          /\ cpc' = "inspect" => head_publish # tail_publish
      BY Zenon, <1>1 DEF PopLoadTail, controlVars, Consumer
    <2>2. ASSUME cpc' = "inspect"
          PROVE  Oldest <= Len(log) /\ End(log[Oldest]) <= tail_publish
      <3>1. Oldest <= Len(log)
        BY Zenon, <2>1, <2>2 DEF Consumer, AtOldest
      <3> QED BY Zenon, <3>1, OldestRecord
    <2>3. tail_publish <= tail_publish
      BY ConsumerType
    <2> QED BY ZenonT(30), <1>0, <2>1, <2>2, <2>3 DEF Consumer, AtOldest, Oldest, Base, End, Intact
  <1>2. CASE PopSkip
    <2>1. /\ UNCHANGED <<popped, cgot, head_publish, head_reserve>> /\ cgot = <<>>
          /\ SkipAt(head_publish) /\ cpc = "inspect" /\ cpc' = "store_head"
          /\ cnew' = head_publish + Remaining(head_publish)
      BY Zenon, <1>2 DEF PopSkip, controlVars, Consumer
    <2>2. Oldest <= Len(log)
      BY Zenon, <2>1 DEF Consumer
    <2>3. head_publish = log[Oldest].at /\ log[Oldest].pad > 0
      BY Zenon, <2>1, <2>2, ConsumerSees, SeesRecord
    <2>4. cnew' = Base(log[Oldest])
      BY Zenon, <2>1, <2>2, <2>3, SeesPadding
    <2> QED BY ZenonT(30), <1>0, <2>1, <2>2, <2>3, <2>4
        DEF Consumer, AtOldest, Oldest, Base, End, Intact
  <1>3. CASE PopRead
    <2>1. /\ UNCHANGED <<popped, head_publish, head_reserve>>
          /\ ~ SkipAt(head_publish) /\ cpc = "inspect"
      BY Zenon, <1>3 DEF PopRead, controlVars
    <2>2. Oldest <= Len(log) /\ End(log[Oldest]) <= ctail
      BY Zenon, <2>1 DEF Consumer
    <2>3. head_publish = Base(log[Oldest])
      BY Zenon, <2>1, <2>2, ConsumerSees, SeesPadding
    <2> DEFINE r == log[Oldest]
               at == Pos(head_publish)
    <2>4. /\ ~ Malformed(head_publish)
          /\ HeaderAt(at) = HeaderCell(r.size, r.msg, FALSE)
          /\ ring[at + 1] = SequenceCell(Oldest)
          /\ \A j \in 1..PayloadWords(r.size) :
                 ring[at + HeaderWords + j - 1] = PayloadCell(r.msg, j)
      BY Zenon, <2>2, <2>3, SeesRecord
    <2>5. HeaderAt(at).size = r.size /\ HeaderAt(at).type = r.msg
      BY <2>4 DEF HeaderCell
    <2> DEFINE payload == [i \in 1..PayloadWords(r.size) |->
                               ring[at + HeaderWords + i - 1]]
    <2>6. payload = Payload(r.msg, r.size)
      BY Zenon, <2>4 DEF Payload
    <2>7. /\ cpc' = "store_head"
          /\ cnew' = head_publish + RecordWords(r.size)
          /\ \E s : cgot' = <<[type |-> r.msg, sequence |-> ring[at + 1],
                               payload |-> payload, size |-> s]>>
      BY Zenon, <1>3, <2>4, <2>5 DEF PopRead
    <2> HIDE DEF payload
    <2>8. cgot' # <<>> /\ Intact(cgot'[1], Oldest)
      BY <2>4, <2>6, <2>7 DEF Intact
    <2>9. cnew' = End(r)
      BY Zenon, <2>3, <2>7 DEF End
    <2> QED BY ZenonT(30), <1>0, <2>1, <2>2, <2>3, <2>7, <2>8, <2>9
        DEF Consumer, AtOldest, Oldest, Base, End, Intact
  <1>5. CASE PopStoreReserve
    <2>1. /\ UNCHANGED <<popped, head_publish>> /\ cgot' = <<>>
          /\ head_reserve' = head_publish /\ cpc' = "load_tail"
      BY Zenon, <1>5 DEF PopStoreReserve, Consumer
    <2>2. head_publish <= head_publish
      BY ConsumerType
    <2> QED BY ZenonT(30), <1>0, <2>1, <2>2 DEF Consumer, AtOldest, Oldest, Base, End, Intact
  <1>4. CASE PopStoreHead
    <2>1. /\ cpc = "store_head" /\ cpc' = "store_reserve"
          /\ head_publish' = cnew /\ popped' = popped \o cgot
          /\ UNCHANGED <<cnew, cgot, head_reserve>>
      BY Zenon, <1>4 DEF PopStoreHead
    <2>2. Oldest <= Len(log) /\ Len(popped) <= Len(log)
      BY Zenon, <2>1 DEF Consumer
    <2>3. head_reserve' <= head_publish'
      <3>1. head_publish <= head_publish' /\ head_publish' \in Nat
        BY Zenon, <1>4, HeadAdvances
      <3>2. head_reserve <= head_publish /\ head_reserve \in Nat /\ head_publish \in Nat
        BY Zenon, ConsumerType DEF Consumer
      <3> QED BY <2>1, <3>1, <3>2
    <2>4. popped \in Seq(Records) /\ cgot \in Seq(Records) /\ Len(cgot) <= 1
      BY Zenon DEF TypeOK
    <2>5. CASE cgot = <<>>
      <3>1. popped' = popped
        BY <2>1, <2>4, <2>5
      <3>2. cnew = Base(log[Oldest])
        BY Zenon, <2>1, <2>5 DEF Consumer
      <3> QED BY ZenonT(30), <1>0, <2>1, <2>2, <2>3, <3>1, <3>2
          DEF Consumer, AtOldest, Oldest, Base, End, Intact
    <2>6. CASE cgot # <<>>
      <3>1. cnew = End(log[Oldest]) /\ Intact(cgot[1], Oldest)
        BY ZenonT(30), <2>1, <2>6 DEF Consumer
      <3>3. /\ Len(popped') = Len(popped) + 1
            /\ \A i \in 1..Len(popped) : popped'[i] = popped[i]
            /\ popped'[Len(popped) + 1] = cgot[1]
        BY Zenon, <2>1, <2>4, <2>6, ConcatFacts
      <3>4. /\ Oldest' = Oldest + 1 /\ Oldest = Len(popped) + 1
            /\ Len(popped) \in Nat /\ Len(log) \in Nat /\ Oldest \in 1..Len(log)
        BY Zenon, <2>2, <3>3, OldestRecord, ConsumerType DEF Oldest
      <3>5. AtOldest(head_publish)'
        <4>1. CASE Oldest + 1 <= Len(log)
          <5>1. Oldest < Len(log)
            BY <3>4, <4>1
          <5>2. log[Oldest + 1].at = End(log[Oldest])
            BY Zenon, <3>4, <5>1 DEF Layout
          <5> QED BY Zenon, <1>0, <2>1, <3>1, <3>4, <4>1, <5>2 DEF AtOldest
        <4>2. CASE ~ (Oldest + 1 <= Len(log))
          <5>1. Oldest = Len(log) /\ log # <<>>
            BY <3>4, <4>2, ConsumerType
          <5>2. End(log[Oldest]) = tail_publish
            BY Zenon, <5>1 DEF Layout
          <5> QED BY Zenon, <1>0, <2>1, <3>1, <3>4, <4>2, <5>2 DEF AtOldest
        <4> QED BY Zenon, <4>1, <4>2
      <3>6. \A i \in 1..Len(popped') : Intact(popped[i], i)'
        <4> SUFFICES ASSUME NEW i \in 1..Len(popped') PROVE Intact(popped[i], i)'
          BY Zenon
        <4>1. CASE i \in 1..Len(popped)
          BY Zenon, <1>0, <3>3, <4>1 DEF Consumer, Intact
        <4>2. CASE i = Len(popped) + 1
          BY Zenon, <1>0, <3>1, <3>3, <3>4, <4>2 DEF Intact
        <4>3. i \in 1..Len(popped) \/ i = Len(popped) + 1
          BY <3>3, <3>4
        <4> QED BY Zenon, <4>1, <4>2, <4>3
      <3>7. Len(popped') <= Len(log')
        BY <1>0, <3>3, <3>4
      <3> QED BY Zenon, <2>1, <2>3, <3>5, <3>6, <3>7 DEF Consumer
    <2> QED BY Zenon, <2>5, <2>6
  <1> QED BY Zenon, <1>1, <1>2, <1>3, <1>4, <1>5 DEF Pop

\* Every step keeps the part of the invariant about try_pop.
LEMMA ConsumerStep ==
    ASSUME TypeOK, Reservations, Snapshots, Layout, Unread, Consumer, [Next]_vars
    PROVE  Consumer'
  <1>1. CASE Pop
    BY Zenon, <1>1, ConsumerPop
  <1>2. ASSUME NEW p \in Producers, PushPublish(p), UNCHANGED consumerVars
        PROVE  Consumer'
    BY Zenon, <1>2, ConsumerPublish
  <1>3. ASSUME ~ Pop, UNCHANGED <<log, tail_publish>> PROVE Consumer'
    <2>1. UNCHANGED <<consumerVars, head_publish, head_reserve>>
      BY Zenon, <1>3 DEF Next, vars, Push, PushStep, PushLoadHead, PushLoadTail, PushReject,
         PushReserve, PushRetry, PushWriteHeader, PushWritePayload, PushTakeTurn,
         PushPublish, PushCall, PushCrash, producerVars, controlVars
    <2> QED
      BY ZenonT(30), <1>3, <2>1
      DEF consumerVars, Consumer, AtOldest, Oldest, Base, End, Intact
  <1> QED BY Zenon, <1>1, <1>2, <1>3, LogGrows

-------------------------------------------------------------------------------
(* The invariant, and the properties it carries. *)

\* A fresh ring satisfies the invariant.
LEMMA RingInvInit == Init => RingInv
  <1> SUFFICES ASSUME Init PROVE RingInv
    OBVIOUS
  <1>1. WriterInv
    BY WriterInvInit DEF Init
  <1>2. /\ log = <<>> /\ popped = <<>> /\ cgot = <<>> /\ cpc = "load_tail"
        /\ head_publish = 0 /\ head_reserve = 0 /\ tail_publish = 0
    BY Zenon DEF Init, WriterInit
  <1>3. Len(log) = 0 /\ Len(popped) = 0 /\ Oldest = 1
    BY <1>2 DEF Oldest
  <1>4. Consumer
    BY <1>2, <1>3 DEF Consumer, AtOldest
  <1> QED BY Zenon, <1>1, <1>4 DEF RingInv

\* Every step preserves it.
LEMMA RingInvStep ==
    ASSUME TypeOK, RingInv, [Next]_vars
    PROVE  RingInv'
  <1>1. WriterInv /\ Reservations /\ Layout /\ Snapshots /\ Unread /\ Consumer
    BY Zenon DEF RingInv, WriterInv
  <1>2. Consumer'
    BY Zenon, <1>1, ConsumerStep
  <1>3. WriterInv'
    <2>0. WriterTypeOK
      BY Zenon, ConsumerType
    <2>1. CASE PopStoreHead /\ UNCHANGED <<producerVars, dead>>
      <3>1. UNCHANGED <<tail_reserve, tail_publish, sequence, ring, producerVars>>
        BY Zenon, <2>1 DEF PopStoreHead
      <3> QED BY Zenon, <1>1, <2>0, <2>1, <3>1, HeadAdvances, WriterInvHead
    <2>2. CASE (Pop /\ ~ PopStoreHead) \/ UNCHANGED vars
      <3>1. UNCHANGED <<head_publish, tail_reserve, tail_publish, sequence, ring,
                        producerVars>>
        BY Zenon, <2>2 DEF Pop, PopLoadTail, PopSkip, PopRead, PopStoreReserve,
           controlVars, vars
      <3> QED BY Zenon, <1>1, <2>0, <3>1, WriterInvFrame
    <2>3. ASSUME NEW p \in Producers, Push(p) PROVE WriterInv'
      BY Zenon, <1>1, <2>0, <2>3, WriterInvPush
    <2> QED BY Zenon, <2>1, <2>2, <2>3 DEF Next, Pop
  <1> QED BY Zenon, <1>2, <1>3 DEF RingInv

\* The words of the ring are, at every moment, the published messages not yet
\* popped followed by what the calls of try_push under way have written.
THEOREM RingInvariant == Spec => []RingInv
  BY RingInvInit, RingInvStep, TypeCorrect, PTL DEF Spec

\* The reserved words that are not published are tiled by the calls that hold
\* them, however the producers interleave and whoever of them dies.
THEOREM ReservationsTile == Spec => []Reservations
  <1>1. RingInv => Reservations
    BY Zenon DEF RingInv, WriterInv
  <1> QED BY <1>1, RingInvariant, PTL

\* head_publish never passes tail_publish, which never passes tail_reserve, and
\* the producers never reserve a word that was not given back.
THEOREM CursorsOrdered == Spec => []CursorOrder
  <1>1. RingInv => CursorOrder
    BY Zenon DEF RingInv, WriterInv, Reservations, Snapshots, CursorOrder, Consumer
  <1> QED BY <1>1, RingInvariant, PTL

\* try_pop returns each published message once, in order and intact.
THEOREM DeliveredIntact == Spec => []PoppedIntact
  <1>1. TypeOK /\ RingInv => PoppedIntact
    BY Zenon DEF RingInv, Consumer, Intact, PoppedIntact
  <1> QED BY <1>1, TypeCorrect, RingInvariant, PTL

\* The consumer always finds a complete record where it looks for one.
THEOREM HeaderFound == Spec => []HeadIsARecord
  <1>1. TypeOK /\ RingInv => HeadIsARecord
    <2> SUFFICES ASSUME TypeOK, RingInv, cpc = "inspect", ~ SkipAt(head_publish)
                 PROVE  /\ ring[Pos(head_publish)].kind = "header"
                        /\ ~ Malformed(head_publish)
                        /\ HeaderAt(Pos(head_publish)).type = log[Oldest].msg
      BY Zenon DEF HeadIsARecord, Oldest
    <2>1. /\ Layout /\ Consumer /\ Unread
          /\ Oldest <= Len(log) /\ End(log[Oldest]) <= ctail
      BY Zenon DEF RingInv, WriterInv, Consumer
    <2>2. head_publish = Base(log[Oldest])
      BY Zenon, <2>1, ConsumerSees, SeesPadding
    <2>3. /\ ring[Pos(head_publish)].kind = "header"
          /\ ~ Malformed(head_publish)
          /\ HeaderAt(Pos(head_publish)) = HeaderCell(log[Oldest].size, log[Oldest].msg, FALSE)
      BY ZenonT(30), <2>1, <2>2, SeesRecord
    <2> QED BY <2>3 DEF HeaderCell
  <1> QED BY <1>1, TypeCorrect, RingInvariant, PTL

\* Producers that write without a lock never write the same word, nor one the
\* consumer may be reading.
THEOREM NoDataRace == Spec => []RegionsDisjoint
  <1>1. TypeOK /\ RingInv => RegionsDisjoint
    <2> SUFFICES ASSUME TypeOK, RingInv PROVE RegionsDisjoint
      BY Zenon
    <2>0. WriterTypeOK /\ WriterInv /\ head_publish <= tail_publish
      BY Zenon, ConsumerType DEF RingInv, WriterInv
    <2>3. ASSUME NEW p \in Producers PROVE OwnedWords(p) \cap UnreadWords = {}
      <3> SUFFICES ASSUME ppc[p] \in Holding,
                          NEW c \in Start(p)..(PublishTo(p) - 1),
                          NEW d \in head_publish..(tail_publish - 1),
                          Pos(c) = Pos(d)
                   PROVE  FALSE
        BY Zenon DEF OwnedWords, UnreadWords
      <3>1. /\ c \in Nat /\ head_publish <= c /\ tail_publish <= c
            /\ c < head_publish + Capacity
        BY Zenon, <2>0, OwnedCursor
      <3>2. head_publish \in Nat /\ tail_publish \in Nat
        BY Zenon, ConsumerType
      <3>3. /\ d \in Nat /\ head_publish <= d /\ d < tail_publish
            /\ d < head_publish + Capacity
        BY <3>1, <3>2, CapacityType
      <3>4. c = d
        BY Zenon, <2>0, <3>1, <3>3, WindowInjective
      <3> QED BY <3>1, <3>2, <3>3, <3>4
    <2>4. ASSUME NEW p \in Producers, NEW q \in Producers \ {p}
          PROVE  OwnedWords(p) \cap OwnedWords(q) = {}
      <3> SUFFICES ASSUME ppc[p] \in Holding, ppc[q] \in Holding,
                          NEW c \in Start(p)..(PublishTo(p) - 1),
                          NEW d \in Start(q)..(PublishTo(q) - 1),
                          Pos(c) = Pos(d)
                   PROVE  FALSE
        BY Zenon DEF OwnedWords
      <3>1. c \in Nat /\ head_publish <= c /\ c < head_publish + Capacity
        BY Zenon, <2>0, OwnedCursor
      <3>2. d \in Nat /\ head_publish <= d /\ d < head_publish + Capacity
        BY Zenon, <2>0, OwnedCursor
      <3>3. c = d
        BY ZenonT(30), <2>0, <3>1, <3>2, WindowInjective
      <3>4. PublishTo(p) <= Start(q) \/ PublishTo(q) <= Start(p)
        BY Zenon, <2>0 DEF WriterInv, Reservations
      <3>5. /\ Start(p) \in Nat /\ PublishTo(p) \in Nat
            /\ Start(q) \in Nat /\ PublishTo(q) \in Nat
        BY Zenon, <2>0, CallType
      <3> QED BY <3>1, <3>3, <3>4, <3>5
    <2> QED BY Zenon, <2>3, <2>4 DEF RegionsDisjoint
  <1> QED BY <1>1, TypeCorrect, RingInvariant, PTL

\* A record is written in one piece inside the ring, inside its reservation.
THEOREM RecordFits == Spec => []RecordInBounds
  <1>1. TypeOK /\ RingInv => RecordInBounds
    <2> SUFFICES ASSUME TypeOK, RingInv, NEW p \in Producers, ppc[p] \in Holding
                 PROVE  /\ RecordPos(p) + RecordWords(psize[p]) <= Capacity
                        /\ RecordPos(p) \in OwnedWords(p)
                        /\ RecordPos(p) + RecordWords(psize[p]) - 1 \in OwnedWords(p)
      BY Zenon DEF RecordInBounds
    <2> DEFINE words == RecordWords(psize[p])
               b == Start(p) + ppad[p]
    <2>1. /\ Start(p) \in Nat /\ ppad[p] \in Nat /\ words \in 2..Capacity
          /\ PublishTo(p) = b + words
      BY Zenon, ConsumerType, CallType
    <2>2. ppad[p] = Padding(Start(p), words)
      BY Zenon DEF RingInv, WriterInv, Snapshots, Start
    <2> HIDE DEF words
    <2>3. /\ Pos(b) = IF ppad[p] > 0 THEN 0 ELSE Pos(Start(p))
          /\ Pos(b) + words <= Capacity
          /\ Pos(b) \in 0..(Capacity - 1)
          /\ \A j \in 0..(words - 1) : Pos(b + j) = Pos(b) + j
      BY <2>1, <2>2, RecordSpan
    <2>4. RecordPos(p) = Pos(b)
      BY Zenon, <2>3 DEF RecordPos
    <2>5. b \in Start(p)..(PublishTo(p) - 1) /\ b + (words - 1) \in Start(p)..(PublishTo(p) - 1)
      BY <2>1
    <2>6. Pos(b + (words - 1)) = Pos(b) + words - 1
      <3>1. words - 1 \in 0..(words - 1)
        BY <2>1
      <3>2. Pos(b + (words - 1)) = Pos(b) + (words - 1)
        BY Zenon, <2>3, <3>1
      <3> QED BY Zenon, <2>1, <2>3, <3>2
    <2>7. OwnedWords(p) = {Pos(c) : c \in Start(p)..(PublishTo(p) - 1)}
      BY Zenon DEF OwnedWords
    <2>8. Pos(b) \in OwnedWords(p) /\ Pos(b + (words - 1)) \in OwnedWords(p)
      BY Zenon, <2>5, <2>7
    <2> QED BY Zenon, <2>3, <2>4, <2>6, <2>8 DEF words
  <1> QED BY <1>1, TypeCorrect, RingInvariant, PTL

-------------------------------------------------------------------------------
(* The ring is a bounded FIFO queue: SharedRingBuffer refines Fifo.  Its    *)
(* Capacity words bound the queue at Capacity \div HeaderWords messages.    *)

sentLog == [i \in 1..Len(log) |-> log[i].msg]
receivedLog == [i \in 1..Len(popped) |-> popped[i].type]

\* The messages inside never outgrow the ring: each takes a header at least.
LEMMA UnreadCount ==
    ASSUME TypeOK, RingInv
    PROVE  HeaderWords * (Len(log) - Len(popped)) <= Capacity
  <1> DEFINE n == Len(log)
             o == Oldest
  <1>0. HeaderWords = 2
    BY Zenon, RecordGeometry
  <1>1. /\ Reservations /\ Layout /\ Consumer /\ Snapshots
        /\ Len(popped) <= n
    BY Zenon DEF RingInv, WriterInv, Consumer
  <1>2. /\ n \in Nat /\ Len(popped) \in Nat /\ o = Len(popped) + 1 /\ o \in Nat
        /\ head_publish \in Nat /\ tail_publish \in Nat /\ tail_reserve \in Nat
    BY Zenon, ConsumerType
  <1>3. CASE o > n
    BY <1>0, <1>1, <1>2, <1>3, CapacityType
  <1>4. CASE o <= n
    <2>1. o \in 1..n /\ n \in 1..n /\ WriterTypeOK
      BY <1>2, <1>4, ConsumerType
    <2>2. /\ head_publish <= Base(log[o]) /\ End(log[n]) <= tail_publish
          /\ tail_publish <= tail_reserve /\ tail_reserve <= head_publish + Capacity
      <3>1. head_publish \in {log[o].at, Base(log[o])}
        BY Zenon, <1>1, <1>4 DEF Consumer, AtOldest
      <3>2. /\ log[o].at <= Base(log[o]) /\ Base(log[o]) \in Nat
        BY Zenon, <1>1, <1>4, OldestRecord
      <3>3. head_publish <= Base(log[o])
        BY <3>1, <3>2
      <3>4. End(log[n]) <= tail_publish
        BY Zenon, <1>1, <2>1, RecordsPublished
      <3> QED BY Zenon, <1>1, <3>3, <3>4 DEF Reservations, Snapshots
    <2>3. /\ Base(log[o]) \in Nat /\ End(log[n]) \in Nat /\ End(log[o]) \in Nat
          /\ Base(log[o]) + 2 <= End(log[o])
      BY Zenon, <2>1, RecordType, RecordOrder
    <2>4. End(log[n]) >= Base(log[o]) + 2 * (n - o + 1)
      <3>1. CASE o = n
        BY <1>2, <2>3, <3>1
      <3>2. CASE o < n
        <4>1. o + 1 \in 1..n /\ o + 1 <= n
          BY <1>2, <3>2
        <4>2. log[o + 1].at = End(log[o])
          BY Zenon, <1>1, <2>1, <3>2 DEF Layout
        <4>3. End(log[n]) >= log[o + 1].at + HeaderWords * (n - (o + 1) + 1)
          BY Zenon, <1>1, <2>1, <4>1 DEF Layout
        <4> HIDE DEF n, o
        <4> QED BY <1>0, <1>2, <2>3, <4>2, <4>3
      <3> QED BY <1>2, <1>4, <3>1, <3>2
    <2> HIDE DEF n, o
    <2>5. 2 * (n - o + 1) <= Capacity
      BY <1>2, <2>2, <2>3, <2>4, CapacityType
    <2> QED BY <1>0, <1>2, <2>5 DEF n
  <1> QED BY <1>2, <1>3, <1>4

\* The two logs as sequences of messages.
LEMMA LogTypes ==
    ASSUME TypeOK, RingInv
    PROVE  /\ sentLog \in [1..Len(log) -> Messages]
           /\ receivedLog \in [1..Len(popped) -> Messages]
           /\ Len(sentLog) = Len(log) /\ Len(receivedLog) = Len(popped)
           /\ \A i \in 1..Len(popped) : popped[i].type = log[i].msg
           /\ Len(log) \in Nat /\ Len(popped) \in Nat
  <1>1. Len(log) \in Nat /\ Len(popped) \in Nat /\ Len(popped) <= Len(log)
    BY Zenon, ConsumerType DEF RingInv, Consumer
  <1>2. \A i \in 1..Len(log) : log[i].msg \in Messages
    BY Zenon, ConsumerType, RecordType
  <1>3. \A i \in 1..Len(popped) : popped[i].type = log[i].msg
    BY Zenon DEF RingInv, Consumer, Intact
  <1>4. \A i \in 1..Len(popped) : i \in 1..Len(log)
    BY <1>1
  <1>5. sentLog \in [1..Len(log) -> Messages]
    BY Zenon, <1>2 DEF sentLog
  <1>6. receivedLog \in [1..Len(popped) -> Messages]
    BY Zenon, <1>2, <1>3, <1>4 DEF receivedLog
  <1>7. Len(sentLog) = Len(log) /\ Len(receivedLog) = Len(popped)
    BY <1>1, <1>5, <1>6
  <1> QED BY Zenon, <1>1, <1>3, <1>5, <1>6, <1>7

\* Publishing a record is sending its message.
LEMMA PublishSends ==
    ASSUME TypeOK, RingInv, TypeOK', RingInv',
           NEW p \in Producers, PushPublish(p), UNCHANGED consumerVars
    PROVE  /\ Current(p) \in Messages
           /\ Len(sentLog) - Len(receivedLog) < Capacity \div HeaderWords
           /\ sentLog' = Append(sentLog, Current(p))
           /\ receivedLog' = receivedLog
  <1>1. /\ Len(log') = Len(log) + 1
        /\ \A i \in 1..Len(log) : log'[i] = log[i]
        /\ log'[Len(log) + 1] = Published(p) /\ Published(p).msg = Current(p)
        /\ ppc[p] = "publish"
    BY Zenon, ConsumerType, PublishFacts DEF RingInv, WriterInv
  <1>2. Current(p) \in Messages
    BY Zenon, <1>1, ConsumerType, CurrentType
  <1>3. popped' = popped
    BY Zenon DEF consumerVars
  <1>4. /\ sentLog \in [1..Len(log) -> Messages] /\ Len(log) \in Nat
        /\ Len(popped) \in Nat
        /\ Len(sentLog) = Len(log) /\ Len(receivedLog) = Len(popped)
    BY Zenon, LogTypes
  <1>5. sentLog' \in [1..(Len(log) + 1) -> Messages]
    <2>1. (sentLog \in [1..Len(log) -> Messages])'
      BY LogTypes, PTL
    <2> QED BY Zenon, <1>1, <2>1
  <1>6. sentLog' = [i \in 1..(Len(log) + 1) |-> log'[i].msg]
    BY Zenon, <1>1 DEF sentLog
  <1>7. (\A i \in 1..Len(log) : sentLog'[i] = sentLog[i]) /\ sentLog'[Len(log) + 1] = Current(p)
    BY <1>1, <1>4, <1>6 DEF sentLog
  <1>8. sentLog' = Append(sentLog, Current(p))
    BY <1>4, <1>5, <1>7, AppendFunction
  <1>9. HeaderWords * (Len(log') - Len(popped')) <= Capacity
    <2>1. (HeaderWords * (Len(log) - Len(popped)) <= Capacity)'
      BY UnreadCount, PTL
    <2> QED BY Zenon, <2>1
  <1>10. Len(log) - Len(popped) < Capacity \div HeaderWords
    <2>1. HeaderWords = 2
      BY Zenon, RecordGeometry
    <2> QED BY <1>1, <1>3, <1>4, <1>9, <2>1, CapacityType
  <1>11. receivedLog' = receivedLog
    BY Zenon, <1>3 DEF receivedLog
  <1> QED BY Zenon, <1>2, <1>4, <1>8, <1>10, <1>11

\* Giving the words of a record back is receiving its message.
LEMMA StoreHeadReceives ==
    ASSUME TypeOK, RingInv, TypeOK', RingInv', PopStoreHead, UNCHANGED log,
           cgot # <<>>
    PROVE  /\ Len(receivedLog) < Len(sentLog)
           /\ receivedLog' = Append(receivedLog, sentLog[Len(receivedLog) + 1])
           /\ sentLog' = sentLog
  <1>1. /\ Len(sentLog) = Len(log) /\ Len(receivedLog) = Len(popped)
        /\ receivedLog \in [1..Len(popped) -> Messages]
        /\ Len(log) \in Nat /\ Len(popped) \in Nat
    BY Zenon, LogTypes
  <1>2. /\ popped \in Seq(Records) /\ cgot \in Seq(Records) /\ Len(cgot) <= 1
        /\ popped' = popped \o cgot /\ cpc = "store_head"
    BY Zenon DEF TypeOK, PopStoreHead
  <1>3. /\ Len(popped') = Len(popped) + 1
        /\ \A i \in 1..Len(popped) : popped'[i] = popped[i]
        /\ popped'[Len(popped) + 1] = cgot[1]
    BY Zenon, <1>2, ConcatFacts
  <1>4. Oldest <= Len(log) /\ cgot[1].type = log[Oldest].msg
    BY Zenon, <1>2 DEF RingInv, Consumer, Intact
  <1>5. Len(popped) + 1 \in 1..Len(log) /\ cgot[1].type = log[Len(popped) + 1].msg
    BY <1>1, <1>4 DEF Oldest
  <1>6. cgot[1].type = sentLog[Len(receivedLog) + 1]
    BY Zenon, <1>1, <1>5 DEF sentLog
  <1>7. receivedLog' \in [1..(Len(popped) + 1) -> Messages]
    <2>1. (receivedLog \in [1..Len(popped) -> Messages])'
      BY LogTypes, PTL
    <2> QED BY Zenon, <1>3, <2>1
  <1>8. receivedLog' = [i \in 1..(Len(popped) + 1) |-> popped'[i].type]
    BY Zenon, <1>3 DEF receivedLog
  <1>9. /\ \A i \in 1..Len(popped) : receivedLog'[i] = receivedLog[i]
        /\ receivedLog'[Len(popped) + 1] = cgot[1].type
    BY <1>1, <1>3, <1>8 DEF receivedLog
  <1>10. receivedLog' = Append(receivedLog, cgot[1].type)
    BY <1>1, <1>7, <1>9, AppendFunction
  <1>11. Len(receivedLog) < Len(sentLog)
    BY <1>1, <1>5
  <1> QED BY Zenon, <1>6, <1>10, <1>11 DEF sentLog

\* Any number of producers and one consumer, whatever the interleaving and
\* wherever producers die, see one bounded queue: messages come out in the
\* order of their publication, none twice, none skipped.
THEOREM RefinesFifo == Spec => ImplementsFifo
  <1>1. Init => Queue!Init
    BY DEF Init, WriterInit, Queue!Init
  <1>2. /\ TypeOK /\ RingInv /\ TypeOK' /\ RingInv' /\ [Next]_vars
        => [Queue!Next]_(Queue!fifoVars)
    <2> SUFFICES ASSUME TypeOK, RingInv, TypeOK', RingInv', [Next]_vars
                 PROVE  \/ Queue!Next
                        \/ sentLog' = sentLog /\ receivedLog' = receivedLog
      BY Zenon DEF Queue!fifoVars, sentLog, receivedLog
    <2>1. ASSUME NEW p \in Producers, PushPublish(p), UNCHANGED consumerVars
          PROVE  Queue!Next
      <3>1. /\ Current(p) \in Messages
            /\ Len(sentLog) - Len(receivedLog) < Capacity \div HeaderWords
            /\ sentLog' = Append(sentLog, Current(p))
            /\ receivedLog' = receivedLog
        BY Zenon, <2>1, PublishSends
      <3> QED BY Zenon, <3>1 DEF Queue!Next, Queue!Send, sentLog, receivedLog
    <2>2. ASSUME UNCHANGED log, PopStoreHead, cgot # <<>> PROVE Queue!Next
      <3>1. /\ Len(receivedLog) < Len(sentLog)
            /\ receivedLog' = Append(receivedLog, sentLog[Len(receivedLog) + 1])
            /\ sentLog' = sentLog
        BY Zenon, <2>2, StoreHeadReceives
      <3> QED BY Zenon, <3>1 DEF Queue!Next, Queue!Receive, sentLog, receivedLog
    <2>3. ASSUME UNCHANGED log, ~ (PopStoreHead /\ cgot # <<>>)
          PROVE  sentLog' = sentLog /\ receivedLog' = receivedLog
      <3>1. CASE PopStoreHead
        <4>1. popped \in Seq(Records) /\ popped' = popped \o <<>>
          BY Zenon, <2>3, <3>1 DEF PopStoreHead, TypeOK
        <4>2. popped' = popped
          BY <4>1
        <4> QED BY Zenon, <2>3, <4>2 DEF sentLog, receivedLog
      <3>2. CASE ~ PopStoreHead
        <4>1. popped' = popped
          BY Zenon, <3>2 DEF Next, Pop, PopLoadTail, PopSkip, PopRead, PopStoreReserve,
             vars, consumerVars
        <4> QED BY <2>3, <4>1 DEF sentLog, receivedLog
      <3> QED BY Zenon, <3>1, <3>2
    <2> QED BY Zenon, <2>1, <2>2, <2>3, LogGrows
  <1> QED BY <1>1, <1>2, TypeCorrect, RingInvariant, PTL
      DEF Spec, ImplementsFifo, Queue!Spec

-------------------------------------------------------------------------------
(* From the calls of try_push to what try_pop returns. *)

\* The words of the records not popped are not given back.
LEMMA UnreadKept ==
    ASSUME TypeOK, RingInv, NEW i \in 1..Len(log), i > Len(popped)
    PROVE  head_publish <= Base(log[i])
  <1> DEFINE o == Oldest
  <1>1. Layout /\ Consumer /\ WriterTypeOK
    BY Zenon, ConsumerType DEF RingInv, WriterInv
  <1>2. /\ Len(log) \in Nat /\ Len(popped) \in Nat /\ o = Len(popped) + 1
        /\ head_publish \in Nat
    BY Zenon, ConsumerType
  <1>3. o <= Len(log) /\ o <= i
    BY <1>2
  <1>4. head_publish \in {log[o].at, Base(log[o])}
    BY Zenon, <1>1, <1>3 DEF Consumer, AtOldest
  <1>5. /\ log[o].at <= Base(log[o]) /\ Base(log[o]) \in Nat /\ o \in 1..Len(log)
        /\ Base(log[o]) < End(log[o]) /\ End(log[o]) \in Nat
    BY Zenon, <1>1, <1>3, OldestRecord
  <1>6. log[i].at \in Nat /\ Base(log[i]) \in Nat /\ log[i].at <= Base(log[i])
    BY Zenon, <1>1, RecordType, RecordOrder
  <1>7. o < i => End(log[o]) <= log[i].at
    BY Zenon, <1>1, <1>5 DEF Layout
  <1>8. head_publish <= Base(log[o])
    BY <1>4, <1>5
  <1>9. CASE o = i
    BY Zenon, <1>8, <1>9
  <1>10. CASE o < i
    BY <1>2, <1>5, <1>6, <1>7, <1>8, <1>10
  <1> HIDE DEF o
  <1> QED BY <1>2, <1>3, <1>9, <1>10

\* Every call of try_push that returned true has its record in the log, once and in
\* its producer's order.
LEMMA AcceptedAlways == Spec => []Accepted
  <1>1. Init => Accepted
    BY Zenon, AcceptedInit DEF Init
  <1>2. TypeOK /\ Accepted /\ [Next]_vars => Accepted'
    <2> SUFFICES ASSUME TypeOK, Accepted, [Next]_vars PROVE Accepted'
      BY Zenon
    <2>1. CASE Pop \/ UNCHANGED vars
      <3>1. UNCHANGED producerVars
        BY Zenon, <2>1 DEF Pop, vars
      <3> QED BY Zenon, <3>1, AcceptedFrame
    <2>2. ASSUME NEW p \in Producers, Push(p) PROVE Accepted'
      BY Zenon, <2>2, ConsumerType, AcceptedPush
    <2> QED BY Zenon, <2>1, <2>2 DEF Next
  <1> QED BY <1>1, <1>2, TypeCorrect, PTL DEF Spec

\* Between the calls of try_push that return true and the records try_pop returns
\* nothing is lost, repeated, made up or reordered within a producer, for any number
\* of producers, whichever of them die: what is not popped yet is whole in the ring.
THEOREM NoPushLost == Spec => []PushedOnce
  <1>1. TypeOK /\ RingInv /\ Accepted => PushedOnce
    <2> SUFFICES ASSUME TypeOK, RingInv, Accepted PROVE EachPushOnce(popped)
      BY Zenon DEF PushedOnce
    <2>1. WriterTypeOK /\ Unread /\ Len(popped) \in Nat
      BY Zenon, ConsumerType DEF RingInv, WriterInv
    <2>2. /\ Len(popped) <= Len(log)
          /\ \A i \in 1..Len(popped) : popped[i].type = log[i].msg
      BY Zenon DEF RingInv, Consumer, Intact
    <2>3. \A i \in 1..Len(log) : i > Len(popped) => head_publish <= Base(log[i])
      BY Zenon, UnreadKept
    <2> QED BY Zenon, <2>1, <2>2, <2>3, EachOnce
  <1> QED BY <1>1, TypeCorrect, RingInvariant, AcceptedAlways, PTL

\* A producer that dies between its CAS and its publishing store blocks publication
\* for good: nothing in try_push or try_pop moves tail_publish past its reservation.
THEOREM DeadBlock == Spec => DeadKeepPlace
  <1>1. TypeOK /\ RingInv /\ [Next]_vars
        => [\A p \in dead : ppc[p] \in Holding => KeepsPlace(p)]_vars
    <2> SUFFICES ASSUME TypeOK, RingInv, [Next]_vars, NEW q \in dead, ppc[q] \in Holding
                 PROVE  KeepsPlace(q)
      BY Zenon
    <2>1. WriterTypeOK /\ Reservations
      BY Zenon, ConsumerType DEF RingInv, WriterInv
    <2>2. CASE Pop \/ UNCHANGED vars
      <3>1. UNCHANGED <<producerVars, dead, tail_publish>>
        BY Zenon, <2>2 DEF Pop, PopLoadTail, PopSkip, PopRead, PopStoreHead,
           PopStoreReserve, vars, controlVars
      <3> QED BY Zenon, <2>1, <3>1, PlaceFrame
    <2>3. ASSUME NEW p \in Producers, Push(p) PROVE KeepsPlace(q)
      BY Zenon, <2>1, <2>3, PlaceKept
    <2> QED BY Zenon, <2>2, <2>3 DEF Next
  <1> QED BY <1>1, TypeCorrect, RingInvariant, PTL DEF Spec, DeadKeepPlace
===============================================================================
