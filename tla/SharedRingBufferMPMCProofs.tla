---------------------- MODULE SharedRingBufferMPMCProofs ----------------------
(***************************************************************************)
(* Proofs about the MPMC ring, for any sets of producers and consumers,    *)
(* any capacity, any payload sizes, and whoever dies: ClaimInv is          *)
(* inductive.  The claims tile the words between head_publish and          *)
(* head_reserve in every behaviour; as long as no claim overran, what is   *)
(* claimed is a published record, nobody disturbs the copies, and the      *)
(* records popped are the published ones, in order and intact.             *)
(***************************************************************************)
EXTENDS SharedRingBufferMPMC, RingWriterProofs

\* Time for the large leaves.
USE SMTT(30), ZenonT(30)

-------------------------------------------------------------------------------
(* The types of the state. *)

\* A fresh ring has its types.
LEMMA TypeInit == Init => TypeOK
  <1> SUFFICES ASSUME Init PROVE TypeOK
    BY Zenon
  <1>1. WriterTypeOK
    BY Zenon, WriterTypeInit DEF Init
  <1>2. /\ csize \in [Consumers -> Seq(Nat)]
        /\ cgot \in [Consumers -> Seq(Records)]
        /\ \A c \in Consumers : Len(csize[c]) <= 1 /\ Len(cgot[c]) <= 1
        /\ popped \in Seq(Records)
    BY DEF Init
  <1>3. cdead \subseteq MortalConsumers /\ overrun \in BOOLEAN
    BY Zenon DEF Init
  <1>4. /\ cpc \in [Consumers -> {"load_tail", "load_head", "inspect", "cas", "copy",
                                  "wait"}]
        /\ ctail \in [Consumers -> Nat] /\ chead \in [Consumers -> Nat]
        /\ cnew \in [Consumers -> Nat]
    BY Zenon DEF Init
  <1> QED BY Zenon, <1>1, <1>2, <1>3, <1>4 DEF TypeOK

\* The types of a consumer's locals, and of the logs.
LEMMA ConsumerType ==
    ASSUME TypeOK
    PROVE  /\ WriterTypeOK
           /\ head_publish \in Nat /\ tail_publish \in Nat /\ tail_reserve \in Nat
           /\ head_reserve \in Nat /\ Len(log) \in Nat /\ Len(popped) \in Nat
           /\ \A c \in Consumers :
                /\ ctail[c] \in Nat /\ chead[c] \in Nat /\ cnew[c] \in Nat
                /\ csize[c] \in Seq(Nat) /\ Len(csize[c]) \in Nat /\ Len(csize[c]) <= 1
                /\ cgot[c] \in Seq(Records) /\ Len(cgot[c]) \in Nat /\ Len(cgot[c]) <= 1
  <1>1. WriterTypeOK
    BY Zenon DEF TypeOK
  <1>2. Len(popped) \in Nat
    BY DEF TypeOK
  <1>3. \A c \in Consumers :
          /\ ctail[c] \in Nat /\ chead[c] \in Nat /\ cnew[c] \in Nat
          /\ csize[c] \in Seq(Nat) /\ Len(csize[c]) <= 1
          /\ cgot[c] \in Seq(Records) /\ Len(cgot[c]) <= 1
    BY Zenon DEF TypeOK
  <1>4. \A c \in Consumers : Len(csize[c]) \in Nat /\ Len(cgot[c]) \in Nat
    BY <1>3
  <1> QED BY Zenon, <1>1, <1>2, <1>3, <1>4, CursorType

\* What is read as a header has a payload size, a type and flags.
LEMMA HeaderType ==
    ASSUME TypeOK, NEW at \in Words, NEW header \in HeadersAt(at)
    PROVE  /\ header.size \in Nat
           /\ header.type \in Messages \cup {NoMessage}
           /\ header.wrap \in BOOLEAN
  <1>1. ring[at] \in Cells
    BY Zenon DEF TypeOK, WriterTypeOK
  <1>2. CASE ring[at].kind = "header"
    <2>1. header = ring[at]
      BY Zenon, <1>2 DEF HeadersAt
    <2>2. /\ ring[at].size \in Nat
          /\ ring[at].type \in Messages \cup {NoMessage}
          /\ ring[at].wrap \in BOOLEAN
      BY Zenon, <1>1, <1>2 DEF Cells
    <2> QED BY Zenon, <2>1, <2>2
  <1>3. CASE ring[at].kind = "zero"
    <2>1. header = HeaderCell(0, NoMessage, FALSE)
      BY Zenon, <1>3 DEF HeadersAt
    <2> QED BY Zenon, <2>1 DEF HeaderCell
  <1>4. CASE ring[at].kind = "sequence"
    <2>1. header = HeaderCell(ring[at].value, NoMessage, FALSE)
      BY Zenon, <1>4 DEF HeadersAt
    <2>2. ring[at].value \in Nat
      BY Zenon, <1>1, <1>4 DEF Cells
    <2> QED BY Zenon, <2>1, <2>2 DEF HeaderCell
  <1>5. CASE ring[at].kind \notin {"header", "zero", "sequence"}
    <2>1. header \in [kind : {"header"}, size : Sizes, type : {NoMessage}, wrap : BOOLEAN]
      BY Zenon, <1>5 DEF HeadersAt
    <2> QED BY Zenon, <2>1, SizesAssumption
  <1> QED BY Zenon, <1>2, <1>3, <1>4, <1>5

\* What PopInspect decides to claim, and why.
Decided(c, words, size) ==
    /\ ~ (Available(c) < words)
    /\ cnew' = [cnew EXCEPT ![c] = chead[c] + words]
    /\ csize' = [csize EXCEPT ![c] = size]
    /\ cpc' = [cpc EXCEPT ![c] = "cas"]
    /\ UNCHANGED <<ctail, chead, cgot>>

Inspected(c, words, size) ==
    \/ /\ size = <<>>
       /\ words = Remaining(chead[c])
       /\ \/ words < HeaderWords
          \/ \E header \in HeadersAt(Pos(chead[c])) : header.wrap
    \/ \E header \in HeadersAt(Pos(chead[c])) :
         /\ ~ header.wrap
         /\ size = <<header.size>>
         /\ words = RecordWords(header.size)
         /\ ~ (words > Remaining(chead[c]))
         /\ ~ (Remaining(chead[c]) < HeaderWords)

\* PopInspect starts anew, or decides on a claim that is not empty.
LEMMA InspectFacts ==
    ASSUME TypeOK, NEW c \in Consumers, PopInspect(c)
    PROVE  \/ Again(c)
           \/ \E words \in Nat, size \in Seq(Nat) :
                /\ words > 0 /\ Len(size) <= 1
                /\ Decided(c, words, size)
                /\ Inspected(c, words, size)
  <1> DEFINE left == Remaining(chead[c])
  <1>1. left \in Nat /\ left > 0 /\ Pos(chead[c]) \in Words
    <2>1. chead[c] \in Nat
      BY Zenon, ConsumerType
    <2> QED BY <2>1, PosRange, CapacityType
  <1>2. <<>> \in Seq(Nat) /\ Len(<<>>) <= 1
    OBVIOUS
  <1>3. SUFFICES ASSUME ~ Again(c)
                 PROVE  \E words \in Nat, size \in Seq(Nat) :
                          /\ words > 0 /\ Len(size) <= 1
                          /\ Decided(c, words, size)
                          /\ Inspected(c, words, size)
    BY Zenon
  <1>4. CASE left < HeaderWords
    <2>1. Decided(c, left, <<>>)
      BY Zenon, <1>3, <1>4 DEF PopInspect, Decide, Decided
    <2>2. Inspected(c, left, <<>>)
      BY Zenon, <1>4 DEF Inspected
    <2> QED BY Zenon, <1>1, <1>2, <2>1, <2>2
  <1>5. CASE ~ (left < HeaderWords)
    <2>1. PICK header \in HeadersAt(Pos(chead[c])) :
            IF header.wrap THEN Decide(c, left, <<>>)
            ELSE IF RecordWords(header.size) > left THEN Again(c)
            ELSE Decide(c, RecordWords(header.size), <<header.size>>)
      BY Zenon, <1>3, <1>5 DEF PopInspect
    <2>2. CASE header.wrap
      <3>1. Decided(c, left, <<>>)
        BY Zenon, <1>3, <2>1, <2>2 DEF Decide, Decided
      <3>2. Inspected(c, left, <<>>)
        BY Zenon, <2>2 DEF Inspected
      <3> QED BY Zenon, <1>1, <1>2, <3>1, <3>2
    <2>3. CASE ~ header.wrap
      <3>1. ~ (RecordWords(header.size) > left)
        BY Zenon, <1>3, <2>1, <2>3
      <3>2. Decided(c, RecordWords(header.size), <<header.size>>)
        BY Zenon, <1>3, <2>1, <2>3, <3>1 DEF Decide, Decided
      <3>3. Inspected(c, RecordWords(header.size), <<header.size>>)
        BY Zenon, <1>5, <2>3, <3>1 DEF Inspected
      <3>4. header.size \in Nat
        BY Zenon, <1>1, HeaderType
      <3>5. RecordWords(header.size) \in Nat /\ RecordWords(header.size) > 0
        BY <3>4, RecordGeometry
      <3>6. <<header.size>> \in Seq(Nat) /\ Len(<<header.size>>) <= 1
        BY <3>4
      <3> QED BY Zenon, <3>2, <3>3, <3>5, <3>6
    <2> QED BY Zenon, <2>2, <2>3
  <1> QED BY Zenon, <1>4, <1>5

-------------------------------------------------------------------------------
(* What a step of a consumer changes. *)

OthersKeep(c) ==
    \A d \in Consumers \ {c} :
        /\ cpc'[d] = cpc[d] /\ ctail'[d] = ctail[d] /\ chead'[d] = chead[d]
        /\ cnew'[d] = cnew[d] /\ csize'[d] = csize[d] /\ cgot'[d] = cgot[d]

\* The locals of a call that starts anew.
LEMMA AgainFacts ==
    ASSUME TypeOK, NEW c \in Consumers, Again(c)
    PROVE  /\ OthersKeep(c)
           /\ cpc'[c] = "load_tail" /\ cgot'[c] = <<>>
           /\ cpc' \in [Consumers -> {"load_tail", "load_head", "inspect", "cas",
                                      "copy", "wait"}]
           /\ ctail' \in [Consumers -> Nat] /\ chead' \in [Consumers -> Nat]
           /\ cnew' \in [Consumers -> Nat]
           /\ csize' \in [Consumers -> Seq(Nat)]
           /\ cgot' \in [Consumers -> Seq(Records)]
           /\ \A d \in Consumers : Len(csize'[d]) <= 1 /\ Len(cgot'[d]) <= 1
  <1>1. /\ cpc \in [Consumers -> {"load_tail", "load_head", "inspect", "cas", "copy",
                                  "wait"}]
        /\ ctail \in [Consumers -> Nat] /\ chead \in [Consumers -> Nat]
        /\ cnew \in [Consumers -> Nat]
        /\ csize \in [Consumers -> Seq(Nat)]
        /\ cgot \in [Consumers -> Seq(Records)]
        /\ \A d \in Consumers : Len(csize[d]) <= 1 /\ Len(cgot[d]) <= 1
    BY Zenon DEF TypeOK
  <1>2. /\ cpc' = [cpc EXCEPT ![c] = "load_tail"]
        /\ ctail' = [ctail EXCEPT ![c] = 0] /\ chead' = [chead EXCEPT ![c] = 0]
        /\ cnew' = [cnew EXCEPT ![c] = 0]
        /\ csize' = [csize EXCEPT ![c] = <<>>]
        /\ cgot' = [cgot EXCEPT ![c] = <<>>]
    BY Zenon DEF Again
  <1>3. <<>> \in Seq(Nat) /\ <<>> \in Seq(Records) /\ Len(<<>>) <= 1
    OBVIOUS
  <1>4. OthersKeep(c) /\ cpc'[c] = "load_tail" /\ csize'[c] = <<>> /\ cgot'[c] = <<>>
    BY Zenon, <1>1, <1>2 DEF OthersKeep
  <1>5. /\ cpc' \in [Consumers -> {"load_tail", "load_head", "inspect", "cas",
                                   "copy", "wait"}]
        /\ ctail' \in [Consumers -> Nat] /\ chead' \in [Consumers -> Nat]
        /\ cnew' \in [Consumers -> Nat]
    BY Zenon, <1>1, <1>2
  <1>6. csize' \in [Consumers -> Seq(Nat)] /\ cgot' \in [Consumers -> Seq(Records)]
    BY Zenon, <1>1, <1>2, <1>3
  <1>7. \A d \in Consumers : Len(csize'[d]) <= 1 /\ Len(cgot'[d]) <= 1
    BY Zenon, <1>1, <1>3, <1>4 DEF OthersKeep
  <1> QED BY Zenon, <1>4, <1>5, <1>6, <1>7

\* A consumer moves its own locals and the two head cursors, nothing else.
LEMMA PopFacts ==
    ASSUME TypeOK, NEW c \in Consumers, Pop(c)
    PROVE  /\ OthersKeep(c)
           /\ UNCHANGED <<producerVars, dead, tail_reserve, tail_publish, sequence, ring>>
           /\ UNCHANGED <<log, tail_publish>>
           /\ overrun => overrun'
           /\ ~ PopPublish(c) => UNCHANGED <<head_publish, popped>>
           /\ ~ PopClaim(c) => UNCHANGED <<head_reserve, overrun>>
           /\ ~ PopCrash(c) => UNCHANGED cdead
  <1>1. /\ UNCHANGED <<producerVars, dead, tail_reserve, tail_publish, sequence, ring>>
        /\ ~ PopPublish(c) => UNCHANGED <<head_publish, popped>>
        /\ ~ PopClaim(c) => UNCHANGED <<head_reserve, overrun>>
        /\ ~ PopCrash(c) => UNCHANGED cdead
    BY Zenon DEF Pop, PopStep, PopCrash, PopLoadTail, PopLoadHead, PopInspect, PopClaim,
       PopRetry, PopCopy, PopPublish, controlVars
  <1>2. UNCHANGED log
    BY Zenon, <1>1 DEF producerVars
  <1>3. overrun => overrun'
    BY Zenon, <1>1 DEF PopClaim
  <1>4. OthersKeep(c)
    <2>0. \A d \in Consumers \ {c} : d # c
      BY Zenon
    <2>1. CASE PopCrash(c) \/ PopClaim(c) \/ PopLoadTail(c) \/ PopCopy(c)
      <3>1. /\ cpc \in [Consumers -> {"load_tail", "load_head", "inspect", "cas", "copy",
                                      "wait"}]
            /\ ctail \in [Consumers -> Nat] /\ cgot \in [Consumers -> Seq(Records)]
        BY Zenon DEF TypeOK
      <3>2. CASE PopCrash(c)
        BY Zenon, <3>2 DEF PopCrash, OthersKeep, localVars
      <3>3. CASE PopClaim(c)
        BY Zenon, <2>0, <3>1, <3>3 DEF PopClaim, OthersKeep, localVars
      <3>4. CASE PopLoadTail(c)
        BY Zenon, <2>0, <3>1, <3>4 DEF PopLoadTail, OthersKeep
      <3>5. CASE PopCopy(c)
        BY Zenon, <2>0, <3>1, <3>5 DEF PopCopy, OthersKeep
      <3> QED BY Zenon, <2>1, <3>2, <3>3, <3>4, <3>5
    <2>2. CASE Again(c)
      BY Zenon, <2>2, AgainFacts
    <2>3. CASE PopRetry(c) \/ PopPublish(c)
      BY Zenon, <2>2, <2>3 DEF PopRetry, PopPublish
    <2>4. CASE PopLoadHead(c) /\ ~ Again(c)
      <3>1. /\ cpc' = [cpc EXCEPT ![c] = "inspect"]
            /\ chead' = [chead EXCEPT ![c] = head_reserve]
            /\ UNCHANGED <<ctail, cnew, csize, cgot>>
        BY Zenon, <2>4 DEF PopLoadHead
      <3>2. chead \in [Consumers -> Nat] /\ DOMAIN cpc = Consumers
        BY Zenon DEF TypeOK
      <3> QED BY Zenon, <3>1, <3>2 DEF OthersKeep
    <2>5. CASE PopInspect(c) /\ ~ Again(c)
      <3>1. PICK words \in Nat, size \in Seq(Nat) : Decided(c, words, size)
        BY Zenon, <2>5, InspectFacts
      <3> QED BY <3>1 DEF Decided, OthersKeep
    <2> QED BY Zenon, <2>1, <2>2, <2>3, <2>4, <2>5 DEF Pop, PopStep
  <1> QED BY Zenon, <1>1, <1>2, <1>3, <1>4

\* What try_pop copies is a record, all of it inside the ring.
LEMMA CopyFacts ==
    ASSUME TypeOK, Locals, NEW c \in Consumers, PopCopy(c)
    PROVE  \E header \in HeadersAt(Pos(chead[c])) :
             LET record == [type |-> header.type, sequence |-> ring[Pos(chead[c]) + 1],
                            payload |-> [i \in 1..PayloadWords(csize[c][1]) |->
                                            ring[Pos(chead[c]) + HeaderWords + i - 1]]]
             IN  record \in Records /\ cgot' = [cgot EXCEPT ![c] = <<record>>]
  <1> DEFINE at == Pos(chead[c])
             n == PayloadWords(csize[c][1])
             payload == [i \in 1..n |-> ring[at + HeaderWords + i - 1]]
  <1>1. cpc[c] = "copy" /\ csize[c] # <<>>
    BY Zenon DEF PopCopy, Locals, LocalsOf
  <1>2. RecordWords(csize[c][1]) <= Remaining(chead[c])
    BY Zenon, <1>1 DEF Locals, LocalsOf
  <1>3. csize[c] \in Seq(Nat) /\ chead[c] \in Nat
    BY Zenon, ConsumerType
  <1>4. csize[c][1] \in Nat
    BY <1>1, <1>3
  <1>5. /\ n \in Nat /\ n = RecordWords(csize[c][1]) - 2 /\ HeaderWords = 2
        /\ RecordWords(csize[c][1]) \in Nat /\ RecordWords(csize[c][1]) >= 2
    BY Zenon, <1>4, RecordGeometry DEF PayloadWords
  <1>6. at \in Words /\ at \in 0..(Capacity - 1) /\ Remaining(chead[c]) = Capacity - at
    BY Zenon, <1>3, PosRange DEF Remaining, Words
  <1>7. ring \in [Words -> Cells]
    BY Zenon DEF TypeOK, WriterTypeOK
  <1>8. PICK header \in HeadersAt(at) :
          cgot' = [cgot EXCEPT ![c] =
             <<[type |-> header.type, sequence |-> ring[at + 1], payload |-> payload]>>]
    BY Zenon DEF PopCopy
  <1>9. header.type \in Messages \cup {NoMessage}
    BY Zenon, <1>6, HeaderType
  <1> HIDE DEF at, n
  <1>10. at + 1 \in Words /\ \A i \in 1..n : at + HeaderWords + i - 1 \in Words
    BY <1>2, <1>5, <1>6, CapacityType DEF Words
  <1>11. ring[at + 1] \in Cells
    BY Zenon, <1>7, <1>10
  <1>12. payload \in Seq(Cells)
    BY <1>5, <1>7, <1>10
  <1> HIDE DEF payload
  <1>13. [type |-> header.type, sequence |-> ring[at + 1], payload |-> payload] \in Records
    BY Zenon, <1>9, <1>11, <1>12 DEF Records
  <1> QED BY Zenon, <1>8, <1>13 DEF payload, n, at

\* A step of a consumer keeps the types.
LEMMA TypePop ==
    ASSUME TypeOK, Locals, NEW c \in Consumers, Pop(c)
    PROVE  TypeOK'
  <1> DEFINE PC == {"load_tail", "load_head", "inspect", "cas", "copy", "wait"}
             LocalTypes ==
                /\ cpc' \in [Consumers -> PC]
                /\ ctail' \in [Consumers -> Nat] /\ chead' \in [Consumers -> Nat]
                /\ cnew' \in [Consumers -> Nat]
                /\ csize' \in [Consumers -> Seq(Nat)]
                /\ cgot' \in [Consumers -> Seq(Records)]
                /\ \A d \in Consumers : Len(csize'[d]) <= 1 /\ Len(cgot'[d]) <= 1
  <1>0. /\ cpc \in [Consumers -> PC]
        /\ ctail \in [Consumers -> Nat] /\ chead \in [Consumers -> Nat]
        /\ cnew \in [Consumers -> Nat]
        /\ csize \in [Consumers -> Seq(Nat)]
        /\ cgot \in [Consumers -> Seq(Records)]
        /\ \A d \in Consumers : Len(csize[d]) <= 1 /\ Len(cgot[d]) <= 1
    BY Zenon DEF TypeOK
  <1>1. tail_publish \in Nat /\ head_reserve \in Nat /\ cnew[c] \in Nat
    BY Zenon, ConsumerType
  <1>2. LocalTypes
    <2>1. CASE Again(c)
      BY Zenon, <2>1, AgainFacts
    <2>2. CASE PopRetry(c) \/ PopPublish(c)
      BY Zenon, <2>1, <2>2 DEF PopRetry, PopPublish
    <2>3. CASE PopCrash(c)
      BY Zenon, <1>0, <2>3 DEF PopCrash, localVars
    <2>4. CASE PopLoadTail(c)
      <3>1. UNCHANGED <<chead, cnew, csize, cgot>>
        BY Zenon, <2>4 DEF PopLoadTail
      <3>2. cpc' \in [Consumers -> PC] /\ ctail' \in [Consumers -> Nat]
        BY Zenon, <1>0, <1>1, <2>4 DEF PopLoadTail
      <3> QED BY Zenon, <1>0, <3>1, <3>2
    <2>5. CASE PopLoadHead(c) /\ ~ Again(c)
      <3>1. UNCHANGED <<ctail, cnew, csize, cgot>>
        BY Zenon, <2>5 DEF PopLoadHead
      <3>2. cpc' \in [Consumers -> PC] /\ chead' \in [Consumers -> Nat]
        BY ZenonT(30), <1>0, <1>1, <2>5 DEF PopLoadHead
      <3> QED BY Zenon, <1>0, <3>1, <3>2
    <2>6. CASE PopInspect(c) /\ ~ Again(c)
      <3>1. PICK words \in Nat, size \in Seq(Nat) : Len(size) <= 1 /\ Decided(c, words, size)
        BY Zenon, <2>6, InspectFacts
      <3>2. UNCHANGED <<ctail, chead, cgot>>
        BY Zenon, <3>1 DEF Decided
      <3>3. chead[c] + words \in Nat
        BY <1>0
      <3>4. cpc' \in [Consumers -> PC] /\ cnew' \in [Consumers -> Nat]
        BY Zenon, <1>0, <3>1, <3>3 DEF Decided
      <3>5. /\ csize' \in [Consumers -> Seq(Nat)]
            /\ \A d \in Consumers : csize'[d] = IF d = c THEN size ELSE csize[d]
        BY Zenon, <1>0, <3>1 DEF Decided
      <3>6. \A d \in Consumers : Len(csize'[d]) <= 1
        BY Zenon, <1>0, <3>1, <3>5
      <3> QED BY Zenon, <1>0, <3>2, <3>4, <3>5, <3>6
    <2>7. CASE PopClaim(c)
      <3>1. UNCHANGED <<ctail, chead, cnew, csize, cgot>>
        BY Zenon, <2>7 DEF PopClaim, localVars
      <3>2. cpc' \in [Consumers -> PC]
        BY Zenon, <1>0, <2>7 DEF PopClaim
      <3> QED BY Zenon, <1>0, <3>1, <3>2
    <2>8. CASE PopCopy(c)
      <3>1. UNCHANGED <<ctail, chead, cnew, csize>>
        BY Zenon, <2>8 DEF PopCopy
      <3>2. cpc' \in [Consumers -> PC]
        BY Zenon, <1>0, <2>8 DEF PopCopy
      <3>3. PICK record \in Records : cgot' = [cgot EXCEPT ![c] = <<record>>]
        BY Zenon, <2>8, CopyFacts
      <3>4. <<record>> \in Seq(Records) /\ Len(<<record>>) <= 1
        OBVIOUS
      <3>5. /\ cgot' \in [Consumers -> Seq(Records)]
            /\ \A d \in Consumers : cgot'[d] = IF d = c THEN <<record>> ELSE cgot[d]
        BY Zenon, <1>0, <3>3, <3>4
      <3>6. \A d \in Consumers : Len(cgot'[d]) <= 1
        BY Zenon, <1>0, <3>4, <3>5
      <3> QED BY Zenon, <1>0, <3>1, <3>2, <3>5, <3>6
    <2> QED BY Zenon, <2>1, <2>2, <2>3, <2>4, <2>5, <2>6, <2>7, <2>8 DEF Pop, PopStep
  <1>3. head_publish' \in Nat /\ head_reserve' \in Nat
    <2>1. UNCHANGED head_publish \/ head_publish' = cnew[c]
      BY Zenon, PopFacts DEF PopPublish
    <2>2. UNCHANGED head_reserve \/ head_reserve' = cnew[c]
      BY Zenon, PopFacts DEF PopClaim
    <2> QED BY Zenon, <1>1, <2>1, <2>2, ConsumerType
  <1>4. WriterTypeOK'
    BY Zenon, <1>3, PopFacts DEF TypeOK, WriterTypeOK, producerVars
  <1>5. popped' \in Seq(Records)
    <2>1. UNCHANGED popped \/ popped' = popped \o cgot[c]
      BY Zenon, PopFacts DEF PopPublish
    <2>2. popped \in Seq(Records) /\ cgot[c] \in Seq(Records)
      BY Zenon, ConsumerType DEF TypeOK
    <2> DEFINE R == Records
    <2> HIDE DEF R
    <2>3. popped \in Seq(R) /\ cgot[c] \in Seq(R)
      BY Zenon, <2>2 DEF R
    <2>4. popped \o cgot[c] \in Seq(R)
      BY <2>3
    <2> QED BY Zenon, <2>1, <2>2, <2>4 DEF R
  <1>6. cdead' \subseteq MortalConsumers
    BY Zenon, PopFacts DEF PopCrash, TypeOK
  <1>7. overrun' \in BOOLEAN
    <2>1. overrun \in BOOLEAN
      BY Zenon DEF TypeOK
    <2> QED BY Zenon, <2>1, PopFacts DEF PopClaim
  <1> QED BY Zenon, <1>2, <1>4, <1>5, <1>6, <1>7 DEF TypeOK

-------------------------------------------------------------------------------
(* The locals of the calls. *)

\* head_reserve only grows.
LEMMA ReserveGrows ==
    ASSUME TypeOK, Locals, NEW c \in Consumers, Pop(c)
    PROVE  /\ head_reserve' \in Nat /\ head_reserve <= head_reserve'
           /\ PopClaim(c) => head_reserve < head_reserve'
  <1>1. PopClaim(c) => head_reserve = chead[c] /\ head_reserve' = cnew[c] /\ chead[c] < cnew[c]
    BY Zenon DEF PopClaim, Locals, LocalsOf
  <1>2. ~ PopClaim(c) => head_reserve' = head_reserve
    BY Zenon, PopFacts
  <1>3. head_reserve \in Nat /\ cnew[c] \in Nat
    BY Zenon, ConsumerType
  <1> QED BY <1>1, <1>2, <1>3

\* A step of a consumer keeps the locals of all.
LEMMA LocalsPop ==
    ASSUME TypeOK, Locals, NEW c \in Consumers, Pop(c)
    PROVE  Locals'
  <1>0. /\ head_reserve \in Nat /\ head_reserve' \in Nat /\ head_reserve <= head_reserve'
        /\ UNCHANGED tail_publish
    BY Zenon, ReserveGrows, PopFacts, ConsumerType
  <1>1. ASSUME NEW d \in Consumers, d # c PROVE LocalsOf(d)'
    <2>1. /\ cpc'[d] = cpc[d] /\ ctail'[d] = ctail[d] /\ chead'[d] = chead[d]
          /\ cnew'[d] = cnew[d] /\ csize'[d] = csize[d] /\ cgot'[d] = cgot[d]
      BY Zenon, <1>1, PopFacts DEF OthersKeep
    <2>2. chead[d] <= head_reserve => chead[d] <= head_reserve'
      BY <1>0, ConsumerType
    <2> QED BY Zenon, <1>0, <2>1, <2>2 DEF Locals, LocalsOf
  <1>2. LocalsOf(c)'
    <2>0. /\ DOMAIN cpc = Consumers /\ DOMAIN ctail = Consumers /\ DOMAIN chead = Consumers
          /\ DOMAIN cnew = Consumers /\ DOMAIN csize = Consumers /\ DOMAIN cgot = Consumers
      BY Zenon DEF TypeOK
    <2>1. CASE Again(c)
      <3>1. cpc'[c] = "load_tail" /\ cgot'[c] = <<>>
        BY Zenon, <2>1, AgainFacts
      <3> QED BY Zenon, <3>1 DEF LocalsOf
    <2>2. CASE PopRetry(c) \/ PopPublish(c)
      BY Zenon, <2>1, <2>2 DEF PopRetry, PopPublish
    <2>3. CASE PopCrash(c)
      BY Zenon, <1>0, <2>3 DEF PopCrash, localVars, controlVars, Locals, LocalsOf
    <2>4. CASE PopLoadTail(c)
      <3>1. /\ cpc'[c] = "load_head" /\ ctail'[c] = tail_publish /\ cgot'[c] = cgot[c]
            /\ cpc[c] = "load_tail"
        BY Zenon, <2>0, <2>4 DEF PopLoadTail
      <3>2. tail_publish <= tail_publish
        BY ConsumerType
      <3>3. cgot[c] = <<>>
        BY Zenon, <3>1 DEF Locals, LocalsOf
      <3> QED BY Zenon, <1>0, <3>1, <3>2, <3>3 DEF LocalsOf
    <2>5. CASE PopLoadHead(c) /\ ~ Again(c)
      <3>1. /\ cpc'[c] = "inspect" /\ chead'[c] = head_reserve /\ ctail'[c] = ctail[c]
            /\ cgot'[c] = cgot[c] /\ cpc[c] = "load_head" /\ head_reserve' = head_reserve
        BY Zenon, <2>0, <2>5 DEF PopLoadHead, controlVars
      <3>2. cgot[c] = <<>> /\ ctail[c] <= tail_publish
        BY Zenon, <3>1 DEF Locals, LocalsOf
      <3> QED BY Zenon, <1>0, <3>1, <3>2 DEF LocalsOf
    <2>6. CASE PopInspect(c) /\ ~ Again(c)
      <3>1. PICK words \in Nat, size \in Seq(Nat) :
              words > 0 /\ Decided(c, words, size) /\ Inspected(c, words, size)
        BY Zenon, <2>6, InspectFacts
      <3>2. /\ cpc'[c] = "cas" /\ cnew'[c] = chead[c] + words /\ csize'[c] = size
            /\ ctail'[c] = ctail[c] /\ chead'[c] = chead[c] /\ cgot'[c] = cgot[c]
        BY Zenon, <2>0, <3>1 DEF Decided
      <3>3. cpc[c] = "inspect" /\ head_reserve' = head_reserve
        BY Zenon, <2>6 DEF PopInspect, controlVars
      <3>4. cgot[c] = <<>> /\ ctail[c] <= tail_publish /\ chead[c] <= head_reserve
        BY Zenon, <3>3 DEF Locals, LocalsOf
      <3>5. chead[c] < chead[c] + words
        BY <3>1, ConsumerType
      <3>6. size # <<>> => RecordWords(size[1]) <= Remaining(chead[c])
        <4>1. SUFFICES ASSUME size # <<>> PROVE RecordWords(size[1]) <= Remaining(chead[c])
          BY Zenon
        <4>2. PICK header \in HeadersAt(Pos(chead[c])) :
                /\ size = <<header.size>>
                /\ words = RecordWords(header.size)
                /\ ~ (words > Remaining(chead[c]))
          BY Zenon, <3>1, <4>1 DEF Inspected
        <4>3. size[1] = header.size
          BY Zenon, <4>2
        <4>4. Remaining(chead[c]) \in Nat
          <5>1. chead[c] \in Nat
            BY Zenon, ConsumerType
          <5>2. Remaining(chead[c]) \in 1..Capacity
            BY Zenon, <5>1, PosRange
          <5> QED BY <5>2, CapacityType
        <4>5. words <= Remaining(chead[c])
          BY <4>2, <4>4
        <4> QED BY Zenon, <4>2, <4>3, <4>5
      <3> QED BY Zenon, <1>0, <3>2, <3>3, <3>4, <3>5, <3>6 DEF LocalsOf
    <2>7. CASE PopClaim(c)
      <3>1. /\ cpc[c] = "cas" /\ csize'[c] = csize[c] /\ chead'[c] = chead[c]
            /\ cnew'[c] = cnew[c] /\ cgot'[c] = cgot[c]
            /\ cpc'[c] = IF csize[c] = <<>> THEN "wait" ELSE "copy"
        BY Zenon, <2>0, <2>7 DEF PopClaim, localVars
      <3>2. /\ cgot[c] = <<>> /\ chead[c] < cnew[c]
            /\ csize[c] # <<>> => RecordWords(csize[c][1]) <= Remaining(chead[c])
        BY Zenon, <3>1 DEF Locals, LocalsOf
      <3> QED BY Zenon, <3>1, <3>2 DEF LocalsOf
    <2>8. CASE PopCopy(c)
      <3>1. /\ cpc[c] = "copy" /\ csize'[c] = csize[c] /\ chead'[c] = chead[c]
            /\ cnew'[c] = cnew[c] /\ cpc'[c] = "wait"
        BY Zenon, <2>0, <2>8 DEF PopCopy
      <3>2. /\ chead[c] < cnew[c]
            /\ csize[c] # <<>> => RecordWords(csize[c][1]) <= Remaining(chead[c])
        BY Zenon, <3>1 DEF Locals, LocalsOf
      <3> QED BY Zenon, <3>1, <3>2 DEF LocalsOf
    <2> QED BY Zenon, <2>1, <2>2, <2>3, <2>4, <2>5, <2>6, <2>7, <2>8 DEF Pop, PopStep
  <1> QED BY Zenon, <1>1, <1>2 DEF Locals

\* Whatever the head cursors, a producer only moves tail_publish forward.
LEMMA TailGrows ==
    ASSUME WriterTypeOK, Reservations, NEW p \in Producers, Push(p)
    PROVE  tail_publish' \in Nat /\ tail_publish <= tail_publish'
  <1>1. tail_publish \in Nat /\ Start(p) \in Nat /\ PublishTo(p) \in Nat
    BY Zenon, CursorType, CallType
  <1>2. CASE PushPublish(p)
    <2>1. ppc[p] = "publish" /\ tail_publish' = PublishTo(p) /\ ppc[p] \in Holding
      BY Zenon, <1>2 DEF PushPublish, Holding
    <2>2. tail_publish = Start(p)
      BY Zenon, <2>1 DEF Reservations
    <2>3. Start(p) <= PublishTo(p)
      BY CallType
    <2> QED BY Zenon, <1>1, <2>1, <2>2, <2>3
  <1>3. CASE ~ PushPublish(p)
    <2>1. tail_publish' = tail_publish
      BY Zenon, <1>3, LogChanges
    <2> QED BY <1>1, <2>1
  <1> QED BY Zenon, <1>2, <1>3

\* A step of a producer keeps the consumers' locals.
LEMMA LocalsPush ==
    ASSUME TypeOK, Locals, Reservations, NEW p \in Producers, Push(p),
           UNCHANGED consumerVars
    PROVE  Locals'
  <1>1. /\ tail_publish \in Nat /\ tail_publish' \in Nat /\ tail_publish <= tail_publish'
        /\ \A c \in Consumers : ctail[c] \in Nat
    BY Zenon, TailGrows, ConsumerType
  <1>2. \A c \in Consumers : ctail[c] <= tail_publish => ctail[c] <= tail_publish'
    BY <1>1
  <1>3. UNCHANGED <<head_reserve, cpc, ctail, chead, cnew, csize, cgot>>
    BY Zenon, LogChanges DEF consumerVars, localVars
  <1> QED BY Zenon, <1>2, <1>3 DEF Locals, LocalsOf

-------------------------------------------------------------------------------
(* The claims tile. *)

\* A successful CAS: the claim follows all others.
LEMMA TileClaim ==
    ASSUME TypeOK, Locals, ClaimsTile, NEW c \in Consumers, Pop(c), PopClaim(c)
    PROVE  ClaimsTile'
  <1>1. /\ head_reserve = chead[c] /\ head_reserve' = cnew[c] /\ chead[c] < cnew[c]
        /\ c \notin Claiming /\ cpc'[c] \in {"copy", "wait"}
        /\ UNCHANGED <<chead, cnew, head_publish>>
    <2>1. DOMAIN cpc = Consumers
      BY Zenon DEF TypeOK
    <2>2. chead[c] < cnew[c]
      BY Zenon DEF PopClaim, Locals, LocalsOf
    <2> QED BY Zenon, <2>1, <2>2 DEF PopClaim, Claiming, localVars
  <1>2. \A d \in Consumers \ {c} : cpc'[d] = cpc[d]
    BY Zenon, PopFacts DEF OthersKeep
  <1>3. Claiming' = Claiming \cup {c}
    BY Zenon, <1>1, <1>2 DEF Claiming
  <1>4. /\ head_publish \in Nat /\ head_reserve \in Nat
        /\ \A d \in Claiming : d \in Consumers /\ chead[d] \in Nat /\ cnew[d] \in Nat
        /\ chead[c] \in Nat /\ cnew[c] \in Nat
    BY Zenon, ConsumerType DEF Claiming
  <1>5. /\ head_publish <= head_reserve
        /\ \A d \in Claiming : head_publish <= chead[d] /\ cnew[d] <= head_reserve
        /\ \A d, e \in Claiming : d # e => cnew[d] <= chead[e] \/ cnew[e] <= chead[d]
        /\ \A at \in head_publish..(head_reserve - 1) :
             \E d \in Claiming : chead[d] <= at /\ at < cnew[d]
    BY Zenon DEF ClaimsTile
  <1>6. head_publish <= head_reserve'
    BY <1>1, <1>4, <1>5
  <1>7. ASSUME NEW d \in Claiming \cup {c}
        PROVE  head_publish <= chead[d] /\ cnew[d] <= head_reserve'
    BY <1>1, <1>4, <1>5
  <1>8. ASSUME NEW d \in Claiming \cup {c}, NEW e \in Claiming \cup {c}, d # e
        PROVE  cnew[d] <= chead[e] \/ cnew[e] <= chead[d]
    <2>1. CASE d \in Claiming /\ e \in Claiming
      BY Zenon, <1>5, <1>8, <2>1
    <2>2. CASE d = c
      <3>1. e \in Claiming
        BY Zenon, <1>8, <2>2
      <3> QED BY Zenon, <1>1, <1>5, <2>2, <3>1
    <2>3. CASE e = c
      <3>1. d \in Claiming
        BY Zenon, <1>8, <2>3
      <3> QED BY Zenon, <1>1, <1>5, <2>3, <3>1
    <2> QED BY Zenon, <2>1, <2>2, <2>3
  <1>9. ASSUME NEW at \in head_publish..(head_reserve' - 1)
        PROVE  \E d \in Claiming \cup {c} : chead[d] <= at /\ at < cnew[d]
    <2>1. at \in head_publish..(head_reserve - 1) \/ (chead[c] <= at /\ at < cnew[c])
      BY <1>1, <1>4
    <2> QED BY Zenon, <1>5, <2>1
  <1> QED BY Zenon, <1>1, <1>3, <1>6, <1>7, <1>8, <1>9 DEF ClaimsTile

\* A consumer that has its turn gives back what lies first.
LEMMA TilePublish ==
    ASSUME TypeOK, Locals, ClaimsTile, NEW c \in Consumers, Pop(c), PopPublish(c)
    PROVE  ClaimsTile'
  <1>1. /\ head_publish = chead[c] /\ head_publish' = cnew[c]
        /\ c \in Claiming /\ cpc'[c] = "load_tail" /\ UNCHANGED head_reserve
    <2>1. cpc[c] = "wait"
      BY Zenon DEF PopPublish
    <2>2. cpc'[c] = "load_tail"
      BY Zenon, AgainFacts DEF PopPublish
    <2> QED BY Zenon, <2>1, <2>2 DEF PopPublish, Claiming
  <1>2. \A d \in Consumers \ {c} : cpc'[d] = cpc[d] /\ chead'[d] = chead[d] /\ cnew'[d] = cnew[d]
    BY Zenon, PopFacts DEF OthersKeep
  <1>3. Claiming' = Claiming \ {c}
    BY Zenon, <1>1, <1>2 DEF Claiming
  <1>4. /\ head_publish \in Nat /\ head_reserve \in Nat
        /\ \A d \in Claiming : d \in Consumers /\ chead[d] \in Nat /\ cnew[d] \in Nat
                               /\ chead[d] < cnew[d]
    <2>1. \A d \in Claiming : d \in Consumers /\ cpc[d] \in {"cas", "copy", "wait"}
      BY Zenon DEF Claiming
    <2>2. \A d \in Claiming : chead[d] < cnew[d]
      BY Zenon, <2>1 DEF Locals, LocalsOf
    <2> QED BY Zenon, <2>1, <2>2, ConsumerType
  <1>5. /\ head_publish <= head_reserve
        /\ \A d \in Claiming : head_publish <= chead[d] /\ cnew[d] <= head_reserve
        /\ \A d, e \in Claiming : d # e => cnew[d] <= chead[e] \/ cnew[e] <= chead[d]
        /\ \A at \in head_publish..(head_reserve - 1) :
             \E d \in Claiming : chead[d] <= at /\ at < cnew[d]
    BY Zenon DEF ClaimsTile
  <1>6. \A d \in Claiming \ {c} : d \in Claiming /\ d \in Consumers \ {c} /\ d # c
    BY Zenon, <1>4
  <1>7. head_publish' <= head_reserve'
    BY Zenon, <1>1, <1>5
  <1>8. ASSUME NEW d \in Claiming \ {c}
        PROVE  cnew[c] <= chead[d] /\ cnew[d] <= head_reserve
    <2>1. cnew[c] <= chead[d] \/ cnew[d] <= chead[c]
      BY Zenon, <1>1, <1>5, <1>6
    <2>2. /\ head_publish <= chead[d] /\ chead[d] < cnew[d] /\ cnew[d] <= head_reserve
          /\ chead[d] \in Nat /\ cnew[d] \in Nat /\ cnew[c] \in Nat
      BY Zenon, <1>1, <1>4, <1>5, <1>6
    <2> QED BY <1>1, <1>4, <2>1, <2>2
  <1>9. ASSUME NEW at \in head_publish'..(head_reserve - 1)
        PROVE  \E d \in Claiming \ {c} : chead[d] <= at /\ at < cnew[d]
    <2>1. cnew[c] \in Nat /\ chead[c] \in Nat /\ chead[c] < cnew[c]
      BY Zenon, <1>1, <1>4
    <2>2. at \in head_publish..(head_reserve - 1) /\ ~ (at < cnew[c])
      BY <1>1, <1>4, <2>1
    <2>3. PICK d \in Claiming : chead[d] <= at /\ at < cnew[d]
      BY Zenon, <1>5, <2>2
    <2>4. d # c
      BY Zenon, <2>2, <2>3
    <2> QED BY Zenon, <2>3, <2>4
  <1> QED BY Zenon, <1>1, <1>2, <1>3, <1>5, <1>6, <1>7, <1>8, <1>9 DEF ClaimsTile

\* Every other step leaves the claims alone.
LEMMA TilePop ==
    ASSUME TypeOK, Locals, ClaimsTile, NEW c \in Consumers, Pop(c)
    PROVE  ClaimsTile'
  <1>1. CASE PopClaim(c)
    BY Zenon, <1>1, TileClaim
  <1>2. CASE PopPublish(c)
    BY Zenon, <1>2, TilePublish
  <1>3. CASE ~ PopClaim(c) /\ ~ PopPublish(c)
    <2>1. UNCHANGED <<head_publish, head_reserve>>
      BY Zenon, <1>3, PopFacts
    <2>2. c \in Claiming' <=> c \in Claiming
      <3>0. DOMAIN cpc = Consumers
        BY Zenon DEF TypeOK
      <3>1. CASE Again(c) /\ cpc[c] \notin {"copy", "wait"}
        <4>1. cpc'[c] = "load_tail"
          BY Zenon, <3>1, AgainFacts
        <4> QED BY Zenon, <3>1, <4>1 DEF Claiming
      <3>2. CASE PopCrash(c)
        BY Zenon, <3>2 DEF PopCrash, Claiming
      <3>3. CASE PopLoadTail(c) \/ PopCopy(c)
        BY Zenon, <3>0, <3>3 DEF PopLoadTail, PopCopy, Claiming
      <3>4. CASE PopLoadHead(c)
        <4>1. cpc[c] = "load_head"
          BY Zenon, <3>4 DEF PopLoadHead
        <4>2. CASE ~ Again(c)
          <5>1. cpc' = [cpc EXCEPT ![c] = "inspect"]
            BY Zenon, <3>4, <4>2 DEF PopLoadHead
          <5> QED BY Zenon, <3>0, <4>1, <5>1 DEF Claiming
        <4> QED BY Zenon, <3>1, <4>1, <4>2
      <3>5. CASE PopInspect(c)
        <4>1. cpc[c] = "inspect"
          BY Zenon, <3>5 DEF PopInspect
        <4>2. CASE ~ Again(c)
          <5>1. cpc' = [cpc EXCEPT ![c] = "cas"]
            BY Zenon, <3>5, <4>2, InspectFacts DEF Decided
          <5> QED BY Zenon, <3>0, <4>1, <5>1 DEF Claiming
        <4> QED BY Zenon, <3>1, <4>1, <4>2
      <3>6. CASE PopRetry(c)
        BY Zenon, <3>1, <3>6 DEF PopRetry
      <3> QED BY Zenon, <1>3, <3>2, <3>3, <3>4, <3>5, <3>6 DEF Pop, PopStep
    <2>3. \A d \in Consumers \ {c} :
            cpc'[d] = cpc[d] /\ chead'[d] = chead[d] /\ cnew'[d] = cnew[d]
      BY Zenon, PopFacts DEF OthersKeep
    <2>4. Claiming' = Claiming
      BY Zenon, <2>2, <2>3 DEF Claiming
    <2>5. \A d \in Claiming : chead'[d] = chead[d] /\ cnew'[d] = cnew[d]
      <3>1. CASE c \in Claiming
        <4>1. PopCrash(c) \/ PopCopy(c)
          BY Zenon, <1>3, <3>1 DEF Claiming, Pop, PopStep, PopLoadTail, PopLoadHead, PopInspect,
             PopRetry
        <4>2. UNCHANGED <<chead, cnew>>
          BY Zenon, <4>1 DEF PopCrash, PopCopy, localVars
        <4> QED BY Zenon, <4>2
      <3>2. CASE c \notin Claiming
        BY Zenon, <2>3, <3>2 DEF Claiming
      <3> QED BY Zenon, <3>1, <3>2
    <2> QED BY Zenon, <2>1, <2>4, <2>5 DEF ClaimsTile
  <1> QED BY Zenon, <1>1, <1>2, <1>3

\* So does every step of a producer.
LEMMA TilePush ==
    ASSUME ClaimsTile, NEW p \in Producers, Push(p), UNCHANGED consumerVars
    PROVE  ClaimsTile'
  <1>1. UNCHANGED <<head_publish, head_reserve, cpc, chead, cnew>>
    BY Zenon, LogChanges DEF consumerVars, localVars
  <1> QED BY Zenon, <1>1 DEF ClaimsTile, Claiming

-------------------------------------------------------------------------------
(* As long as no claim overran: what the consumers hold is what was published. *)

\* The published records stay what they are.
LEMMA RecordsStay ==
    ASSUME WriterTypeOK, WriterInv, NEW p \in Producers, Push(p)
    PROVE  /\ Len(log') \in Nat /\ Len(log) <= Len(log')
           /\ \A i \in 1..Len(log) : i \in 1..Len(log') /\ log'[i] = log[i]
  <1>1. Len(log) \in Nat
    BY Zenon, CursorType
  <1>2. CASE PushPublish(p)
    <2>1. Len(log') = Len(log) + 1 /\ \A i \in 1..Len(log) : log'[i] = log[i]
      BY Zenon, <1>2, PublishFacts DEF WriterInv
    <2>2. \A n \in Nat : n + 1 \in Nat /\ n <= n + 1 /\ \A i \in 1..n : i \in 1..(n + 1)
      OBVIOUS
    <2> QED BY Zenon, <1>1, <2>1, <2>2
  <1>3. CASE ~ PushPublish(p)
    <2>1. log' = log
      BY Zenon, <1>3, LogChanges
    <2>2. Len(log) <= Len(log)
      BY <1>1
    <2> QED BY Zenon, <1>1, <2>1, <2>2
  <1> QED BY Zenon, <1>2, <1>3

\* A step of a producer changes nothing the consumers hold.
LEMMA DeliveringPush ==
    ASSUME TypeOK, ClaimsTile, Delivering, NEW p \in Producers, Push(p),
           UNCHANGED consumerVars
    PROVE  Delivering'
  <1>0. WriterTypeOK /\ WriterInv /\ head_publish <= tail_publish
    BY Zenon, ConsumerType DEF Delivering, WriterInv
  <1>1. /\ Len(log') \in Nat /\ Len(log) <= Len(log')
        /\ \A i \in 1..Len(log) : i \in 1..Len(log') /\ log'[i] = log[i]
    BY Zenon, <1>0, RecordsStay
  <1>2. /\ UNCHANGED <<head_publish, head_reserve>>
        /\ UNCHANGED <<cpc, ctail, chead, cnew, csize, cgot, popped>>
    BY Zenon, LogChanges DEF consumerVars, localVars
  <1>3. WriterInv'
    BY Zenon, <1>0, WriterInvPush
  <1>4. \A i \in 1..Len(log) : Base(log[i])' = Base(log[i]) /\ End(log[i])' = End(log[i])
    BY Zenon, <1>1 DEF Base, End
  <1>5. HeadIsABoundary'
    <2>1. /\ head_reserve <= tail_publish
          /\ \/ head_reserve = tail_publish
             \/ \E i \in 1..Len(log) : head_reserve \in {log[i].at, Base(log[i])}
      BY Zenon DEF Delivering, HeadIsABoundary
    <2>2. head_reserve' <= tail_publish'
      <3>1. tail_publish' \in Nat /\ tail_publish <= tail_publish'
        BY Zenon, <1>0, TailGrows DEF WriterInv
      <3> QED BY <1>2, <2>1, <3>1, ConsumerType
    <2>3. CASE \E i \in 1..Len(log) : head_reserve \in {log[i].at, Base(log[i])}
      <3>1. \E i \in 1..Len(log') : head_reserve' \in {log'[i].at, Base(log[i])'}
        BY Zenon, <1>1, <1>2, <1>4, <2>3
      <3> QED BY Zenon, <2>2, <3>1 DEF HeadIsABoundary
    <2>4. CASE head_reserve = tail_publish /\ PushPublish(p)
      <3>1. /\ Len(log') = Len(log) + 1 /\ log'[Len(log) + 1].at = tail_publish
        BY Zenon, <1>0, <2>4, PublishFacts DEF WriterInv
      <3>2. Len(log) + 1 \in 1..Len(log')
        BY <3>1, ConsumerType
      <3>3. \E i \in 1..Len(log') : head_reserve' = log'[i].at
        BY Zenon, <1>2, <2>4, <3>1, <3>2
      <3>4. \E i \in 1..Len(log') : head_reserve' \in {log'[i].at, Base(log[i])'}
        BY Zenon, <3>3
      <3> QED BY Zenon, <2>2, <3>4 DEF HeadIsABoundary
    <2>5. CASE head_reserve = tail_publish /\ ~ PushPublish(p)
      BY Zenon, <1>2, <2>2, <2>5, LogChanges DEF HeadIsABoundary
    <2> QED BY Zenon, <2>1, <2>3, <2>4, <2>5
  <1>6. ASSUME NEW c \in Consumers PROVE ConsumerOf(c)'
    <2>1. ConsumerOf(c)
      BY Zenon DEF Delivering
    <2>2. \A i \in 1..Len(log) : Claims(c, i) => Claims(c, i)'
      BY Zenon, <1>1, <1>2, <1>4 DEF Claims
    <2>3. \A i \in 1..Len(log) : Intact(cgot[c][1], i) => Intact(cgot[c][1], i)'
      BY Zenon, <1>1, <1>2 DEF Intact
    <2>4. c \in Claiming' <=> c \in Claiming
      BY Zenon, <1>2 DEF Claiming
    <2>5. ASSUME cpc'[c] = "cas", chead'[c] = head_reserve', cnew'[c] <= ctail'[c]
          PROVE  \E i \in 1..Len(log') : Claims(c, i)'
      <3>1. PICK i \in 1..Len(log) : Claims(c, i)
        BY Zenon, <1>2, <2>1, <2>5 DEF ConsumerOf
      <3> QED BY Zenon, <1>1, <2>2, <3>1
    <2>6. ASSUME c \in Claiming'
          PROVE  \E i \in 1..Len(log') :
                    /\ Claims(c, i)'
                    /\ cpc'[c] = "wait" =>
                        IF csize'[c] = <<>> THEN cgot'[c] = <<>>
                        ELSE Len(cgot'[c]) = 1 /\ Intact(cgot[c][1], i)'
      <3>1. PICK i \in 1..Len(log) :
              /\ Claims(c, i)
              /\ cpc[c] = "wait" =>
                  IF csize[c] = <<>> THEN cgot[c] = <<>>
                  ELSE Len(cgot[c]) = 1 /\ Intact(cgot[c][1], i)
        BY Zenon, <2>1, <2>4, <2>6 DEF ConsumerOf
      <3> QED BY Zenon, <1>1, <1>2, <2>2, <2>3, <3>1
    <2> QED BY Zenon, <2>5, <2>6 DEF ConsumerOf
  <1>7. Given'
    <2>1. /\ Len(popped) <= Len(log)
          /\ \A i \in 1..Len(log) : i <= Len(popped) <=> End(log[i]) <= head_publish
          /\ \A i \in 1..Len(popped) : Intact(popped[i], i)
      BY Zenon DEF Delivering, Given
    <2>2. Len(popped') <= Len(log')
      BY <1>1, <1>2, <2>1, ConsumerType
    <2>3. \A i \in 1..Len(popped) : i \in 1..Len(log)
      BY <2>1, ConsumerType
    <2>4. \A i \in 1..Len(popped') : Intact(popped[i], i)'
      BY Zenon, <1>1, <1>2, <2>1, <2>3 DEF Intact
    <2>5. ASSUME NEW i \in 1..Len(log')
          PROVE  i <= Len(popped') <=> End(log[i])' <= head_publish'
      <3>1. CASE i \in 1..Len(log)
        BY Zenon, <1>2, <1>4, <2>1, <3>1
      <3>2. CASE i \notin 1..Len(log)
        <4>1. PushPublish(p)
          BY Zenon, <3>2, LogChanges
        <4>2. /\ Len(log') = Len(log) + 1 /\ log'[Len(log) + 1] = Published(p)
              /\ End(Published(p)) = PublishTo(p) /\ PublishTo(p) >= tail_publish + 2
          BY Zenon, <1>0, <4>1, PublishFacts DEF WriterInv
        <4>3. i = Len(log) + 1
          BY <3>2, <4>2, ConsumerType
        <4>4. End(log[i])' = End(Published(p))
          BY Zenon, <4>2, <4>3 DEF End, Base
        <4>5. PublishTo(p) \in Nat
          BY Zenon, <1>0, CallType
        <4>6. ~ (PublishTo(p) <= head_publish)
          BY <1>0, <4>2, <4>5, ConsumerType
        <4>7. ~ (i <= Len(popped))
          BY <2>1, <4>3, ConsumerType
        <4> QED BY Zenon, <1>2, <4>2, <4>4, <4>6, <4>7
      <3> QED BY Zenon, <3>1, <3>2
    <2> QED BY Zenon, <2>2, <2>4, <2>5 DEF Given
  <1> QED BY Zenon, <1>3, <1>5, <1>6, <1>7 DEF Delivering

\* What a consumer decides to claim at the head is a record or its padding.
LEMMA InspectRecord ==
    ASSUME TypeOK, ClaimsTile, Locals, Delivering, NEW c \in Consumers,
           cpc[c] = "inspect", chead[c] = head_reserve,
           NEW words \in Nat, NEW size \in Seq(Nat), words > 0,
           chead[c] + words <= ctail[c], Inspected(c, words, size)
    PROVE  \E i \in 1..Len(log) :
             \/ size = <<>> /\ chead[c] = log[i].at /\ chead[c] + words = Base(log[i])
             \/ /\ size # <<>> /\ chead[c] = Base(log[i])
                /\ size = <<log[i].size>> /\ chead[c] + words = End(log[i])
  <1>1. WriterTypeOK /\ Layout /\ Unread /\ head_publish <= head_reserve
    BY Zenon, ConsumerType DEF Delivering, WriterInv, ClaimsTile
  <1>2. chead[c] < tail_publish
    <2>1. ctail[c] <= tail_publish
      BY Zenon DEF Locals, LocalsOf
    <2> QED BY <2>1, ConsumerType
  <1>3. PICK i \in 1..Len(log) : head_reserve \in {log[i].at, Base(log[i])}
    <2>1. head_reserve # tail_publish
      BY <1>2, ConsumerType
    <2> QED BY Zenon, <2>1 DEF Delivering, HeadIsABoundary
  <1>4. /\ log[i].at \in Nat /\ log[i].pad \in Nat
        /\ Base(log[i]) = log[i].at + log[i].pad
        /\ RecordWords(log[i].size) \in 2..Capacity
        /\ End(log[i]) = Base(log[i]) + RecordWords(log[i].size)
    BY Zenon, <1>1, RecordType
  <1>5. HeaderWords = 2
    BY Zenon, RecordGeometry
  <1>6. CASE chead[c] = Base(log[i])
    <2>1. /\ Remaining(chead[c]) \in Nat
          /\ Remaining(chead[c]) >= RecordWords(log[i].size)
          /\ ring[Pos(chead[c])] = HeaderCell(log[i].size, log[i].msg, FALSE)
      <3>1. head_publish <= Base(log[i])
        BY Zenon, <1>1, <1>6
      <3> QED BY Zenon, <1>1, <1>6, <3>1, RecordFound
    <2>2. ~ (Remaining(chead[c]) < HeaderWords)
      BY <1>4, <1>5, <2>1
    <2>3. \A header \in HeadersAt(Pos(chead[c])) : header.wrap = FALSE /\ header.size = log[i].size
      BY <2>1 DEF HeadersAt, HeaderCell
    <2>4. size = <<log[i].size>> /\ words = RecordWords(log[i].size)
      BY Zenon, <2>2, <2>3 DEF Inspected
    <2>5. size # <<>>
      BY Zenon, <2>4
    <2> QED BY Zenon, <1>4, <1>6, <2>4, <2>5
  <1>7. CASE chead[c] = log[i].at /\ log[i].pad > 0
    <2>1. /\ chead[c] + Remaining(chead[c]) = Base(log[i])
          /\ Remaining(chead[c]) < HeaderWords \/ ring[Pos(chead[c])] = WrapCell
      <3>1. head_publish <= log[i].at
        BY Zenon, <1>1, <1>7
      <3> QED BY Zenon, <1>1, <1>7, <3>1, PaddingFound
    <2>2. ring[Pos(chead[c])] = WrapCell =>
            \A header \in HeadersAt(Pos(chead[c])) : header.wrap
      BY DEF HeadersAt, WrapCell, HeaderCell
    <2>3. size = <<>> /\ words = Remaining(chead[c])
      BY Zenon, <2>1, <2>2 DEF Inspected
    <2> QED BY Zenon, <1>7, <2>1, <2>3
  <1>8. chead[c] = Base(log[i]) \/ (chead[c] = log[i].at /\ log[i].pad > 0)
    BY <1>3, <1>4
  <1> QED BY Zenon, <1>6, <1>7, <1>8

\* What a consumer copies is the record it claimed.
LEMMA CopyIntact ==
    ASSUME TypeOK, ClaimsTile, Locals, Delivering, NEW c \in Consumers, PopCopy(c),
           NEW i \in 1..Len(log), Claims(c, i)
    PROVE  cgot'[c] # <<>> /\ Len(cgot'[c]) = 1 /\ Intact(cgot'[c][1], i)
  <1>1. WriterTypeOK /\ Layout /\ Unread
    BY Zenon, ConsumerType DEF Delivering, WriterInv
  <1>2. cpc[c] = "copy" /\ csize[c] # <<>>
    BY Zenon DEF PopCopy, Locals, LocalsOf
  <1>3. chead[c] = Base(log[i]) /\ csize[c] = <<log[i].size>>
    BY Zenon, <1>2 DEF Claims
  <1>4. csize[c][1] = log[i].size
    BY <1>3
  <1>5. head_publish <= Base(log[i])
    <2>1. c \in Claiming
      BY Zenon, <1>2 DEF Claiming
    <2> QED BY Zenon, <1>3, <2>1 DEF ClaimsTile
  <1>6. /\ ring[Pos(chead[c])] = HeaderCell(log[i].size, log[i].msg, FALSE)
        /\ ring[Pos(chead[c]) + 1] = SequenceCell(i)
        /\ \A j \in 1..PayloadWords(log[i].size) :
             ring[Pos(chead[c]) + HeaderWords + j - 1] = PayloadCell(log[i].msg, j)
    BY Zenon, <1>1, <1>3, <1>5, RecordFound
  <1>7. \A header \in HeadersAt(Pos(chead[c])) : header.type = log[i].msg
    BY <1>6 DEF HeadersAt, HeaderCell
  <1> DEFINE payload == [j \in 1..PayloadWords(csize[c][1]) |->
                            ring[Pos(chead[c]) + HeaderWords + j - 1]]
             record == [type |-> log[i].msg, sequence |-> SequenceCell(i),
                        payload |-> payload]
  <1>8. payload = Payload(log[i].msg, log[i].size)
    BY Zenon, <1>4, <1>6 DEF Payload
  <1>9. cgot' = [cgot EXCEPT ![c] = <<record>>]
    BY Zenon, <1>6, <1>7, CopyFacts
  <1> HIDE DEF payload
  <1>10. /\ record.type = log[i].msg /\ record.sequence = SequenceCell(i)
         /\ record.payload = Payload(log[i].msg, log[i].size)
    BY Zenon, <1>8
  <1> HIDE DEF record
  <1>11. DOMAIN cgot = Consumers
    BY Zenon DEF TypeOK
  <1>12. cgot'[c] = <<record>>
    BY Zenon, <1>9, <1>11
  <1>13. cgot'[c] # <<>> /\ Len(cgot'[c]) = 1 /\ cgot'[c][1] = record
    BY <1>12
  <1> QED BY Zenon, <1>10, <1>13 DEF Intact

\* A step that leaves a consumer's locals and the log alone keeps what it
\* holds, if head_reserve does not come back to where the consumer saw it.
LEMMA HolderFrame ==
    ASSUME NEW d \in Consumers, ConsumerOf(d), UNCHANGED log,
           cpc'[d] = cpc[d], ctail'[d] = ctail[d], chead'[d] = chead[d],
           cnew'[d] = cnew[d], csize'[d] = csize[d], cgot'[d] = cgot[d],
           cpc[d] = "cas" /\ chead[d] = head_reserve' => chead[d] = head_reserve
    PROVE  ConsumerOf(d)'
  <1>1. \A i \in 1..Len(log) : Claims(d, i)' <=> Claims(d, i)
    BY Zenon DEF Claims, Base, End
  <1>2. \A i \in 1..Len(log) : Intact(cgot[d][1], i)' <=> Intact(cgot[d][1], i)
    BY Zenon DEF Intact
  <1>3. d \in Claiming' <=> d \in Claiming
    BY Zenon DEF Claiming
  <1>4. ASSUME cpc'[d] = "cas", chead'[d] = head_reserve', cnew'[d] <= ctail'[d]
        PROVE  \E i \in 1..Len(log') : Claims(d, i)'
    <2>1. PICK i \in 1..Len(log) : Claims(d, i)
      BY Zenon, <1>4 DEF ConsumerOf
    <2> QED BY Zenon, <1>1, <2>1
  <1>5. ASSUME d \in Claiming'
        PROVE  \E i \in 1..Len(log') :
                  /\ Claims(d, i)'
                  /\ cpc'[d] = "wait" =>
                      IF csize'[d] = <<>> THEN cgot'[d] = <<>>
                      ELSE Len(cgot'[d]) = 1 /\ Intact(cgot[d][1], i)'
    <2>1. PICK i \in 1..Len(log) :
            /\ Claims(d, i)
            /\ cpc[d] = "wait" =>
                IF csize[d] = <<>> THEN cgot[d] = <<>>
                ELSE Len(cgot[d]) = 1 /\ Intact(cgot[d][1], i)
      BY Zenon, <1>3, <1>5 DEF ConsumerOf
    <2> QED BY Zenon, <1>1, <1>2, <2>1
  <1> QED BY Zenon, <1>4, <1>5 DEF ConsumerOf

\* A step of a consumer that does not overrun keeps what all of them hold.
LEMMA HoldersPop ==
    ASSUME TypeOK, ClaimsTile, Locals, Delivering, NEW c \in Consumers, Pop(c), ~ overrun'
    PROVE  \A d \in Consumers : ConsumerOf(d)'
  <1>0. UNCHANGED log
    BY Zenon, PopFacts
  <1>2. ASSUME NEW d \in Consumers, d # c PROVE ConsumerOf(d)'
    <2>1. /\ cpc'[d] = cpc[d] /\ ctail'[d] = ctail[d] /\ chead'[d] = chead[d]
          /\ cnew'[d] = cnew[d] /\ csize'[d] = csize[d] /\ cgot'[d] = cgot[d]
      BY Zenon, <1>2, PopFacts DEF OthersKeep
    <2>2. cpc[d] = "cas" /\ chead[d] = head_reserve' => chead[d] = head_reserve
      <3>1. SUFFICES ASSUME cpc[d] = "cas", chead[d] = head_reserve'
                     PROVE  chead[d] = head_reserve
        BY Zenon
      <3>2. chead[d] <= head_reserve
        BY Zenon, <3>1 DEF Locals, LocalsOf
      <3> QED BY <3>1, <3>2, ReserveGrows, ConsumerType
    <2>3. ConsumerOf(d)
      BY Zenon DEF Delivering
    <2> QED BY Zenon, <1>0, <2>1, <2>2, <2>3, HolderFrame
  <1>3. ConsumerOf(c)'
    <2>0. /\ DOMAIN cpc = Consumers /\ DOMAIN ctail = Consumers /\ DOMAIN chead = Consumers
          /\ DOMAIN cnew = Consumers /\ DOMAIN csize = Consumers /\ DOMAIN cgot = Consumers
      BY Zenon DEF TypeOK
    <2>1. ASSUME cpc'[c] \in {"load_tail", "load_head", "inspect"} PROVE ConsumerOf(c)'
      BY Zenon, <2>1 DEF ConsumerOf, Claiming
    <2>2. CASE Again(c) \/ PopRetry(c) \/ PopPublish(c)
      <3>1. Again(c)
        BY Zenon, <2>2 DEF PopRetry, PopPublish
      <3>2. cpc'[c] = "load_tail"
        BY Zenon, <3>1, AgainFacts
      <3> QED BY Zenon, <2>1, <3>2
    <2>3. CASE PopCrash(c)
      <3>1. UNCHANGED <<cpc, ctail, chead, cnew, csize, cgot, head_reserve>>
        BY Zenon, <2>3 DEF PopCrash, localVars, controlVars
      <3>2. ConsumerOf(c)
        BY Zenon DEF Delivering
      <3> QED BY Zenon, <1>0, <3>1, <3>2, HolderFrame
    <2>4. CASE PopLoadTail(c)
      <3>1. cpc'[c] = "load_head"
        BY Zenon, <2>0, <2>4 DEF PopLoadTail
      <3> QED BY Zenon, <2>1, <3>1
    <2>5. CASE PopLoadHead(c) /\ ~ Again(c)
      <3>1. cpc' = [cpc EXCEPT ![c] = "inspect"]
        BY Zenon, <2>5 DEF PopLoadHead
      <3>2. cpc'[c] = "inspect"
        BY Zenon, <2>0, <3>1
      <3> QED BY Zenon, <2>1, <3>2
    <2>6. CASE PopInspect(c) /\ ~ Again(c)
      <3>1. PICK words \in Nat, size \in Seq(Nat) :
              words > 0 /\ Decided(c, words, size) /\ Inspected(c, words, size)
        BY Zenon, <2>6, InspectFacts
      <3>2. /\ cpc'[c] = "cas" /\ cnew'[c] = chead[c] + words /\ csize'[c] = size
            /\ ctail'[c] = ctail[c] /\ chead'[c] = chead[c]
        BY Zenon, <2>0, <3>1 DEF Decided
      <3>3. cpc[c] = "inspect" /\ head_reserve' = head_reserve
        BY Zenon, <2>6 DEF PopInspect, controlVars
      <3>4. ASSUME chead'[c] = head_reserve', cnew'[c] <= ctail'[c]
            PROVE  \E i \in 1..Len(log') : Claims(c, i)'
        <4>1. PICK i \in 1..Len(log) :
                \/ size = <<>> /\ chead[c] = log[i].at /\ chead[c] + words = Base(log[i])
                \/ /\ size # <<>> /\ chead[c] = Base(log[i])
                   /\ size = <<log[i].size>> /\ chead[c] + words = End(log[i])
          <5>1. chead[c] = head_reserve /\ chead[c] + words <= ctail[c]
            BY Zenon, <3>2, <3>3, <3>4
          <5> QED BY Zenon, <3>1, <3>3, <5>1, InspectRecord
        <4>2. Claims(c, i)'
          BY Zenon, <1>0, <3>2, <4>1 DEF Claims, Base, End
        <4> QED BY Zenon, <1>0, <4>2
      <3>5. c \notin Claiming'
        BY Zenon, <3>2 DEF Claiming
      <3> QED BY Zenon, <3>4, <3>5 DEF ConsumerOf
    <2>7. CASE PopClaim(c)
      <3>1. /\ cpc[c] = "cas" /\ csize'[c] = csize[c] /\ chead'[c] = chead[c]
            /\ cnew'[c] = cnew[c] /\ cgot'[c] = cgot[c] /\ chead[c] = head_reserve
            /\ cpc'[c] = IF csize[c] = <<>> THEN "wait" ELSE "copy"
        BY Zenon, <2>0, <2>7 DEF PopClaim, localVars
      <3>2. cnew[c] <= ctail[c]
        <4>1. ~ (cnew[c] > ctail[c])
          BY Zenon, <2>7 DEF PopClaim
        <4> QED BY <4>1, ConsumerType
      <3>3. PICK i \in 1..Len(log) : Claims(c, i)
        BY Zenon, <3>1, <3>2 DEF Delivering, ConsumerOf
      <3>4. Claims(c, i)'
        BY Zenon, <1>0, <3>1, <3>3 DEF Claims, Base, End
      <3>5. cpc'[c] = "wait" => csize'[c] = <<>> /\ cgot'[c] = <<>>
        <4>1. cgot[c] = <<>>
          BY Zenon, <3>1 DEF Locals, LocalsOf
        <4> QED BY Zenon, <3>1, <4>1
      <3>6. cpc'[c] # "cas"
        BY Zenon, <3>1
      <3> QED BY Zenon, <1>0, <3>4, <3>5, <3>6 DEF ConsumerOf
    <2>8. CASE PopCopy(c)
      <3>1. /\ cpc[c] = "copy" /\ csize'[c] = csize[c] /\ chead'[c] = chead[c]
            /\ cnew'[c] = cnew[c] /\ cpc'[c] = "wait"
        BY Zenon, <2>0, <2>8 DEF PopCopy
      <3>2. PICK i \in 1..Len(log) : Claims(c, i)
        <4>1. c \in Claiming
          BY Zenon, <3>1 DEF Claiming
        <4> QED BY Zenon, <4>1 DEF Delivering, ConsumerOf
      <3>3. Claims(c, i)'
        BY Zenon, <1>0, <3>1, <3>2 DEF Claims, Base, End
      <3>4. cgot'[c] # <<>> /\ Len(cgot'[c]) = 1 /\ Intact(cgot'[c][1], i)
        BY Zenon, <2>8, <3>2, CopyIntact
      <3>5. Intact(cgot[c][1], i)'
        BY Zenon, <1>0, <3>4 DEF Intact
      <3>6. csize'[c] # <<>> /\ cpc'[c] # "cas"
        <4>1. csize[c] # <<>>
          BY Zenon, <3>1 DEF Locals, LocalsOf
        <4> QED BY Zenon, <3>1, <4>1
      <3> QED BY Zenon, <1>0, <3>3, <3>4, <3>5, <3>6 DEF ConsumerOf
    <2> QED BY Zenon, <2>2, <2>3, <2>4, <2>5, <2>6, <2>7, <2>8 DEF Pop, PopStep
  <1> QED BY Zenon, <1>2, <1>3

\* The claim of consumer c in its turn, in numbers.
LEMMA ClaimOrder ==
    ASSUME TypeOK, Layout, NEW c \in Consumers, NEW i \in 1..Len(log), Claims(c, i),
           NEW j \in 1..Len(log)
    PROVE  /\ csize[c] = <<>> => (End(log[j]) <= chead[c] <=> End(log[j]) <= cnew[c])
           /\ csize[c] # <<>> =>
                /\ End(log[j]) <= chead[c] <=> j < i
                /\ End(log[j]) <= cnew[c] <=> j <= i
           /\ cnew[c] <= tail_publish
  <1>1. /\ log[i].at \in Nat /\ Base(log[i]) \in Nat /\ End(log[i]) \in Nat
        /\ log[i].at <= Base(log[i]) /\ Base(log[i]) < End(log[i])
        /\ End(log[i]) <= tail_publish
    BY Zenon, ConsumerType, RecordType, RecordOrder, RecordsPublished
  <1>2. /\ log[j].at \in Nat /\ Base(log[j]) \in Nat /\ End(log[j]) \in Nat
        /\ log[j].at <= Base(log[j]) /\ Base(log[j]) < End(log[j])
    BY Zenon, ConsumerType, RecordType, RecordOrder
  <1>3. /\ j < i => End(log[j]) <= log[i].at
        /\ i < j => End(log[i]) <= log[j].at
    BY Zenon DEF Layout
  <1>4. \/ csize[c] = <<>> /\ chead[c] = log[i].at /\ cnew[c] = Base(log[i])
        \/ csize[c] # <<>> /\ chead[c] = Base(log[i]) /\ cnew[c] = End(log[i])
    BY Zenon DEF Claims
  <1> DEFINE ai == log[i].at
             bi == Base(log[i])
             ei == End(log[i])
             aj == log[j].at
             bj == Base(log[j])
             ej == End(log[j])
  <1>5. i \in Nat /\ j \in Nat /\ tail_publish \in Nat
    BY ConsumerType
  <1> HIDE DEF ai, bi, ei, aj, bj, ej
  <1>6. /\ ai \in Nat /\ bi \in Nat /\ ei \in Nat /\ ai <= bi /\ bi < ei /\ ei <= tail_publish
        /\ aj \in Nat /\ bj \in Nat /\ ej \in Nat /\ aj <= bj /\ bj < ej
        /\ j < i => ej <= ai
        /\ i < j => ei <= aj
    BY Zenon, <1>1, <1>2, <1>3 DEF ai, bi, ei, aj, bj, ej
  <1>7. /\ j < i \/ j = i \/ i < j
        /\ j = i => aj = ai /\ bj = bi /\ ej = ei
    BY <1>5 DEF ai, bi, ei, aj, bj, ej
  <1>8. /\ ej <= ai <=> ej <= bi
        /\ ej <= bi <=> j < i
        /\ ej <= ei <=> j <= i
        /\ bi <= tail_publish
    BY <1>5, <1>6, <1>7
  <1> QED BY Zenon, <1>4, <1>6, <1>8 DEF ai, bi, ei, ej

\* A consumer that gives its claim back pops the next record, or none.
LEMMA GivenPublish ==
    ASSUME TypeOK, Delivering, NEW c \in Consumers, PopPublish(c), UNCHANGED log
    PROVE  Given' /\ head_publish' <= tail_publish
  <1>1. /\ cpc[c] = "wait" /\ head_publish = chead[c] /\ head_publish' = cnew[c]
        /\ popped' = popped \o cgot[c]
    BY Zenon DEF PopPublish
  <1>2. Layout
    BY Zenon DEF Delivering, WriterInv
  <1>3. PICK i \in 1..Len(log) :
          /\ Claims(c, i)
          /\ IF csize[c] = <<>> THEN cgot[c] = <<>>
             ELSE Len(cgot[c]) = 1 /\ Intact(cgot[c][1], i)
    <2>1. c \in Claiming
      BY Zenon, <1>1 DEF Claiming
    <2> QED BY Zenon, <1>1, <2>1 DEF Delivering, ConsumerOf
  <1>4. \A j \in 1..Len(log) :
          /\ csize[c] = <<>> => (End(log[j]) <= head_publish <=> End(log[j]) <= head_publish')
          /\ csize[c] # <<>> =>
               /\ End(log[j]) <= head_publish <=> j < i
               /\ End(log[j]) <= head_publish' <=> j <= i
    BY Zenon, <1>1, <1>2, <1>3, ClaimOrder
  <1>5. head_publish' <= tail_publish
    BY Zenon, <1>1, <1>2, <1>3, ClaimOrder
  <1>6. /\ Len(popped) <= Len(log)
        /\ \A j \in 1..Len(log) : j <= Len(popped) <=> End(log[j]) <= head_publish
        /\ \A j \in 1..Len(popped) : Intact(popped[j], j)
    BY Zenon DEF Delivering, Given
  <1>7. popped \in Seq(Records) /\ cgot[c] \in Seq(Records) /\ Len(cgot[c]) <= 1
    BY Zenon, ConsumerType DEF TypeOK
  <1>8. Given'
    <2>1. CASE csize[c] = <<>>
      <3>1. popped' = popped
        <4>1. cgot[c] = <<>>
          BY Zenon, <1>3, <2>1
        <4> DEFINE R == Records
        <4> HIDE DEF R
        <4>2. popped \in Seq(R)
          BY Zenon, <1>7 DEF R
        <4>3. popped \o <<>> = popped
          BY <4>2
        <4> QED BY Zenon, <1>1, <4>1, <4>3
      <3>2. \A j \in 1..Len(log) : j <= Len(popped) <=> End(log[j]) <= head_publish'
        BY Zenon, <1>4, <1>6, <2>1
      <3> QED BY Zenon, <1>6, <3>1, <3>2 DEF Given, End, Base, Intact
    <2>2. CASE csize[c] # <<>>
      <3>1. Len(cgot[c]) = 1 /\ cgot[c] # <<>> /\ Intact(cgot[c][1], i)
        BY <1>3, <2>2
      <3>2. /\ Len(popped') = Len(popped) + 1
            /\ \A j \in 1..Len(popped) : popped'[j] = popped[j]
            /\ popped'[Len(popped) + 1] = cgot[c][1]
        BY Zenon, <1>1, <1>7, <3>1, ConcatFacts
      <3> DEFINE k == Len(popped)
                 n == Len(log)
      <3>3. \A j \in 1..n : j <= k <=> j < i
        BY Zenon, <1>4, <1>6, <2>2
      <3>4. k \in Nat /\ n \in Nat /\ k <= n /\ i \in 1..n
        BY Zenon, <1>6, ConsumerType
      <3> HIDE DEF k, n
      <3>5. k + 1 = i
        <4>1. ~ (i <= k)
          BY <3>3, <3>4
        <4>2. i - 1 \in 1..n => i - 1 <= k
          BY <3>3, <3>4
        <4> QED BY <3>4, <4>1, <4>2
      <3>6. Len(popped') = i /\ popped'[i] = cgot[c][1]
        BY Zenon, <3>2, <3>5 DEF k
      <3>7. Len(popped') <= n
        BY <3>4, <3>6
      <3>8. \A j \in 1..n : j <= Len(popped') <=> End(log[j]) <= head_publish'
        BY Zenon, <1>4, <2>2, <3>6 DEF n
      <3>9. ASSUME NEW j \in 1..Len(popped') PROVE Intact(popped[j], j)'
        <4>1. CASE j = i
          <5>1. popped'[j] = cgot[c][1] /\ Intact(cgot[c][1], j)
            BY Zenon, <3>1, <3>6, <4>1
          <5> QED BY Zenon, <5>1 DEF Intact
        <4>2. CASE j # i
          <5>1. j \in 1..k
            BY <3>4, <3>5, <3>6, <4>2
          <5>2. popped'[j] = popped[j] /\ Intact(popped[j], j)
            BY Zenon, <1>6, <3>2, <5>1 DEF k
          <5> QED BY Zenon, <5>2 DEF Intact
        <4> QED BY Zenon, <4>1, <4>2
      <3> QED BY Zenon, <3>7, <3>8, <3>9 DEF Given, End, Base, n
    <2> QED BY Zenon, <2>1, <2>2
  <1> QED BY Zenon, <1>5, <1>8

\* A step of a consumer that does not overrun.
LEMMA DeliveringPop ==
    ASSUME TypeOK, ClaimsTile, Locals, Delivering, NEW c \in Consumers, Pop(c), ~ overrun'
    PROVE  Delivering'
  <1>0. /\ WriterTypeOK /\ WriterInv /\ Layout /\ HeadIsABoundary
    BY Zenon, ConsumerType DEF Delivering, WriterInv
  <1>1. UNCHANGED <<producerVars, dead, tail_reserve, tail_publish, sequence, ring, log>>
    BY Zenon, PopFacts
  <1>2. \A d \in Consumers : ConsumerOf(d)'
    BY Zenon, HoldersPop
  <1>3. Given' /\ WriterInv'
    <2>1. CASE PopPublish(c)
      <3>1. Given' /\ head_publish' <= tail_publish
        BY Zenon, <1>1, <2>1, GivenPublish
      <3>2. head_publish' \in Nat /\ head_publish <= head_publish'
        <4>1. head_publish = chead[c] /\ head_publish' = cnew[c] /\ chead[c] < cnew[c]
          BY Zenon, <2>1 DEF PopPublish, Locals, LocalsOf
        <4> QED BY <4>1, ConsumerType
      <3> QED BY Zenon, <1>0, <1>1, <3>1, <3>2, WriterInvHead
    <2>2. CASE ~ PopPublish(c)
      <3>1. UNCHANGED <<head_publish, popped>>
        BY Zenon, <2>2, PopFacts
      <3>2. WriterInv'
        BY Zenon, <1>0, <1>1, <3>1, WriterInvFrame
      <3>3. Given'
        BY Zenon, <1>1, <3>1 DEF Delivering, Given, Intact, End, Base
      <3> QED BY Zenon, <3>2, <3>3
    <2> QED BY Zenon, <2>1, <2>2
  <1>4. HeadIsABoundary'
    <2>1. CASE PopClaim(c)
      <3>1. /\ cpc[c] = "cas" /\ chead[c] = head_reserve /\ head_reserve' = cnew[c]
            /\ ~ (cnew[c] > ctail[c])
        BY Zenon, <2>1 DEF PopClaim
      <3>2. cnew[c] <= ctail[c]
        BY <3>1, ConsumerType
      <3>3. PICK i \in 1..Len(log) : Claims(c, i)
        BY Zenon, <3>1, <3>2 DEF Delivering, ConsumerOf
      <3>4. cnew[c] <= tail_publish
        BY Zenon, <1>0, <3>3, ClaimOrder
      <3>5. cnew[c] = Base(log[i]) \/ cnew[c] = End(log[i])
        BY Zenon, <3>3 DEF Claims
      <3>6. \/ cnew[c] = tail_publish
            \/ \E k \in 1..Len(log) : cnew[c] \in {log[k].at, Base(log[k])}
        <4>1. CASE cnew[c] = Base(log[i])
          BY Zenon, <4>1
        <4>2. CASE cnew[c] = End(log[i]) /\ i < Len(log)
          <5>1. i + 1 \in 1..Len(log) /\ log[i + 1].at = End(log[i])
            BY <1>0, <4>2, ConsumerType DEF Layout
          <5> QED BY Zenon, <4>2, <5>1
        <4>3. CASE cnew[c] = End(log[i]) /\ ~ (i < Len(log))
          <5>1. i = Len(log) /\ log # <<>>
            BY <1>0, <4>3, CursorType
          <5> QED BY Zenon, <1>0, <4>3, <5>1 DEF Layout
        <4> QED BY Zenon, <3>5, <4>1, <4>2, <4>3
      <3> QED BY Zenon, <1>1, <3>1, <3>4, <3>6 DEF HeadIsABoundary, Base
    <2>2. CASE ~ PopClaim(c)
      <3>1. UNCHANGED head_reserve
        BY Zenon, <2>2, PopFacts
      <3> QED BY Zenon, <1>0, <1>1, <3>1 DEF HeadIsABoundary, Base
    <2> QED BY Zenon, <2>1, <2>2
  <1> QED BY Zenon, <1>2, <1>3, <1>4 DEF Delivering

-------------------------------------------------------------------------------
(* The invariant, and the properties it carries. *)

\* A fresh ring satisfies it.
LEMMA ClaimInvInit == Init => ClaimInv
  <1> SUFFICES ASSUME Init PROVE ClaimInv
    OBVIOUS
  <1>1. WriterInv /\ Reservations
    BY Zenon, WriterInvInit DEF Init, WriterInv
  <1>2. /\ head_publish = 0 /\ head_reserve = 0 /\ tail_publish = 0 /\ log = <<>>
        /\ popped = <<>>
        /\ \A c \in Consumers : cpc[c] = "load_tail" /\ cgot[c] = <<>>
    BY Zenon DEF Init, WriterInit
  <1>3. Len(log) = 0 /\ Len(popped) = 0 /\ Claiming = {}
    BY Zenon, <1>2 DEF Claiming
  <1>4. ClaimsTile
    BY <1>2, <1>3 DEF ClaimsTile
  <1>5. Locals
    BY Zenon, <1>2 DEF Locals, LocalsOf
  <1>6. \A c \in Consumers : ConsumerOf(c)
    BY Zenon, <1>2, <1>3 DEF ConsumerOf
  <1>7. HeadIsABoundary
    BY <1>2 DEF HeadIsABoundary
  <1>8. Given
    BY <1>3 DEF Given
  <1> QED BY Zenon, <1>1, <1>4, <1>5, <1>6, <1>7, <1>8 DEF ClaimInv, Delivering

\* Every step preserves it.
LEMMA ClaimInvStep ==
    ASSUME TypeOK, ClaimInv, [Next]_vars
    PROVE  TypeOK' /\ ClaimInv'
  <1>1. /\ WriterTypeOK /\ Reservations /\ ClaimsTile /\ Locals
        /\ ~ overrun => Delivering
    BY Zenon, ConsumerType DEF ClaimInv
  <1>2. ASSUME NEW c \in Consumers, Pop(c) PROVE TypeOK' /\ ClaimInv'
    <2>1. TypeOK' /\ ClaimsTile' /\ Locals'
      BY Zenon, <1>1, <1>2, TypePop, TilePop, LocalsPop
    <2>2. Reservations'
      <3>1. UNCHANGED <<producerVars, tail_reserve, tail_publish>>
        BY Zenon, <1>2, PopFacts
      <3> QED BY Zenon, <1>1, <3>1, ReservationsFrame DEF producerVars
    <2>3. ~ overrun' => Delivering'
      <3>1. overrun => overrun'
        BY Zenon, <1>2, PopFacts
      <3> QED BY Zenon, <1>1, <1>2, <3>1, DeliveringPop
    <2> QED BY Zenon, <2>1, <2>2, <2>3 DEF ClaimInv
  <1>3. ASSUME NEW p \in Producers, Push(p), UNCHANGED consumerVars
        PROVE  TypeOK' /\ ClaimInv'
    <2>1. WriterTypeOK' /\ Reservations'
      BY Zenon, <1>1, <1>3, WriterTypePush, ReservationsPush
    <2>2. ClaimsTile' /\ Locals'
      BY Zenon, <1>1, <1>3, TilePush, LocalsPush
    <2>3. UNCHANGED <<cpc, ctail, chead, cnew, csize, cgot, cdead, overrun, popped>>
      BY Zenon, <1>3 DEF consumerVars, localVars
    <2>4. ~ overrun' => Delivering'
      BY Zenon, <1>1, <1>3, <2>3, DeliveringPush
    <2>5. TypeOK'
      BY Zenon, <2>1, <2>3 DEF TypeOK
    <2> QED BY Zenon, <2>1, <2>2, <2>4, <2>5 DEF ClaimInv
  <1>4. CASE UNCHANGED vars
    <2>1. /\ UNCHANGED <<head_reserve, head_publish, tail_reserve, tail_publish, sequence, ring>>
          /\ UNCHANGED <<ppc, psize, phead, ptail, ppad, sent, log, dead, producerVars>>
          /\ UNCHANGED <<cpc, ctail, chead, cnew, csize, cgot, cdead, overrun, popped>>
      BY Zenon, <1>4 DEF vars, controlVars, producerVars, consumerVars, localVars
    <2>2. TypeOK'
      BY Zenon, <2>1 DEF TypeOK, WriterTypeOK
    <2>3. Reservations'
      BY Zenon, <1>1, <2>1, ReservationsFrame
    <2>4. ClaimsTile' /\ Locals'
      BY Zenon, <1>1, <2>1 DEF ClaimsTile, Claiming, Locals, LocalsOf
    <2>5. ASSUME Delivering PROVE Delivering'
      <3>1. WriterInv'
        BY Zenon, <1>1, <2>1, <2>5, WriterInvFrame DEF Delivering
      <3>2. HeadIsABoundary' /\ Given'
        BY Zenon, <2>1, <2>5 DEF Delivering, HeadIsABoundary, Given, Base, End, Intact
      <3>3. \A c \in Consumers : ConsumerOf(c)'
        BY Zenon, <2>1, <2>5, HolderFrame DEF Delivering
      <3> QED BY Zenon, <3>1, <3>2, <3>3 DEF Delivering
    <2> QED BY Zenon, <1>1, <2>1, <2>2, <2>3, <2>4, <2>5 DEF ClaimInv
  <1> QED BY Zenon, <1>2, <1>3, <1>4 DEF Next

\* Every state of the MPMC ring has its types and satisfies ClaimInv: the
\* reservations of the producers and the claims of the consumers tile their
\* parts of the ring, and as long as no claim reached past what its consumer
\* knew to be published, every consumer holds a published record.
THEOREM ClaimInvariant == Spec => [](TypeOK /\ ClaimInv)
  BY TypeInit, ClaimInvInit, ClaimInvStep, PTL DEF Spec

\* The words between head_publish and head_reserve are tiled by the claims of
\* the consumers, whoever dies and even after an overrun: a consumer that spins
\* on head_publish waits for one other, and no two have their turn at once.
THEOREM TilesAlways == Spec => []ClaimsTile
  <1>1. ClaimInv => ClaimsTile
    BY Zenon DEF ClaimInv
  <1> QED BY <1>1, ClaimInvariant, PTL

\* As long as no claim overran, the cursors are in order, and a CAS of try_pop
\* that succeeds claims exactly one published record or the padding before it:
\* the header it read before the CAS was not stale.
THEOREM OnlyRecordsClaimed == Spec => []ClaimsAreRecords
  <1>1. TypeOK /\ ClaimInv => ClaimsAreRecords
    <2>1. SUFFICES ASSUME TypeOK, ClaimInv PROVE CursorOrder /\ ClaimIsARecord
      BY Zenon DEF ClaimsAreRecords
    <2>2. CursorOrder
      BY Zenon, <2>1 DEF ClaimInv, Delivering, HeadIsABoundary, WriterInv, Reservations,
         Snapshots, CursorOrder
    <2>3. ClaimIsARecord
      <3>1. ASSUME Delivering, NEW c \in Claiming
            PROVE  \E i \in 1..Len(log) : Claims(c, i)
        <4>1. c \in Consumers
          BY Zenon DEF Claiming
        <4> QED BY Zenon, <3>1, <4>1 DEF Delivering, ConsumerOf
      <3> QED BY Zenon, <2>1, <3>1 DEF ClaimInv, ClaimIsARecord
    <2> QED BY Zenon, <2>2, <2>3
  <1> QED BY <1>1, ClaimInvariant, PTL

\* As long as no claim overran, nobody writes the words that a consumer is
\* copying, and no two consumers copy the same: the plain loads of try_pop and
\* the plain stores of try_push never meet.
THEOREM NobodyDisturbs == Spec => []CopiesUndisturbed
  <1>1. TypeOK /\ ClaimInv => CopiesUndisturbed
    <2>1. SUFFICES ASSUME TypeOK, ClaimInv, ~ overrun, NEW c \in Consumers
                   PROVE  /\ \A p \in Producers : ClaimedWords(c) \cap OwnedWords(p) = {}
                          /\ \A d \in Consumers \ {c} : ClaimedWords(c) \cap ClaimedWords(d) = {}
      BY Zenon DEF CopiesUndisturbed
    <2>2. /\ WriterTypeOK /\ WriterInv /\ ClaimsTile /\ head_reserve <= tail_publish
          /\ tail_publish <= head_publish + Capacity
      <3>1. /\ WriterTypeOK /\ WriterInv /\ ClaimsTile /\ head_reserve <= tail_publish
            /\ tail_publish <= tail_reserve /\ tail_reserve <= head_publish + Capacity
        BY Zenon, <2>1, ConsumerType DEF ClaimInv, Delivering, HeadIsABoundary, WriterInv,
           Reservations, Snapshots
      <3> QED BY <2>1, <3>1, ConsumerType, CapacityType
    <2>3. ASSUME NEW d \in Claiming, NEW at \in chead[d]..(cnew[d] - 1)
          PROVE  /\ at \in Nat /\ head_publish <= at /\ at < head_publish + Capacity
                 /\ at < tail_publish /\ chead[d] <= at /\ at < cnew[d]
      <3>1. head_publish <= chead[d] /\ cnew[d] <= head_reserve
        BY Zenon, <2>2 DEF ClaimsTile
      <3>2. chead[d] \in Nat /\ cnew[d] \in Nat
        BY Zenon, <2>1, ConsumerType DEF Claiming
      <3> QED BY <2>1, <2>2, <3>1, <3>2, ConsumerType, CapacityType
    <2>4. ASSUME NEW p \in Producers, NEW w \in ClaimedWords(c), w \in OwnedWords(p)
          PROVE  FALSE
      <3>1. PICK at \in chead[c]..(cnew[c] - 1) : w = Pos(at) /\ c \in Claiming
        BY Zenon, <2>4 DEF ClaimedWords
      <3>2. ppc[p] \in Holding
        BY Zenon, <2>4 DEF OwnedWords
      <3>3. PICK o \in Start(p)..(PublishTo(p) - 1) : w = Pos(o)
        BY Zenon, <2>4 DEF OwnedWords
      <3>4. /\ o \in Nat /\ head_publish <= o /\ tail_publish <= o
            /\ o < head_publish + Capacity
        BY Zenon, <2>2, <3>2, OwnedCursor
      <3>5. /\ at \in Nat /\ head_publish <= at /\ at < head_publish + Capacity
            /\ at < tail_publish
        BY Zenon, <2>3, <3>1
      <3>6. at = o
        BY Zenon, <2>2, <3>1, <3>3, <3>4, <3>5, WindowInjective
      <3> QED BY <2>1, <3>4, <3>5, <3>6, ConsumerType
    <2>5. ASSUME NEW d \in Consumers \ {c}, NEW w \in ClaimedWords(c), w \in ClaimedWords(d)
          PROVE  FALSE
      <3>1. PICK at \in chead[c]..(cnew[c] - 1) : w = Pos(at) /\ c \in Claiming
        BY Zenon, <2>5 DEF ClaimedWords
      <3>2. PICK o \in chead[d]..(cnew[d] - 1) : w = Pos(o) /\ d \in Claiming
        BY Zenon, <2>5 DEF ClaimedWords
      <3>3. /\ at \in Nat /\ head_publish <= at /\ at < head_publish + Capacity
            /\ chead[c] <= at /\ at < cnew[c]
        BY Zenon, <2>3, <3>1
      <3>4. /\ o \in Nat /\ head_publish <= o /\ o < head_publish + Capacity
            /\ chead[d] <= o /\ o < cnew[d]
        BY Zenon, <2>3, <3>2
      <3>5. at = o
        BY Zenon, <2>2, <3>1, <3>2, <3>3, <3>4, WindowInjective
      <3>6. cnew[c] <= chead[d] \/ cnew[d] <= chead[c]
        <4>1. c # d
          BY Zenon, <2>5
        <4> QED BY Zenon, <2>2, <3>1, <3>2, <4>1 DEF ClaimsTile
      <3>7. /\ chead[c] \in Nat /\ cnew[c] \in Nat /\ chead[d] \in Nat /\ cnew[d] \in Nat
        BY Zenon, <2>1, <2>5, ConsumerType
      <3> QED BY <3>3, <3>4, <3>5, <3>6, <3>7
    <2> QED BY Zenon, <2>4, <2>5
  <1> QED BY <1>1, ClaimInvariant, PTL

\* As long as no claim overran, the consumers together pop the published
\* messages in publication order, each once and with its own bytes.
THEOREM PoppedInOrder == Spec => []PoppedIntact
  <1>1. ClaimInv => PoppedIntact
    BY Zenon DEF ClaimInv, Delivering, Given, Intact, PoppedIntact
  <1> QED BY <1>1, ClaimInvariant, PTL

-------------------------------------------------------------------------------
(* A queue, up to the first overrun: every step maps to one of Fifo. *)

sentLog == [i \in 1..Len(log) |-> log[i].msg]
receivedLog == [i \in 1..Len(popped) |-> popped[i].type]

\* The words not given back begin with the oldest record not popped, or with
\* the padding in front of it.
LEMMA HeadAtOldest ==
    ASSUME TypeOK, ClaimInv, ~ overrun, Len(popped) < Len(log)
    PROVE  /\ Len(popped) + 1 \in 1..Len(log)
           /\ head_publish <= Base(log[Len(popped) + 1])
  <1> DEFINE k == Len(popped)
  <1>1. /\ WriterTypeOK /\ Layout /\ ClaimsTile /\ Given /\ HeadIsABoundary
        /\ \A c \in Consumers : ConsumerOf(c)
    BY Zenon, ConsumerType DEF ClaimInv, Delivering, WriterInv
  <1>2. /\ k \in Nat /\ Len(log) \in Nat /\ head_publish \in Nat /\ head_reserve \in Nat
        /\ tail_publish \in Nat /\ k + 1 \in 1..Len(log)
    BY ConsumerType
  <1>3. ~ (End(log[k + 1]) <= head_publish)
    <2>1. ~ (k + 1 <= k)
      BY <1>2
    <2> QED BY Zenon, <1>1, <1>2, <2>1 DEF Given
  <1>4. /\ End(log[k + 1]) \in Nat /\ Base(log[k + 1]) \in Nat
        /\ End(log[k + 1]) <= tail_publish
    BY Zenon, <1>1, <1>2, RecordType, RecordsPublished
  <1>5. \E i \in 1..Len(log) : head_publish \in {log[i].at, Base(log[i])}
    <2>1. CASE head_publish = head_reserve
      <3>1. head_reserve # tail_publish
        BY Zenon, <1>2, <1>3, <1>4, <2>1
      <3> QED BY Zenon, <1>1, <2>1, <3>1 DEF HeadIsABoundary
    <2>2. CASE head_publish # head_reserve
      <3>1. head_publish <= head_reserve
        BY Zenon, <1>1 DEF ClaimsTile
      <3>2. head_publish \in head_publish..(head_reserve - 1)
        BY <1>2, <2>2, <3>1
      <3>3. PICK c \in Claiming : chead[c] <= head_publish
        BY Zenon, <1>1, <3>2 DEF ClaimsTile
      <3>4. head_publish <= chead[c]
        BY Zenon, <1>1 DEF ClaimsTile
      <3>5. c \in Consumers
        BY Zenon DEF Claiming
      <3>6. head_publish = chead[c]
        BY <1>2, <3>3, <3>4, <3>5, ConsumerType
      <3>7. PICK i \in 1..Len(log) : Claims(c, i)
        BY Zenon, <1>1, <3>5 DEF ConsumerOf
      <3>8. chead[c] \in {log[i].at, Base(log[i])}
        BY Zenon, <3>7 DEF Claims
      <3> QED BY Zenon, <3>6, <3>8
    <2> QED BY Zenon, <2>1, <2>2
  <1>6. PICK i \in 1..Len(log) : head_publish \in {log[i].at, Base(log[i])}
    BY Zenon, <1>5
  <1>7. /\ log[i].at \in Nat /\ Base(log[i]) \in Nat /\ log[i].at <= Base(log[i])
        /\ Base(log[i]) < End(log[i]) /\ End(log[i]) \in Nat
    BY Zenon, <1>1, RecordType, RecordOrder
  <1>8. ~ (End(log[i]) <= head_publish)
    BY <1>2, <1>6, <1>7
  <1>9. ~ (i <= k)
    BY Zenon, <1>1, <1>8 DEF Given
  <1>10. ~ (k + 1 < i)
    <2>1. SUFFICES ASSUME k + 1 < i PROVE FALSE
      BY Zenon
    <2>2. End(log[k + 1]) <= log[i].at
      BY Zenon, <1>1, <1>2, <2>1 DEF Layout
    <2> QED BY <1>2, <1>3, <1>4, <1>6, <1>7, <2>2
  <1>11. i = k + 1
    BY <1>2, <1>9, <1>10
  <1>12. head_publish <= Base(log[i])
    BY <1>2, <1>6, <1>7
  <1> QED BY Zenon, <1>2, <1>11, <1>12

\* The messages inside never outgrow the ring: each takes a header at least.
LEMMA UnreadCount ==
    ASSUME TypeOK, ClaimInv, ~ overrun
    PROVE  HeaderWords * (Len(log) - Len(popped)) <= Capacity
  <1> DEFINE n == Len(log)
             k == Len(popped)
  <1>0. HeaderWords = 2
    BY Zenon, RecordGeometry
  <1>1. /\ WriterTypeOK /\ Reservations /\ Layout /\ Snapshots /\ k <= n
    BY Zenon, ConsumerType DEF ClaimInv, Delivering, WriterInv, Given
  <1>2. /\ n \in Nat /\ k \in Nat
        /\ head_publish \in Nat /\ tail_publish \in Nat /\ tail_reserve \in Nat
    BY Zenon, ConsumerType
  <1>3. CASE k = n
    <2>1. n - k = 0
      BY <1>2, <1>3
    <2>2. 2 * (n - k) <= Capacity
      BY <2>1, CapacityType
    <2> QED BY Zenon, <1>0, <2>2
  <1>4. CASE k < n
    <2>1. k + 1 \in 1..n /\ n \in 1..n /\ head_publish <= Base(log[k + 1])
      BY <1>2, <1>4, HeadAtOldest
    <2>2. /\ End(log[n]) <= tail_publish
          /\ tail_publish <= tail_reserve /\ tail_reserve <= head_publish + Capacity
      BY Zenon, <1>1, <2>1, RecordsPublished DEF Reservations, Snapshots
    <2>3. /\ Base(log[k + 1]) \in Nat /\ End(log[n]) \in Nat /\ End(log[k + 1]) \in Nat
          /\ Base(log[k + 1]) + 2 <= End(log[k + 1])
      BY Zenon, <1>1, <2>1, RecordType, RecordOrder
    <2>4. End(log[n]) >= Base(log[k + 1]) + 2 * (n - k)
      <3>1. CASE k + 1 = n
        <4>1. n - k = 1
          BY <1>2, <3>1
        <4> QED BY <2>3, <3>1, <4>1
      <3>2. CASE k + 1 < n
        <4>1. k + 2 \in 1..n /\ k + 2 <= n /\ k + 2 = (k + 1) + 1
          BY <1>2, <3>2
        <4>2. log[k + 2].at = End(log[k + 1])
          BY Zenon, <1>1, <2>1, <3>2, <4>1 DEF Layout
        <4>3. End(log[n]) >= log[k + 2].at + HeaderWords * (n - (k + 2) + 1)
          BY ZenonT(30), <1>1, <2>1, <4>1 DEF Layout
        <4> HIDE DEF n, k
        <4> QED BY <1>0, <1>2, <2>3, <4>2, <4>3
      <3> QED BY <1>2, <1>4, <3>1, <3>2
    <2> HIDE DEF n, k
    <2>5. 2 * (n - k) <= Capacity
      BY <1>2, <2>1, <2>2, <2>3, <2>4, CapacityType
    <2> QED BY Zenon, <1>0, <2>5 DEF n, k
  <1> QED BY <1>1, <1>2, <1>3, <1>4

\* The two logs as sequences of messages.
LEMMA LogTypes ==
    ASSUME TypeOK, ClaimInv, ~ overrun
    PROVE  /\ sentLog \in [1..Len(log) -> Messages]
           /\ receivedLog \in [1..Len(popped) -> Messages]
           /\ Len(sentLog) = Len(log) /\ Len(receivedLog) = Len(popped)
           /\ \A i \in 1..Len(popped) : popped[i].type = log[i].msg
           /\ Len(log) \in Nat /\ Len(popped) \in Nat /\ Len(popped) <= Len(log)
  <1>1. Len(log) \in Nat /\ Len(popped) \in Nat /\ Len(popped) <= Len(log)
    BY Zenon, ConsumerType DEF ClaimInv, Delivering, Given
  <1>2. \A i \in 1..Len(log) : log[i].msg \in Messages
    BY Zenon, ConsumerType, RecordType
  <1>3. \A i \in 1..Len(popped) : popped[i].type = log[i].msg
    BY Zenon DEF ClaimInv, Delivering, Given, Intact
  <1>4. \A i \in 1..Len(popped) : i \in 1..Len(log)
    BY <1>1
  <1>5. sentLog \in [1..Len(log) -> Messages]
    BY Zenon, <1>2 DEF sentLog
  <1>6. receivedLog \in [1..Len(popped) -> Messages]
    BY Zenon, <1>2, <1>3, <1>4 DEF receivedLog
  <1>7. Len(sentLog) = Len(log) /\ Len(receivedLog) = Len(popped)
    BY <1>1, <1>5, <1>6
  <1> QED BY Zenon, <1>1, <1>3, <1>5, <1>6, <1>7

\* Publishing a record is sending its message.
LEMMA PublishSends ==
    ASSUME TypeOK, ClaimInv, TypeOK', ClaimInv', ~ overrun, ~ overrun',
           NEW p \in Producers, PushPublish(p), UNCHANGED consumerVars
    PROVE  /\ Current(p) \in Messages
           /\ Len(sentLog) - Len(receivedLog) < Capacity \div HeaderWords
           /\ sentLog' = Append(sentLog, Current(p))
           /\ receivedLog' = receivedLog
  <1>1. /\ Len(log') = Len(log) + 1
        /\ \A i \in 1..Len(log) : log'[i] = log[i]
        /\ log'[Len(log) + 1] = Published(p) /\ Published(p).msg = Current(p)
        /\ ppc[p] = "publish"
    BY Zenon, ConsumerType, PublishFacts DEF ClaimInv, Delivering, WriterInv
  <1>2. Current(p) \in Messages
    BY Zenon, <1>1, ConsumerType, CurrentType
  <1>3. popped' = popped
    BY Zenon DEF consumerVars
  <1>4. /\ sentLog \in [1..Len(log) -> Messages] /\ Len(log) \in Nat
        /\ Len(popped) \in Nat
        /\ Len(sentLog) = Len(log) /\ Len(receivedLog) = Len(popped)
    BY Zenon, LogTypes
  <1>5. sentLog' \in [1..(Len(log) + 1) -> Messages]
    <2>1. (sentLog \in [1..Len(log) -> Messages])'
      BY LogTypes, PTL
    <2> QED BY Zenon, <1>1, <2>1
  <1>6. sentLog' = [i \in 1..(Len(log) + 1) |-> log'[i].msg]
    BY Zenon, <1>1 DEF sentLog
  <1>7. (\A i \in 1..Len(log) : sentLog'[i] = sentLog[i]) /\ sentLog'[Len(log) + 1] = Current(p)
    BY <1>1, <1>4, <1>6 DEF sentLog
  <1>8. sentLog' = Append(sentLog, Current(p))
    BY <1>4, <1>5, <1>7, AppendFunction
  <1>9. HeaderWords * (Len(log') - Len(popped')) <= Capacity
    <2>1. (HeaderWords * (Len(log) - Len(popped)) <= Capacity)'
      BY UnreadCount, PTL
    <2> QED BY Zenon, <2>1
  <1>10. Len(log) - Len(popped) < Capacity \div HeaderWords
    <2>1. HeaderWords = 2
      BY Zenon, RecordGeometry
    <2>2. \A n, k \in Nat : 2 * (n + 1 - k) <= Capacity => n - k < Capacity \div 2
      BY CapacityType
    <2>3. 2 * (Len(log) + 1 - Len(popped)) <= Capacity
      BY <1>1, <1>3, <1>9, <2>1
    <2> QED BY Zenon, <1>4, <2>1, <2>2, <2>3
  <1>11. receivedLog' = receivedLog
    BY Zenon, <1>3 DEF receivedLog
  <1> QED BY Zenon, <1>2, <1>4, <1>8, <1>10, <1>11

\* Giving the words of a record back is receiving its message.
LEMMA PublishReceives ==
    ASSUME TypeOK, ClaimInv, TypeOK', ClaimInv', ~ overrun, ~ overrun',
           NEW c \in Consumers, PopPublish(c), UNCHANGED log, cgot[c] # <<>>
    PROVE  /\ Len(receivedLog) < Len(sentLog)
           /\ receivedLog' = Append(receivedLog, sentLog[Len(receivedLog) + 1])
           /\ sentLog' = sentLog
  <1>1. /\ Len(sentLog) = Len(log) /\ Len(receivedLog) = Len(popped)
        /\ receivedLog \in [1..Len(popped) -> Messages]
        /\ Len(log) \in Nat /\ Len(popped) \in Nat
    BY Zenon, LogTypes
  <1>2. /\ popped \in Seq(Records) /\ cgot[c] \in Seq(Records) /\ Len(cgot[c]) <= 1
        /\ popped' = popped \o cgot[c]
    BY Zenon, ConsumerType DEF TypeOK, PopPublish
  <1>3. /\ Len(popped') = Len(popped) + 1
        /\ \A i \in 1..Len(popped) : popped'[i] = popped[i]
        /\ popped'[Len(popped) + 1] = cgot[c][1]
    BY Zenon, <1>2, ConcatFacts
  <1>4. /\ Len(popped') <= Len(log')
        /\ receivedLog' \in [1..Len(popped') -> Messages]
        /\ \A i \in 1..Len(popped') : popped'[i].type = log'[i].msg
    <2>1. (/\ Len(popped) <= Len(log)
           /\ receivedLog \in [1..Len(popped) -> Messages]
           /\ \A i \in 1..Len(popped) : popped[i].type = log[i].msg)'
      BY LogTypes, PTL
    <2> QED BY Zenon, <2>1
  <1>5. /\ Len(popped) + 1 \in 1..Len(log)
        /\ cgot[c][1].type = log[Len(popped) + 1].msg
    <2>1. Len(popped) + 1 \in 1..Len(log) /\ Len(popped) + 1 \in 1..Len(popped')
      BY <1>1, <1>3, <1>4
    <2> QED BY Zenon, <1>3, <1>4, <2>1
  <1>6. cgot[c][1].type = sentLog[Len(receivedLog) + 1]
    BY Zenon, <1>1, <1>5 DEF sentLog
  <1>7. receivedLog' \in [1..(Len(popped) + 1) -> Messages]
    BY Zenon, <1>3, <1>4
  <1>8. receivedLog' = [i \in 1..(Len(popped) + 1) |-> popped'[i].type]
    BY Zenon, <1>3 DEF receivedLog
  <1>9. /\ \A i \in 1..Len(popped) : receivedLog'[i] = receivedLog[i]
        /\ receivedLog'[Len(popped) + 1] = cgot[c][1].type
    BY <1>1, <1>3, <1>8 DEF receivedLog
  <1>10. receivedLog' = Append(receivedLog, cgot[c][1].type)
    BY <1>1, <1>7, <1>9, AppendFunction
  <1>11. Len(receivedLog) < Len(sentLog)
    BY <1>1, <1>5
  <1> QED BY Zenon, <1>6, <1>10, <1>11 DEF sentLog

\* A step that does not overrun is a step of the queue.
LEMMA FifoStep ==
    ASSUME TypeOK, ClaimInv, TypeOK', ClaimInv', ~ overrun', [Next]_vars
    PROVE  [Queue!Next]_(Queue!fifoVars)
  <1> SUFFICES \/ Queue!Next
               \/ sentLog' = sentLog /\ receivedLog' = receivedLog
    BY Zenon DEF Queue!fifoVars, sentLog, receivedLog
  <1>0. ASSUME UNCHANGED <<log, popped>>
        PROVE  sentLog' = sentLog /\ receivedLog' = receivedLog
    BY Zenon, <1>0 DEF sentLog, receivedLog
  <1>1. ASSUME NEW p \in Producers, Push(p), UNCHANGED consumerVars
        PROVE  \/ Queue!Next
               \/ sentLog' = sentLog /\ receivedLog' = receivedLog
    <2>1. UNCHANGED <<overrun, popped>>
      BY Zenon, <1>1 DEF consumerVars
    <2>2. CASE PushPublish(p)
      <3>1. /\ Current(p) \in Messages
            /\ Len(sentLog) - Len(receivedLog) < Capacity \div HeaderWords
            /\ sentLog' = Append(sentLog, Current(p))
            /\ receivedLog' = receivedLog
        BY Zenon, <1>1, <2>1, <2>2, PublishSends
      <3> QED BY Zenon, <3>1 DEF Queue!Next, Queue!Send, sentLog, receivedLog
    <2>3. CASE ~ PushPublish(p)
      BY Zenon, <1>0, <1>1, <2>1, <2>3, LogChanges
    <2> QED BY Zenon, <2>2, <2>3
  <1>2. ASSUME NEW c \in Consumers, Pop(c)
        PROVE  \/ Queue!Next
               \/ sentLog' = sentLog /\ receivedLog' = receivedLog
    <2>1. UNCHANGED log /\ ~ overrun
      BY Zenon, <1>2, PopFacts
    <2>2. CASE PopPublish(c) /\ cgot[c] # <<>>
      <3>1. /\ Len(receivedLog) < Len(sentLog)
            /\ receivedLog' = Append(receivedLog, sentLog[Len(receivedLog) + 1])
            /\ sentLog' = sentLog
        BY Zenon, <2>1, <2>2, PublishReceives
      <3> QED BY Zenon, <3>1 DEF Queue!Next, Queue!Receive, sentLog, receivedLog
    <2>3. CASE PopPublish(c) /\ cgot[c] = <<>>
      <3> DEFINE R == Records
      <3> HIDE DEF R
      <3>1. popped \in Seq(R) /\ popped' = popped \o <<>>
        BY Zenon, <2>3 DEF PopPublish, TypeOK, R
      <3>2. popped \o <<>> = popped
        BY <3>1
      <3> QED BY Zenon, <1>0, <2>1, <3>1, <3>2
    <2>4. CASE ~ PopPublish(c)
      BY Zenon, <1>0, <1>2, <2>1, <2>4, PopFacts
    <2> QED BY Zenon, <2>2, <2>3, <2>4
  <1>3. CASE UNCHANGED vars
    BY Zenon, <1>0, <1>3 DEF vars, producerVars, consumerVars
  <1> QED BY Zenon, <1>1, <1>2, <1>3 DEF Next

\* Any number of producers and consumers, whatever the interleaving and whoever
\* dies, see one bounded queue up to the first overrun: every step of try_push
\* and try_pop before it sends, receives, or leaves the queue alone.
THEOREM FifoUntilOverrun == Spec => FifoUpToOverrun
  <1>1. Init => Queue!Init
    BY DEF Init, WriterInit, Queue!Init
  <1>2. TypeOK /\ ClaimInv /\ TypeOK' /\ ClaimInv' /\ [Next]_vars
        => [overrun' \/ Queue!Next]_(Queue!fifoVars)
    BY Zenon, FifoStep
  <1> QED BY <1>1, <1>2, ClaimInvariant, PTL DEF Spec, FifoUpToOverrun

-------------------------------------------------------------------------------
(* A lone consumer.  Nobody moves head_reserve between its two loads, so the *)
(* head it inspects is never ahead of the tail it loaded.                    *)

LoneConsumer == \A c, d \in Consumers : c = d

InOrder(c) ==
    /\ cpc[c] = "load_head" => head_reserve <= ctail[c]
    /\ cpc[c] = "inspect" => chead[c] = head_reserve /\ head_reserve <= ctail[c]
    /\ cpc[c] = "cas" => cnew[c] <= ctail[c]

NoOverrun == ~ overrun /\ \A c \in Consumers : InOrder(c)

\* Every step of a lone consumer keeps its snapshots in order.
LEMMA LonePop ==
    ASSUME LoneConsumer, TypeOK, ClaimInv, NoOverrun, NEW c \in Consumers, Pop(c)
    PROVE  NoOverrun'
  <1>0. /\ DOMAIN cpc = Consumers /\ DOMAIN ctail = Consumers /\ DOMAIN chead = Consumers
        /\ DOMAIN cnew = Consumers
    BY Zenon DEF TypeOK
  <1>1. /\ ctail[c] \in Nat /\ chead[c] \in Nat /\ cnew[c] \in Nat
        /\ head_reserve \in Nat /\ tail_publish \in Nat /\ overrun \in BOOLEAN
    BY Zenon, ConsumerType DEF TypeOK
  <1>2. ~ overrun /\ InOrder(c) /\ head_reserve <= tail_publish
    BY Zenon DEF NoOverrun, ClaimInv, Delivering, HeadIsABoundary
  <1>3. ~ overrun'
    <2>1. CASE PopClaim(c)
      <3>1. cpc[c] = "cas" /\ overrun' = (overrun \/ cnew[c] > ctail[c])
        BY Zenon, <2>1 DEF PopClaim
      <3>2. cnew[c] <= ctail[c]
        BY Zenon, <1>2, <3>1 DEF InOrder
      <3>3. ~ (cnew[c] > ctail[c])
        BY <1>1, <3>2
      <3> QED BY Zenon, <1>2, <3>1, <3>3
    <2>2. CASE ~ PopClaim(c)
      BY Zenon, <1>2, <2>2, PopFacts
    <2> QED BY Zenon, <2>1, <2>2
  <1>4. InOrder(c)'
    <2>1. ASSUME cpc'[c] \in {"load_tail", "copy", "wait"} PROVE InOrder(c)'
      BY Zenon, <2>1 DEF InOrder
    <2>2. CASE Again(c) \/ PopRetry(c) \/ PopPublish(c)
      <3>1. Again(c)
        BY Zenon, <2>2 DEF PopRetry, PopPublish
      <3>2. cpc'[c] = "load_tail"
        BY Zenon, <3>1, AgainFacts
      <3> QED BY Zenon, <2>1, <3>2
    <2>3. CASE PopCrash(c)
      <3>1. UNCHANGED <<cpc, ctail, chead, cnew, head_reserve>>
        BY Zenon, <2>3 DEF PopCrash, localVars, controlVars
      <3> QED BY Zenon, <1>2, <3>1 DEF InOrder
    <2>4. CASE PopLoadTail(c)
      <3>1. cpc'[c] = "load_head" /\ ctail'[c] = tail_publish /\ head_reserve' = head_reserve
        BY Zenon, <1>0, <2>4 DEF PopLoadTail, controlVars
      <3> QED BY Zenon, <1>2, <3>1 DEF InOrder
    <2>5. CASE PopLoadHead(c) /\ ~ Again(c)
      <3>1. /\ cpc'[c] = "inspect" /\ chead'[c] = head_reserve /\ ctail'[c] = ctail[c]
            /\ cpc[c] = "load_head" /\ head_reserve' = head_reserve
        BY Zenon, <1>0, <2>5 DEF PopLoadHead, controlVars
      <3> QED BY Zenon, <1>2, <3>1 DEF InOrder
    <2>6. CASE PopInspect(c) /\ ~ Again(c)
      <3>1. PICK words \in Nat, size \in Seq(Nat) : Decided(c, words, size)
        BY Zenon, <2>6, InspectFacts
      <3>2. /\ cpc'[c] = "cas" /\ cnew'[c] = chead[c] + words /\ ctail'[c] = ctail[c]
        BY Zenon, <1>0, <3>1 DEF Decided
      <3>3. cpc[c] = "inspect" /\ chead[c] <= ctail[c]
        <4>1. cpc[c] = "inspect"
          BY Zenon, <2>6 DEF PopInspect
        <4> QED BY Zenon, <1>2, <4>1 DEF InOrder
      <3>4. Available(c) = ctail[c] - chead[c]
        BY Zenon, <1>1, <3>3 DEF Available, Sub64
      <3>5. ~ (ctail[c] - chead[c] < words)
        BY Zenon, <3>1, <3>4 DEF Decided
      <3>6. chead[c] + words <= ctail[c]
        BY <1>1, <3>5
      <3> QED BY Zenon, <3>2, <3>6 DEF InOrder
    <2>7. CASE PopClaim(c) \/ PopCopy(c)
      <3>1. cpc'[c] \in {"copy", "wait"}
        BY Zenon, <1>0, <2>7 DEF PopClaim, PopCopy
      <3> QED BY Zenon, <2>1, <3>1
    <2> QED BY Zenon, <2>2, <2>3, <2>4, <2>5, <2>6, <2>7 DEF Pop, PopStep
  <1> QED BY Zenon, <1>3, <1>4 DEF NoOverrun, LoneConsumer

\* Every step.
LEMMA LoneStep ==
    ASSUME LoneConsumer, TypeOK, ClaimInv, NoOverrun, [Next]_vars
    PROVE  NoOverrun'
  <1>1. ASSUME NEW c \in Consumers, Pop(c) PROVE NoOverrun'
    BY Zenon, <1>1, LonePop
  <1>2. ASSUME NEW p \in Producers, Push(p), UNCHANGED consumerVars PROVE NoOverrun'
    <2>1. UNCHANGED <<cpc, ctail, chead, cnew, overrun, head_reserve>>
      BY Zenon, <1>2, LogChanges DEF consumerVars, localVars
    <2> QED BY Zenon, <2>1 DEF NoOverrun, InOrder
  <1>3. CASE UNCHANGED vars
    <2>1. UNCHANGED <<cpc, ctail, chead, cnew, overrun, head_reserve>>
      BY Zenon, <1>3 DEF vars, controlVars, consumerVars, localVars
    <2> QED BY Zenon, <2>1 DEF NoOverrun, InOrder
  <1> QED BY Zenon, <1>1, <1>2, <1>3 DEF Next

\* A lone consumer never overruns, so all the above holds without exception.
THEOREM LoneNeverOverruns == LoneConsumer => (Spec => []~overrun)
  <1> SUFFICES ASSUME LoneConsumer PROVE Spec => []~overrun
    BY Zenon
  <1>1. Init => NoOverrun
    BY Zenon DEF Init, NoOverrun, InOrder
  <1>2. TypeOK /\ ClaimInv /\ NoOverrun /\ [Next]_vars => NoOverrun'
    BY Zenon, LoneStep
  <1>3. NoOverrun => ~ overrun
    BY Zenon DEF NoOverrun
  <1> QED BY <1>1, <1>2, <1>3, ClaimInvariant, PTL DEF Spec

\* For a lone consumer the MPMC ring is a bounded FIFO queue.
THEOREM LoneRefinesFifo == LoneConsumer => (Spec => ImplementsFifo)
  <1> SUFFICES ASSUME LoneConsumer PROVE Spec => ImplementsFifo
    BY Zenon
  <1>1. Spec => []~overrun
    BY Zenon, LoneNeverOverruns
  <1>2. Init => Queue!Init
    BY DEF Init, WriterInit, Queue!Init
  <1>3. /\ TypeOK /\ ClaimInv /\ TypeOK' /\ ClaimInv' /\ ~ overrun' /\ [Next]_vars
        => [Queue!Next]_(Queue!fifoVars)
    BY Zenon, FifoStep
  <1> QED BY <1>1, <1>2, <1>3, ClaimInvariant, PTL DEF Spec, ImplementsFifo, Queue!Spec

-------------------------------------------------------------------------------
(* From the calls of try_push to what try_pop returns. *)

\* The words of the records not popped are not given back.
LEMMA UnreadKept ==
    ASSUME TypeOK, ClaimInv, ~ overrun, NEW i \in 1..Len(log), i > Len(popped)
    PROVE  head_publish <= Base(log[i])
  <1> DEFINE o == Len(popped) + 1
  <1>1. Layout /\ WriterTypeOK
    BY Zenon, ConsumerType DEF ClaimInv, Delivering, WriterInv
  <1>2. Len(log) \in Nat /\ Len(popped) \in Nat /\ head_publish \in Nat
    BY Zenon, ConsumerType
  <1>3. Len(popped) < Len(log) /\ o \in Nat /\ o <= i
    BY <1>2
  <1>4. o \in 1..Len(log) /\ head_publish <= Base(log[o])
    BY Zenon, <1>3, HeadAtOldest
  <1>5. Base(log[o]) \in Nat /\ Base(log[o]) < End(log[o]) /\ End(log[o]) \in Nat
    BY Zenon, <1>1, <1>4, RecordType, RecordOrder
  <1>6. log[i].at \in Nat /\ Base(log[i]) \in Nat /\ log[i].at <= Base(log[i])
    BY Zenon, <1>1, RecordType, RecordOrder
  <1>7. o < i => End(log[o]) <= log[i].at
    BY Zenon, <1>1, <1>4 DEF Layout
  <1> HIDE DEF o
  <1>8. CASE o = i
    BY ZenonT(30), <1>4, <1>8
  <1>9. CASE o < i
    BY <1>2, <1>4, <1>5, <1>6, <1>7, <1>9
  <1> QED BY <1>2, <1>3, <1>8, <1>9

\* Every call of try_push that returned true has its record in the log, once and in
\* its producer's order.
LEMMA AcceptedAlways == Spec => []Accepted
  <1>1. Init => Accepted
    BY Zenon, AcceptedInit DEF Init
  <1>2. TypeOK /\ Accepted /\ [Next]_vars => Accepted'
    <2> SUFFICES ASSUME TypeOK, Accepted, [Next]_vars PROVE Accepted'
      BY Zenon
    <2>1. CASE (\E c \in Consumers : Pop(c)) \/ UNCHANGED vars
      <3>1. UNCHANGED producerVars
        BY Zenon, <2>1 DEF Pop, vars
      <3> QED BY Zenon, <3>1, AcceptedFrame
    <2>2. ASSUME NEW p \in Producers, Push(p) PROVE Accepted'
      BY Zenon, <2>2, ConsumerType, AcceptedPush
    <2> QED BY Zenon, <2>1, <2>2 DEF Next
  <1> QED BY <1>1, <1>2, ClaimInvariant, PTL DEF Spec

\* As long as no claim overran: between the calls of try_push that return true and
\* the records the consumers pop nothing is lost, repeated, made up or reordered
\* within a producer, and what is not popped yet is whole in the ring.
THEOREM NoPushLost == Spec => []PushedOnce
  <1>1. TypeOK /\ ClaimInv /\ Accepted => PushedOnce
    <2> SUFFICES ASSUME TypeOK, ClaimInv, Accepted, ~ overrun PROVE EachPushOnce(popped)
      BY Zenon DEF PushedOnce
    <2>1. WriterTypeOK /\ Unread /\ Len(popped) \in Nat
      BY Zenon, ConsumerType DEF ClaimInv, Delivering, WriterInv
    <2>2. /\ Len(popped) <= Len(log)
          /\ \A i \in 1..Len(popped) : popped[i].type = log[i].msg
      BY Zenon DEF ClaimInv, Delivering, Given, Intact
    <2>3. \A i \in 1..Len(log) : i > Len(popped) => head_publish <= Base(log[i])
      BY Zenon, UnreadKept
    <2> QED BY Zenon, <2>1, <2>2, <2>3, EachOnce
  <1> QED BY <1>1, ClaimInvariant, AcceptedAlways, PTL

\* What tests/test_ring_buffer.cpp:405 asserts of concurrent consumers holds of a
\* lone one: no message is popped twice.
THEOREM LonePopsOnce == LoneConsumer => (Spec => []PoppedOnce)
  <1>1. TypeOK /\ PushedOnce /\ ~ overrun => PoppedOnce
    <2> SUFFICES ASSUME TypeOK, PushedOnce, ~ overrun,
                        NEW i \in 1..Len(popped), NEW j \in 1..Len(popped),
                        popped[i].type = popped[j].type, popped[i].type # NoMessage
                 PROVE  i = j
      BY Zenon DEF PoppedOnce
    <2>1. EachPushOnce(popped)
      BY Zenon DEF PushedOnce
    <2>2. popped[i].type[2] \in Nat
      <3>1. ASSUME NEW S, NEW q \in Seq(S) PROVE \A n \in 1..Len(q) : q[n] \in S
        OBVIOUS
      <3>2. popped[i] \in Records
        BY Zenon, <3>1 DEF TypeOK
      <3>3. popped[i].type \in Messages
        BY Zenon, <3>2 DEF Records
      <3> QED BY <3>3, MaxPushAssumption DEF Messages
    <2>3. /\ i < j => popped[i].type[2] < popped[i].type[2]
          /\ j < i => popped[i].type[2] < popped[i].type[2]
      BY Zenon, <2>1 DEF EachPushOnce
    <2>4. ~ (i < j) /\ ~ (j < i)
      BY <2>2, <2>3
    <2> QED BY <2>4, ConsumerType
  <1> QED BY <1>1, NoPushLost, LoneNeverOverruns, ClaimInvariant, PTL

\* A dead consumer's claim stays where it is.
LEMMA ClaimKept ==
    ASSUME TypeOK, [Next]_vars, ClaimsTile', NEW d \in cdead \cap Claiming
    PROVE  /\ d \in cdead' \cap Claiming' /\ chead'[d] = chead[d]
           /\ head_publish' <= chead[d]
  <1>1. d \in Consumers /\ d \in cdead /\ cpc[d] \in {"copy", "wait"}
    BY Zenon DEF Claiming
  <1>2. d \in cdead' /\ cpc'[d] = cpc[d] /\ chead'[d] = chead[d]
    <2>1. ASSUME NEW c \in Consumers, Pop(c)
          PROVE  d \in cdead' /\ cpc'[d] = cpc[d] /\ chead'[d] = chead[d]
      <3>1. c # d /\ d \in cdead'
        BY Zenon, <1>1, <2>1 DEF Pop, PopCrash
      <3>2. d \in Consumers \ {c}
        BY Zenon, <1>1, <3>1
      <3> QED BY Zenon, <2>1, <3>1, <3>2, PopFacts DEF OthersKeep
    <2>2. CASE UNCHANGED consumerVars
      BY Zenon, <1>1, <2>2 DEF consumerVars, localVars
    <2>3. UNCHANGED vars => UNCHANGED consumerVars
      BY Zenon DEF vars
    <2> QED BY Zenon, <2>1, <2>2, <2>3 DEF Next
  <1>3. d \in Claiming'
    BY Zenon, <1>1, <1>2 DEF Claiming
  <1>4. head_publish' <= chead'[d]
    BY Zenon, <1>3 DEF ClaimsTile
  <1> QED BY Zenon, <1>2, <1>3, <1>4

\* A producer that dies between its CAS and its publishing store blocks the producers
\* behind it for good, a consumer that dies with a claim the consumers behind it: no
\* step of try_push or try_pop passes them, even after an overrun.
THEOREM DeadBlock == Spec => DeadKeepPlace
  <1> DEFINE Kept == /\ \A p \in dead : ppc[p] \in Holding => KeepsPlace(p)
                     /\ \A c \in cdead \cap Claiming :
                          /\ c \in cdead' \cap Claiming' /\ chead'[c] = chead[c]
                          /\ head_publish' <= chead[c]
  <1>1. TypeOK /\ ClaimInv /\ ClaimInv' /\ [Next]_vars => Kept
    <2> SUFFICES ASSUME TypeOK, ClaimInv, ClaimInv', [Next]_vars PROVE Kept
      BY Zenon
    <2>1. WriterTypeOK /\ Reservations /\ ClaimsTile'
      BY Zenon, ConsumerType DEF ClaimInv
    <2>2. ASSUME NEW q \in dead, ppc[q] \in Holding PROVE KeepsPlace(q)
      <3>1. ASSUME NEW c \in Consumers, Pop(c) PROVE KeepsPlace(q)
        <4>1. UNCHANGED <<producerVars, dead, tail_publish>>
          BY Zenon, <3>1, PopFacts
        <4> QED BY Zenon, <2>1, <2>2, <4>1, PlaceFrame
      <3>2. CASE UNCHANGED vars
        <4>1. UNCHANGED <<producerVars, dead, tail_publish>>
          BY Zenon, <3>2 DEF vars, controlVars
        <4> QED BY Zenon, <2>1, <2>2, <4>1, PlaceFrame
      <3>3. ASSUME NEW p \in Producers, Push(p) PROVE KeepsPlace(q)
        BY Zenon, <2>1, <2>2, <3>3, PlaceKept
      <3> QED BY Zenon, <3>1, <3>2, <3>3 DEF Next
    <2> QED BY Zenon, <2>1, <2>2, ClaimKept
  <1>2. TypeOK /\ ClaimInv /\ ClaimInv' /\ [Next]_vars => [Kept]_vars
    BY Zenon, <1>1
  <1> QED BY <1>2, ClaimInvariant, PTL DEF Spec, DeadKeepPlace
===============================================================================
