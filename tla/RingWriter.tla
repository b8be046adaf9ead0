------------------------------ MODULE RingWriter ------------------------------
(***************************************************************************)
(* detail::try_push (ring_writer.hpp): the producer side that the MPSC and *)
(* the MPMC rings share.  Any number of producers run it concurrently on   *)
(* one control block.  Each access to an atomic of the control block is a  *)
(* step of its own, in program order; plain stores into the record that a  *)
(* producer reserved are grouped into one step per statement group.        *)
(*                                                                         *)
(* The message a producer p pushes as its k-th is the pair <<p, k>>: it is *)
(* what `type` and the payload bytes identify.                             *)
(***************************************************************************)
EXTENDS RingCells, FiniteSets

CONSTANTS
    Producers,   \* threads or processes that call try_push
    Sizes,       \* payload sizes in bytes a caller may pass
    MaxPush,     \* bound: successful pushes per producer
    Crashable,   \* producers that may die in the middle of a call
    U64          \* what a negative cursor difference wraps around

ASSUME SizesAssumption == Sizes \subseteq Nat
ASSUME MaxPushAssumption == MaxPush \in Nat
ASSUME CrashableAssumption == Crashable \subseteq Producers
ASSUME U64Assumption == U64 \in Nat

VARIABLES
    \* ControlBlock and the ring's bytes
    head_reserve, head_publish, tail_reserve, tail_publish, sequence, ring,
    \* locals of try_push, per producer
    ppc,      \* the next statement
    psize,    \* argument `size`
    phead,    \* `head`
    ptail,    \* `tail`, which becomes `start` when the CAS succeeds
    ppad,     \* `padding`
    dead,     \* producers whose process died; their locals are what they were
    \* history
    sent,     \* number of pushes of each producer that returned true
    log       \* published records, in publication order: message and payload
              \* size, cursor `start` and `padding` of the call

controlVars == <<head_reserve, head_publish, tail_reserve, tail_publish,
                 sequence, ring>>
producerVars == <<ppc, psize, phead, ptail, ppad, sent, log>>

Messages == Producers \X (1..MaxPush)

Current(p) == <<p, sent[p] + 1>>
Start(p) == ptail[p]
RecordPos(p) == IF ppad[p] > 0 THEN 0 ELSE Pos(Start(p))
Published(p) == [msg |-> Current(p), size |-> psize[p],
                 at |-> Start(p), pad |-> ppad[p]]
PublishTo(p) == Start(p) + ppad[p] + RecordWords(psize[p])

-------------------------------------------------------------------------------
WriterInit ==
    /\ head_reserve = 0 /\ head_publish = 0
    /\ tail_reserve = 0 /\ tail_publish = 0
    /\ sequence = 0
    /\ ring = [i \in Words |-> ZeroCell]
    /\ ppc = [p \in Producers |-> "idle"]
    /\ psize = [p \in Producers |-> 0]
    /\ phead = [p \in Producers |-> 0]
    /\ ptail = [p \in Producers |-> 0]
    /\ ppad = [p \in Producers |-> 0]
    /\ dead = {}
    /\ sent = [p \in Producers |-> 0]
    /\ log = <<>>

\* The frame ends and its locals with it.
Return(p) ==
    /\ ppc' = [ppc EXCEPT ![p] = "idle"]
    /\ psize' = [psize EXCEPT ![p] = 0]
    /\ phead' = [phead EXCEPT ![p] = 0]
    /\ ptail' = [ptail EXCEPT ![p] = 0]
    /\ ppad' = [ppad EXCEPT ![p] = 0]

\* A call that gets past the two early returns: those (a null pointer with a
\* size, a record larger than the ring) leave no trace at all.
PushCall(p, size) ==
    /\ ppc[p] = "idle"
    /\ sent[p] < MaxPush
    /\ RecordWords(size) <= Capacity
    /\ ppc' = [ppc EXCEPT ![p] = "load_head"]
    /\ psize' = [psize EXCEPT ![p] = size]
    /\ UNCHANGED <<phead, ptail, ppad, sent, log, controlVars>>

PushLoadHead(p) ==
    /\ ppc[p] = "load_head"
    /\ phead' = [phead EXCEPT ![p] = head_publish]
    /\ ppc' = [ppc EXCEPT ![p] = "load_tail"]
    /\ UNCHANGED <<psize, ptail, ppad, sent, log, controlVars>>

\* used > capacity || used + total > capacity, for the given tail.
NoRoom(p, tail) ==
    LET used == Sub64(tail, phead[p], U64)
        words == RecordWords(psize[p])
    IN  \/ used > Capacity
        \/ used + Padding(tail, words) + words > Capacity

PushLoadTail(p) ==
    /\ ppc[p] = "load_tail"
    /\ ~ NoRoom(p, tail_reserve)
    /\ ptail' = [ptail EXCEPT ![p] = tail_reserve]
    /\ ppad' = [ppad EXCEPT ![p] = Padding(tail_reserve, RecordWords(psize[p]))]
    /\ ppc' = [ppc EXCEPT ![p] = "cas"]
    /\ UNCHANGED <<psize, phead, sent, log, controlVars>>

\* try_push returns false.
PushReject(p) ==
    /\ ppc[p] = "load_tail"
    /\ NoRoom(p, tail_reserve)
    /\ Return(p)
    /\ UNCHANGED <<sent, log, controlVars>>

\* Mutant of PushReserve: a plain store where the code compares and exchanges.
PushReserve_PlainStore(p) ==
    /\ ppc[p] = "cas"
    /\ tail_reserve' = PublishTo(p)
    /\ ppc' = [ppc EXCEPT ![p] = "header"]
    /\ UNCHANGED <<psize, phead, ptail, ppad, sent, log, head_reserve,
                   head_publish, tail_publish, sequence, ring>>

PushReserve(p) ==
    /\ ppc[p] = "cas"
    /\ tail_reserve = ptail[p]
    /\ tail_reserve' = PublishTo(p)
    /\ ppc' = [ppc EXCEPT ![p] = "header"]
    /\ UNCHANGED <<psize, phead, ptail, ppad, sent, log, head_reserve,
                   head_publish, tail_publish, sequence, ring>>

\* compare_exchange_weak fails because the value changed, or spuriously.
PushRetry(p) ==
    /\ ppc[p] = "cas"
    /\ ppc' = [ppc EXCEPT ![p] = "load_head"]
    /\ UNCHANGED <<psize, phead, ptail, ppad, sent, log, controlVars>>

\* Mutant of PushWriteHeader: the padding is skipped without a wrap record.
PushWriteHeader_NoWrapRecord(p) ==
    /\ ppc[p] = "header"
    /\ ring' = Overwrite(ring, RecordPos(p),
                         <<HeaderCell(psize[p], Current(p), FALSE), SequenceCell(0)>>)
    /\ ppc' = [ppc EXCEPT ![p] = "payload"]
    /\ UNCHANGED <<psize, phead, ptail, ppad, sent, log, head_reserve,
                   head_publish, tail_reserve, tail_publish, sequence>>

\* The wrap record, when the padding can hold one, and the record's header.
PushWriteHeader(p) ==
    /\ ppc[p] = "header"
    /\ LET wrap == <<HeaderCell(0, NoMessage, TRUE), SequenceCell(0)>>
           header == <<HeaderCell(psize[p], Current(p), FALSE), SequenceCell(0)>>
           wrapped == IF ppad[p] >= HeaderWords
                      THEN Overwrite(ring, Pos(Start(p)), wrap) ELSE ring
       IN  ring' = Overwrite(wrapped, RecordPos(p), header)
    /\ ppc' = [ppc EXCEPT ![p] = "payload"]
    /\ UNCHANGED <<psize, phead, ptail, ppad, sent, log, head_reserve,
                   head_publish, tail_reserve, tail_publish, sequence>>

\* Mutant of PushWritePayload: the payload is copied over the header.
PushWritePayload_OverHeader(p) ==
    /\ ppc[p] = "payload"
    /\ ring' = Overwrite(ring, RecordPos(p) + 1, Payload(Current(p), psize[p]))
    /\ ppc' = [ppc EXCEPT ![p] = "wait"]
    /\ UNCHANGED <<psize, phead, ptail, ppad, sent, log, head_reserve,
                   head_publish, tail_reserve, tail_publish, sequence>>

PushWritePayload(p) ==
    /\ ppc[p] = "payload"
    /\ ring' = Overwrite(ring, RecordPos(p) + HeaderWords,
                         Payload(Current(p), psize[p]))
    /\ ppc' = [ppc EXCEPT ![p] = "wait"]
    /\ UNCHANGED <<psize, phead, ptail, ppad, sent, log, head_reserve,
                   head_publish, tail_reserve, tail_publish, sequence>>

\* Mutant of PushTakeTurn: a producer does not wait for the earlier ones.
PushTakeTurn_NoWait(p) ==
    /\ ppc[p] = "wait"
    /\ sequence' = sequence + 1
    /\ ring' = Overwrite(ring, RecordPos(p) + 1, <<SequenceCell(sequence + 1)>>)
    /\ ppc' = [ppc EXCEPT ![p] = "publish"]
    /\ UNCHANGED <<psize, phead, ptail, ppad, sent, log, head_reserve,
                   head_publish, tail_reserve, tail_publish>>

\* Mutant of PushTakeTurn: publish_to where publish_at belongs.
PushTakeTurn_WrongEnd(p) ==
    /\ ppc[p] = "wait"
    /\ tail_publish = PublishTo(p)
    /\ sequence' = sequence + 1
    /\ ring' = Overwrite(ring, RecordPos(p) + 1, <<SequenceCell(sequence + 1)>>)
    /\ ppc' = [ppc EXCEPT ![p] = "publish"]
    /\ UNCHANGED <<psize, phead, ptail, ppad, sent, log, head_reserve,
                   head_publish, tail_reserve, tail_publish>>

\* The spin loop on tail_publish ends, and the record gets its number.
PushTakeTurn(p) ==
    /\ ppc[p] = "wait"
    /\ tail_publish = Start(p)
    /\ sequence' = sequence + 1
    /\ ring' = Overwrite(ring, RecordPos(p) + 1, <<SequenceCell(sequence + 1)>>)
    /\ ppc' = [ppc EXCEPT ![p] = "publish"]
    /\ UNCHANGED <<psize, phead, ptail, ppad, sent, log, head_reserve,
                   head_publish, tail_reserve, tail_publish>>

\* Mutant of PushPublish: the padding is left out of what is published.
PushPublish_ForgetsPadding(p) ==
    /\ ppc[p] = "publish"
    /\ tail_publish' = Start(p) + RecordWords(psize[p])
    /\ sent' = [sent EXCEPT ![p] = @ + 1]
    /\ log' = Append(log, Published(p))
    /\ Return(p)
    /\ UNCHANGED <<head_reserve, head_publish, tail_reserve, sequence, ring>>

\* try_push publishes the record and returns true.
PushPublish(p) ==
    /\ ppc[p] = "publish"
    /\ tail_publish' = PublishTo(p)
    /\ sent' = [sent EXCEPT ![p] = @ + 1]
    /\ log' = Append(log, Published(p))
    /\ Return(p)
    /\ UNCHANGED <<head_reserve, head_publish, tail_reserve, sequence, ring>>

\* The process of p dies: the mapping, and what it stored there, stay.
PushCrash(p) ==
    /\ p \in Crashable \ dead
    /\ dead' = dead \cup {p}
    /\ UNCHANGED <<producerVars, controlVars>>

\* The steps of a running call.
PushStep(p) ==
    \/ PushLoadHead(p) \/ PushLoadTail(p) \/ PushReject(p)
    \/ PushReserve(p) \/ PushRetry(p)
    \/ PushWriteHeader(p) \/ PushWritePayload(p)
    \/ PushTakeTurn(p) \/ PushPublish(p)

Push(p) ==
    \/ /\ p \notin dead
       /\ PushStep(p) \/ \E size \in Sizes : PushCall(p, size)
       /\ UNCHANGED dead
    \/ PushCrash(p)

-------------------------------------------------------------------------------
(***************************************************************************)
(* A producer owns the cursors [ptail, PublishTo) from its CAS until it    *)
(* publishes.                                                              *)
(***************************************************************************)
Holding == {"header", "payload", "wait", "publish"}

Cells ==
    [kind : {"zero"}]
    \cup [kind : {"header"}, size : Nat, type : Messages \cup {NoMessage},
          wrap : BOOLEAN]
    \cup [kind : {"sequence"}, value : Nat]
    \cup [kind : {"payload"}, msg : Messages, index : Nat]

Fitting == {size \in Nat : RecordWords(size) <= Capacity}

WriterTypeOK ==
    /\ head_reserve \in Nat /\ head_publish \in Nat
    /\ tail_reserve \in Nat /\ tail_publish \in Nat
    /\ sequence \in Nat
    /\ ring \in [Words -> Cells]
    /\ ppc \in [Producers -> Holding \cup {"idle", "load_head", "load_tail",
                                           "cas"}]
    /\ psize \in [Producers -> Fitting]
    /\ phead \in [Producers -> Nat]
    /\ ptail \in [Producers -> Nat]
    /\ ppad \in [Producers -> Nat]
    /\ dead \subseteq Crashable
    /\ sent \in [Producers -> Nat]
    /\ \A p \in Producers :
        sent[p] <= MaxPush /\ (ppc[p] # "idle" => sent[p] < MaxPush)
    /\ log \in Seq([msg : Messages, size : Fitting, at : Nat, pad : Nat])

-------------------------------------------------------------------------------
\* The reserved words that are not published yet are tiled by the calls that
\* hold them, without gap or overlap.  So exactly one of the producers that
\* spin on tail_publish has its turn.
Reservations ==
    /\ tail_publish <= tail_reserve
    /\ \A p \in Producers : ppc[p] \in Holding =>
        /\ tail_publish <= Start(p)
        /\ PublishTo(p) <= tail_reserve
        /\ ppc[p] = "publish" => tail_publish = Start(p)
    /\ \A p, q \in Producers :
        p # q /\ ppc[p] \in Holding /\ ppc[q] \in Holding =>
            PublishTo(p) <= Start(q) \/ PublishTo(q) <= Start(p)
    /\ \A c \in tail_publish..(tail_reserve - 1) :
        \E p \in Producers : /\ ppc[p] \in Holding
                             /\ Start(p) <= c
                             /\ c < PublishTo(p)

\* Words of the ring producer p is still going to write, the wrap record's
\* included.
OwnedWords(p) ==
    IF ppc[p] \in Holding
    THEN {Pos(c) : c \in Start(p)..(PublishTo(p) - 1)} ELSE {}

-------------------------------------------------------------------------------
(***************************************************************************)
(* The writers' inductive invariant: what lies where in the ring while     *)
(* calls are under way.  Records are located by cursor; the word of cursor *)
(* c is ring[Pos(c)].  The readers' part is head_publish, which only grows *)
(* and stays behind tail_publish.                                          *)
(***************************************************************************)
Word(c) == ring[Pos(c)]
WrapCell == HeaderCell(0, NoMessage, TRUE)

\* Cursor of a record's header, and the cursor after the record.
Base(r) == r.at + r.pad
End(r) == Base(r) + RecordWords(r.size)

\* The published records follow one another from cursor 0 to tail_publish,
\* each padded as its producer computed.  (Stated for every pair of records
\* as well, which is what counting and ordering them takes.)
Layout ==
    /\ log = <<>> => tail_publish = 0
    /\ log # <<>> => log[1].at = 0 /\ End(log[Len(log)]) = tail_publish
    /\ \A i \in 1..Len(log) :
        /\ log[i].pad = Padding(log[i].at, RecordWords(log[i].size))
        /\ i < Len(log) => log[i + 1].at = End(log[i])
    /\ \A i, j \in 1..Len(log) : i < j => End(log[i]) <= log[j].at
    /\ \A i, j \in 1..Len(log) :
        i <= j => End(log[j]) >= log[i].at + HeaderWords * (j - i + 1)

\* A producer's snapshots are old, never wrong: head_publish only grows, and
\* the room it computed is there when its compare_exchange_weak succeeds.
Snapshots ==
    /\ tail_reserve <= head_publish + Capacity
    /\ \A p \in Producers :
        /\ ppc[p] \in {"load_tail", "cas"} => phead[p] <= head_publish
        /\ ppc[p] \in Holding \cup {"cas"} =>
            ppad[p] = Padding(ptail[p], RecordWords(psize[p]))
        /\ ppc[p] = "cas" => PublishTo(p) <= phead[p] + Capacity

\* The words of a call under way, as far as it has come.
WritingOf(p) ==
    LET base == Start(p) + ppad[p] IN
    /\ ppc[p] \in {"payload", "wait", "publish"} =>
        /\ Word(base) = HeaderCell(psize[p], Current(p), FALSE)
        /\ ppad[p] >= HeaderWords => Word(Start(p)) = WrapCell
    /\ ppc[p] \in {"wait", "publish"} =>
        \A j \in 1..PayloadWords(psize[p]) :
            Word(base + 1 + j) = PayloadCell(Current(p), j)
    /\ ppc[p] = "publish" =>
        /\ Word(base + 1) = SequenceCell(Len(log) + 1)
        /\ sequence = Len(log) + 1

Writing ==
    /\ \A p \in Producers : WritingOf(p)
    /\ (\A p \in Producers : ppc[p] # "publish") => sequence = Len(log)

\* The i-th record published is in the ring, word for word.
Stored(i) ==
    /\ Word(Base(log[i])) = HeaderCell(log[i].size, log[i].msg, FALSE)
    /\ Word(Base(log[i]) + 1) = SequenceCell(i)
    /\ \A j \in 1..PayloadWords(log[i].size) :
        Word(Base(log[i]) + 1 + j) = PayloadCell(log[i].msg, j)

\* So are all whose words were not given back, and the wrap records.
Unread ==
    \A i \in 1..Len(log) :
        /\ head_publish <= Base(log[i]) => Stored(i)
        /\ log[i].pad >= HeaderWords /\ head_publish <= log[i].at =>
            Word(log[i].at) = WrapCell

\* The published bytes are the published messages, and the unpublished ones
\* are what the calls under way have written so far: every record sits where
\* the cursors of try_push and try_pop expect it.
WriterInv ==
    /\ Reservations
    /\ Layout
    /\ Snapshots
    /\ Writing
    /\ Unread
    /\ head_publish <= tail_publish

\* What is published is what calls of try_push returned true for: each such call
\* once, and the calls of one producer in the order it made them.
Accepted ==
    /\ \A i \in 1..Len(log) : log[i].msg[2] <= sent[log[i].msg[1]]
    /\ \A i, j \in 1..Len(log) :
        i < j /\ log[i].msg[1] = log[j].msg[1] => log[i].msg[2] < log[j].msg[2]
    /\ \A p \in Producers : \A k \in 1..sent[p] :
        \E i \in 1..Len(log) : log[i].msg = <<p, k>>

\* A record that try_pop handed out is the i-th one published.
Intact(record, i) ==
    /\ record.type = log[i].msg
    /\ record.sequence = SequenceCell(i)
    /\ record.payload = Payload(log[i].msg, log[i].size)

\* The records popped come from calls of try_push that returned true, each from a
\* call of its own and those of one producer in the order of its calls; and what
\* such a call pushed is popped, or still in the ring word for word.
EachPushOnce(records) ==
    /\ \A i \in 1..Len(records) : records[i].type[2] <= sent[records[i].type[1]]
    /\ \A i, j \in 1..Len(records) :
        i < j /\ records[i].type[1] = records[j].type[1] =>
            records[i].type[2] < records[j].type[2]
    /\ \A p \in Producers : \A k \in 1..sent[p] :
        \/ \E i \in 1..Len(records) : records[i].type = <<p, k>>
        \/ \E i \in 1..Len(log) :
            i > Len(records) /\ log[i].msg = <<p, k>> /\ Stored(i)

\* The reservation of a producer that died with one: nobody takes it over, and
\* tail_publish does not get past it.
KeepsPlace(p) ==
    /\ p \in dead' /\ ppc'[p] = ppc[p] /\ Start(p)' = Start(p)
    /\ tail_publish' <= Start(p)
===============================================================================
