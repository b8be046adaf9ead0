------------------------------ MODULE RingCells ------------------------------
(***************************************************************************)
(* The bytes of a variable-size ring, word by word, and the position of a  *)
(* cursor in them: what the MPSC, MPMC and SPSC rings have in common.      *)
(***************************************************************************)
EXTENDS RingLayout, Sequences

CONSTANT Capacity   \* mapping.capacity, in words

ASSUME CapacityAssumption == Capacity \in Nat /\ Capacity >= HeaderWords

Words == 0..(Capacity - 1)

(***************************************************************************)
(* The words of the ring.  A RecordHeader is two words: size, type and     *)
(* flags in the first, sequence in the second.  A fresh file reads zero.   *)
(***************************************************************************)
NoMessage == <<>>
ZeroCell == [kind |-> "zero"]
HeaderCell(size, type, wrap) ==
    [kind |-> "header", size |-> size, type |-> type, wrap |-> wrap]
SequenceCell(n) == [kind |-> "sequence", value |-> n]
PayloadCell(m, i) == [kind |-> "payload", msg |-> m, index |-> i]

\* The payload words of message m.
Payload(m, size) == [i \in 1..PayloadWords(size) |-> PayloadCell(m, i)]

\* A sequence of words stored from position `at` on.
Overwrite(mem, at, cells) ==
    [i \in Words |-> IF i - at + 1 \in 1..Len(cells) THEN cells[i - at + 1]
                                                    ELSE mem[i]]

Pos(cursor) == cursor % Capacity
Remaining(cursor) == Capacity - Pos(cursor)

\* Words skipped at the end of the ring when the record does not fit there.
Padding(tail, words) ==
    IF Remaining(tail) < HeaderWords \/ Remaining(tail) < words
    THEN Remaining(tail) ELSE 0
===============================================================================
