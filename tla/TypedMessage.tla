----------------------------- MODULE TypedMessage -----------------------------
(***************************************************************************)
(* Typed messages over a byte ring (typed_message.hpp): the codecs, the    *)
(* writer, and the reader with the buffer it reuses for every message.     *)
(* The ring is the queue that the ring modules show it to be.              *)
(*                                                                         *)
(* A value is a sequence of elements, each a sequence of bytes: one of     *)
(* sizeof(T) bytes for a trivially copyable T, one byte each for the       *)
(* characters of a string.  A byte is named by its message, element and    *)
(* place there.                                                            *)
(***************************************************************************)
EXTENDS Integers, Sequences

CONSTANTS
    FixedBytes,     \* sizeof(T) of the trivially copyable type
    ElementBytes,   \* sizeof(T) of the elements of vectors
    Lengths,        \* lengths of strings, vectors and raw payloads
    Slots,          \* bound: messages in the ring
    MaxSend         \* bound: messages ever sent

ASSUME BytesAssumption == {FixedBytes, ElementBytes} \subseteq Nat \ {0}
ASSUME LengthsAssumption == Lengths \subseteq Nat /\ {Slots, MaxSend} \subseteq Nat

VARIABLES
    ring,      \* messages in the ring: type, payload; and what was pushed
    sent,      \* history: number of messages pushed, the ring's sequence
    buffer,    \* buffer_
    longest,   \* history: bytes of the longest payload popped before the last one
    last       \* history: the last call of the reader: T, message, result and out

typedVars == <<ring, sent, buffer, longest, last>>

Kinds == {"fixed", "string", "vector"}
Sizeof == [fixed |-> FixedBytes, string |-> 1, vector |-> ElementBytes]
NoMessage == [type |-> "none", payload |-> <<>>, typed |-> FALSE, value |-> <<>>]

TypedInit ==
    /\ ring = <<>> /\ sent = 0 /\ buffer = <<>> /\ longest = 0
    /\ last = [kind |-> "none", msg |-> NoMessage, ok |-> FALSE, out |-> <<>>]

-------------------------------------------------------------------------------
(* MessageCodec *)

\* encode copies the memory of the value, one element after the other.
Encode(kind, v) ==
    [i \in 1..(Len(v) * Sizeof[kind]) |->
        v[((i - 1) \div Sizeof[kind]) + 1][((i - 1) % Sizeof[kind]) + 1]]

\* decode returns true: every length is one of a string.
Decodable(kind, p) ==
    /\ Len(p) % Sizeof[kind] = 0
    /\ kind = "fixed" => Len(p) = FixedBytes

\* Mutant of Decode: the last element is forgotten.
Decode_OneTooFew(kind, p) ==
    [k \in 1..((Len(p) - 1) \div Sizeof[kind]) |->
        [i \in 1..Sizeof[kind] |-> p[(k - 1) * Sizeof[kind] + i]]]

Decode(kind, p) ==
    [k \in 1..(Len(p) \div Sizeof[kind]) |->
        [i \in 1..Sizeof[kind] |-> p[(k - 1) * Sizeof[kind] + i]]]

-------------------------------------------------------------------------------
(* The writer.  Every T has a type of its own, its kind. *)

\* The values of T that message n may carry.
ValuesOf(kind, n) ==
    {[k \in 1..len |-> [i \in 1..Sizeof[kind] |-> <<n, k, i>>]] :
        len \in IF kind = "fixed" THEN {1} ELSE Lengths}

Send(msg) ==
    /\ sent < MaxSend
    /\ Len(ring) < Slots
    /\ ring' = Append(ring, msg)
    /\ sent' = sent + 1
    /\ UNCHANGED <<buffer, longest, last>>

\* try_push of a T, try_push_typed.
PushTyped(kind) ==
    \E v \in ValuesOf(kind, sent + 1) :
        Send([type |-> kind, payload |-> Encode(kind, v), typed |-> TRUE, value |-> v])

\* try_push_bytes.
PushBytes(type) ==
    \E len \in Lengths :
        Send([type |-> type, payload |-> [i \in 1..len |-> <<sent + 1, 0, i>>],
              typed |-> FALSE, value |-> <<>>])

-------------------------------------------------------------------------------
(* The reader *)

Longest == IF Len(last.msg.payload) > longest THEN Len(last.msg.payload) ELSE longest

\* Mutant of Popped: the buffer keeps its old front.
Popped_KeepsFront(p) == buffer \o SubSeq(p, Len(buffer) + 1, Len(p))

\* The ring's try_pop copies the payload to the front of the buffer, which it
\* makes longer when necessary and never shorter.
Popped(p) == p \o SubSeq(buffer, Len(p) + 1, Len(buffer))

\* try_pop, for a view of the whole buffer.
PopView ==
    /\ ring # <<>>
    /\ buffer' = Popped(Head(ring).payload)
    /\ longest' = Longest
    /\ last' = [kind |-> "view", msg |-> Head(ring), ok |-> TRUE, out |-> buffer']
    /\ ring' = Tail(ring)
    /\ UNCHANGED sent

\* try_pop_typed and try_pop of a T: a message of another type, or one that does
\* not decode, is gone.
PopTyped(kind) ==
    /\ ring # <<>>
    /\ buffer' = Popped(Head(ring).payload)
    /\ longest' = Longest
    /\ LET ok == Head(ring).type = kind /\ Decodable(kind, buffer')
       IN  last' = [kind |-> kind, msg |-> Head(ring), ok |-> ok,
                    out |-> IF ok THEN Decode(kind, buffer') ELSE <<>>]
    /\ ring' = Tail(ring)
    /\ UNCHANGED sent

TypedNext ==
    \/ \E kind \in Kinds : PushTyped(kind) \/ PushBytes(kind) \/ PopTyped(kind)
    \/ PopView

TypedSpec == TypedInit /\ [][TypedNext]_typedVars

-------------------------------------------------------------------------------
\* The last call asked for the type that a typed push sent.
Matched == last.kind \in Kinds /\ last.msg.typed /\ last.msg.type = last.kind

\* What a successful typed pop returns begins with the value that was pushed: bytes
\* of earlier messages in the reused buffer only ever follow it, and never get into
\* a T of fixed size.
ValueComesFirst ==
    Matched /\ last.ok =>
        /\ Len(last.msg.value) <= Len(last.out)
        /\ \A k \in 1..Len(last.msg.value) : last.out[k] = last.msg.value[k]
        /\ last.kind = "fixed" => last.out = last.msg.value

\* A typed pop of a typed push returns exactly the value, unless the reader met a
\* longer payload before; raw bytes in between make no difference.
ExactUnlessLonger ==
    Matched /\ longest <= Len(last.msg.payload) => last.ok /\ last.out = last.msg.value

Byte == Nat \X Nat \X Nat
Carries(m) ==
    /\ \A k \in 1..Len(m.value) : Len(m.value[k]) = Sizeof[m.type]
    /\ m.type = "fixed" => Len(m.value) = 1
    /\ m.payload = Encode(m.type, m.value)
Messages ==
    {m \in [type : Kinds, payload : Seq(Byte), typed : BOOLEAN, value : Seq(Seq(Byte))] :
        m.typed => Carries(m)}

\* The inductive invariant behind both: the buffer is as long as the longest payload,
\* starts with the last one, and is what the last call decoded.
TypedInv ==
    /\ ring \in Seq(Messages) /\ sent \in Nat /\ longest \in Nat
    /\ buffer \in Seq(Byte) /\ Len(buffer) = Longest
    /\ last.msg.payload \in Seq(Byte)
    /\ \A i \in 1..Len(last.msg.payload) : buffer[i] = last.msg.payload[i]
    /\ last.kind \in Kinds =>
        /\ last.msg \in Messages
        /\ last.ok <=> last.msg.type = last.kind /\ Decodable(last.kind, buffer)
        /\ last.ok => last.out = Decode(last.kind, buffer)

\* "ASSERT_EQ(out, payload)" (tests/test_typed_message.cpp:93), of any reader.
RoundTrip == Matched => last.ok /\ last.out = last.msg.value
===============================================================================
