------------------------------ MODULE RingLayout ------------------------------
(***************************************************************************)
(* Record geometry shared by the variable-size rings (ring_layout.hpp).    *)
(*                                                                         *)
(* create_mapping rounds the capacity up to kAlignment, every record_size  *)
(* is a multiple of kAlignment and the cursors start at 0, so every cursor *)
(* and every position in the ring is a whole number of 8-byte words.  The  *)
(* ring modules count capacity, cursors and positions in such words;       *)
(* payload sizes stay in bytes and go through align_up.                    *)
(***************************************************************************)
EXTENDS Integers

kAlignment == 8

\* sizeof(RecordHeader), which ring_layout.hpp pins with a static_assert.
RecordHeaderBytes == 16

\* align_up for the power-of-two alignments it is called with.
AlignUp(value, alignment) ==
    ((value + alignment - 1) \div alignment) * alignment

HeaderWords == RecordHeaderBytes \div kAlignment

\* Words a record with a payload of size bytes takes, header included.
RecordWords(size) ==
    AlignUp(RecordHeaderBytes + size, kAlignment) \div kAlignment

PayloadWords(size) == RecordWords(size) - HeaderWords

(***************************************************************************)
(* uint64_t subtraction of two cursors.  Cursors count the words that ever *)
(* went through the ring and are taken to stay below 2^64, but the         *)
(* difference of two of them read at different moments can be negative,    *)
(* and then wraps to a number larger than any capacity.                    *)
(***************************************************************************)
Sub64(a, b, U64) == IF a >= b THEN a - b ELSE U64 + a - b
===============================================================================
