--------------------------- MODULE RingCellLemmas ---------------------------
(***************************************************************************)
(* Where records lie in a variable-size ring, and what a store into the    *)
(* ring changes: facts about RingCells, for any capacity.                  *)
(***************************************************************************)
EXTENDS RingCells, TLAPS

\* Time for the large leaves.
USE SMTT(30), ZenonT(30)

-------------------------------------------------------------------------------
(* Cursors that only grow, taken modulo the capacity of a ring. *)

\* Quotient and remainder, with their types.
LEMMA DivMod ==
    ASSUME NEW a \in Int, NEW C \in Nat \ {0}
    PROVE  /\ a % C \in 0..(C - 1)
           /\ a \div C \in Int
           /\ a = C * (a \div C) + (a % C)
  OBVIOUS

\* A positive multiple of C is at least C.
LEMMA MultipleTooLarge ==
    ASSUME NEW C \in Nat \ {0}, NEW q \in Int, q >= 1
    PROVE  C * q >= C
  OBVIOUS

\* Quotient and remainder are unique.
LEMMA UniqueRemainder ==
    ASSUME NEW C \in Nat \ {0}, NEW x \in 0..(C - 1), NEW y \in 0..(C - 1),
           NEW q \in Int, NEW r \in Int, C * q + x = C * r + y
    PROVE  x = y
  <1>1. C * (q - r) = y - x
    OBVIOUS
  <1>2. C * (r - q) = x - y
    OBVIOUS
  <1>3. ~ (q - r >= 1)
    BY <1>1, MultipleTooLarge
  <1>4. ~ (r - q >= 1)
    BY <1>2, MultipleTooLarge
  <1>5. q = r
    BY <1>3, <1>4
  <1> QED BY <1>1, <1>5

\* Two cursors less than a ring apart are in different places of the ring.
LEMMA ModInjective ==
    ASSUME NEW C \in Nat \ {0}, NEW c \in Nat, NEW d \in Nat,
           c - d < C, d - c < C, c % C = d % C
    PROVE  c = d
  <1> DEFINE q == c \div C
             r == d \div C
             m == c % C
  <1>1. /\ q \in Int /\ r \in Int /\ m \in 0..(C - 1)
        /\ c = C * q + m /\ d = C * r + m
    BY DivMod
  <1> HIDE DEF q, r, m
  <1>2. c - d = C * (q - r) /\ d - c = C * (r - q)
    BY <1>1
  <1>3. ~ (q - r >= 1)
    BY <1>1, <1>2, MultipleTooLarge
  <1>4. ~ (r - q >= 1)
    BY <1>1, <1>2, MultipleTooLarge
  <1>5. q = r
    BY <1>1, <1>3, <1>4
  <1> QED BY <1>1, <1>5

-------------------------------------------------------------------------------
(* The geometry of records. *)

\* A header is two words, and RecordWords rounds header and payload up to
\* whole words, as align_up does.
LEMMA RecordGeometry ==
    ASSUME NEW size \in Nat
    PROVE  /\ HeaderWords = 2
           /\ RecordWords(size) \in Nat
           /\ RecordWords(size) >= HeaderWords
           /\ PayloadWords(size) \in Nat
  BY DEF HeaderWords, RecordWords, PayloadWords, AlignUp, RecordHeaderBytes,
         kAlignment

\* Position and space left before the end of the ring, for any cursor.
LEMMA PosRange ==
    ASSUME NEW cursor \in Nat
    PROVE  /\ Pos(cursor) \in Words
           /\ Remaining(cursor) \in 1..Capacity
  <1>1. Capacity \in Nat /\ Capacity > 0
    BY CapacityAssumption, RecordGeometry
  <1>2. cursor % Capacity \in 0..(Capacity - 1)
    BY <1>1
  <1> QED BY <1>1, <1>2 DEF Pos, Remaining, Words

\* try_push pads by a number of words, never by the whole ring.
LEMMA PaddingType ==
    ASSUME NEW tail \in Nat, NEW words \in Nat
    PROVE  Padding(tail, words) \in Nat
  BY PosRange DEF Padding

-------------------------------------------------------------------------------
(* Cursors modulo the capacity. *)

\* The ring has room for a header.
LEMMA CapacityType == Capacity \in Nat \ {0} /\ Capacity >= 2
  BY CapacityAssumption, RecordGeometry

\* A cursor is a number of whole rings and a position.
LEMMA PosQuotient ==
    ASSUME NEW c \in Nat
    PROVE  /\ Pos(c) \in 0..(Capacity - 1)
           /\ \E q \in Int : c = Capacity * q + Pos(c)
  <1>1. /\ c % Capacity \in 0..(Capacity - 1)
        /\ c \div Capacity \in Int
        /\ c = Capacity * (c \div Capacity) + (c % Capacity)
    BY DivMod, CapacityType
  <1> QED BY <1>1 DEF Pos

\* Words after a position, up to the end of the ring.
LEMMA PosAdd ==
    ASSUME NEW c \in Nat, NEW j \in Nat, Pos(c) + j < Capacity
    PROVE  Pos(c + j) = Pos(c) + j
  <1> DEFINE d == c + j
             x == Pos(c) + j
  <1>1. PICK q \in Int : c = Capacity * q + Pos(c)
    BY PosQuotient
  <1>2. d \in Nat
    OBVIOUS
  <1>3. x \in 0..(Capacity - 1) /\ d = Capacity * q + x
    <2>1. Pos(c) \in 0..(Capacity - 1) /\ Capacity * q \in Int
      BY PosQuotient, CapacityType
    <2>2. x \in 0..(Capacity - 1)
      BY <2>1, CapacityType
    <2>3. d = Capacity * q + x
      BY <1>1, <2>1
    <2> QED BY <2>2, <2>3
  <1> HIDE DEF d, x
  <1>4. PICK r \in Int : d = Capacity * r + Pos(d)
    BY <1>2, PosQuotient
  <1>5. Pos(d) \in 0..(Capacity - 1)
    BY <1>2, PosQuotient
  <1>6. Pos(d) = x
    BY Zenon, <1>3, <1>4, <1>5, CapacityType, UniqueRemainder
  <1> QED BY <1>6 DEF d, x

\* The end of the ring is its beginning.
LEMMA PosWrap ==
    ASSUME NEW c \in Nat
    PROVE  Pos(c + Remaining(c)) = 0
  <1> DEFINE d == c + Remaining(c)
  <1>1. PICK q \in Int : c = Capacity * q + Pos(c)
    BY PosQuotient
  <1>2. d \in Nat
    BY PosQuotient, CapacityType DEF Remaining
  <1>3. d = Capacity * (q + 1) + 0
    BY <1>1, PosQuotient, CapacityType DEF Remaining
  <1> HIDE DEF d
  <1>4. PICK r \in Int : d = Capacity * r + Pos(d)
    BY <1>2, PosQuotient
  <1>5. Pos(d) \in 0..(Capacity - 1) /\ 0 \in 0..(Capacity - 1) /\ q + 1 \in Int
    BY <1>2, PosQuotient, CapacityType
  <1>6. Pos(d) = 0
    BY Zenon, <1>3, <1>4, <1>5, CapacityType, UniqueRemainder
  <1> QED BY <1>6 DEF d

\* Two cursors less than a ring apart have different words.
LEMMA PosInjective ==
    ASSUME NEW c \in Nat, NEW d \in Nat, c - d < Capacity, d - c < Capacity,
           Pos(c) = Pos(d)
    PROVE  c = d
  BY Zenon, ModInjective, CapacityType DEF Pos

-------------------------------------------------------------------------------
(* Where records lie, and what a store into one leaves alone. *)

\* A record padded the way try_push pads it lies in one piece before the end
\* of the ring; its padding, if any, reaches exactly to that end.
LEMMA RecordSpan ==
    ASSUME NEW at \in Nat, NEW words \in 2..Capacity, NEW pad \in Nat,
           pad = Padding(at, words)
    PROVE  /\ pad = 0 \/ pad = Remaining(at)
           /\ Pos(at + pad) = IF pad > 0 THEN 0 ELSE Pos(at)
           /\ Pos(at + pad) \in 0..(Capacity - 1)
           /\ Pos(at + pad) + words <= Capacity
           /\ Remaining(at + pad) >= words
           /\ \A j \in 0..(words - 1) : Pos(at + pad + j) = Pos(at + pad) + j
  <1>1. Remaining(at) \in 1..Capacity /\ Pos(at) \in 0..(Capacity - 1)
    BY PosRange, PosQuotient
  <1>2. pad = 0 \/ pad = Remaining(at)
    BY DEF Padding
  <1>3. Pos(at + pad) = IF pad > 0 THEN 0 ELSE Pos(at)
    BY <1>2, PosWrap
  <1>4. Pos(at + pad) + words <= Capacity
    <2>1. CASE pad > 0
      BY <2>1, <1>3, CapacityType
    <2>2. CASE pad = 0
      BY <2>2, <1>1, <1>3, CapacityType DEF Padding, Remaining
    <2> QED BY <2>1, <2>2
  <1>5. at + pad \in Nat /\ Pos(at + pad) \in 0..(Capacity - 1)
    BY PosQuotient
  <1>6. \A j \in 0..(words - 1) : Pos(at + pad + j) = Pos(at + pad) + j
    BY <1>4, <1>5, CapacityType, PosAdd
  <1> QED BY <1>2, <1>3, <1>4, <1>5, <1>6, CapacityType DEF Remaining

\* A store of several words at cursor b: the first word is there afterwards.
LEMMA StoreHitsFirst ==
    ASSUME NEW mem, NEW b \in Nat, NEW cells, Len(cells) \in Nat, Len(cells) > 0,
           Pos(b) + Len(cells) <= Capacity
    PROVE  Overwrite(mem, Pos(b), cells)[Pos(b)] = cells[1]
  <1>1. Pos(b) \in 0..(Capacity - 1)
    BY PosQuotient
  <1>2. Pos(b) \in Words /\ Pos(b) - Pos(b) + 1 = 1
    BY <1>1, CapacityType DEF Words
  <1> QED BY <1>2 DEF Overwrite

\* A store of several words at cursor b: each of them is there afterwards.
LEMMA StoreHits ==
    ASSUME NEW mem, NEW b \in Nat, NEW cells, Len(cells) \in Nat,
           Pos(b) + Len(cells) <= Capacity, NEW j \in 1..Len(cells)
    PROVE  Overwrite(mem, Pos(b), cells)[Pos(b + (j - 1))] = cells[j]
  <1> DEFINE k == j - 1
             a == Pos(b)
             n == Len(cells)
  <1>1. a \in 0..(Capacity - 1) /\ n \in Nat /\ a + n <= Capacity /\ j \in 1..n
    BY PosQuotient
  <1> HIDE DEF a, n
  <1>2. k \in Nat /\ a + k < Capacity /\ a + k \in Words /\ a + k - a + 1 = j
    BY <1>1, CapacityType DEF Words
  <1> HIDE DEF k
  <1>3. Pos(b + k) = a + k
    BY <1>2, PosAdd DEF a
  <1>4. Overwrite(mem, a, cells)[a + k] = cells[j]
    BY <1>1, <1>2 DEF Overwrite, n
  <1> QED BY <1>3, <1>4 DEF a, k

\* The store leaves every other word alone of a window no longer than the ring.
LEMMA StoreMisses ==
    ASSUME NEW mem, NEW b \in Nat, NEW cells, Len(cells) \in Nat,
           Pos(b) + Len(cells) <= Capacity,
           NEW low \in Nat, low <= b, b + Len(cells) <= low + Capacity,
           NEW c \in Nat, low <= c, c < low + Capacity,
           c < b \/ c >= b + Len(cells)
    PROVE  Overwrite(mem, Pos(b), cells)[Pos(c)] = mem[Pos(c)]
  <1>1. Pos(b) \in 0..(Capacity - 1) /\ Pos(c) \in 0..(Capacity - 1)
    BY PosQuotient
  <1>2. Pos(c) \in Words
    BY <1>1 DEF Words
  <1>3. ASSUME Pos(c) - Pos(b) + 1 \in 1..Len(cells) PROVE FALSE
    <2> DEFINE k == Pos(c) - Pos(b)
    <2>1. k \in Nat /\ k < Len(cells)
      BY <1>1, <1>3
    <2>2. Pos(b + k) = Pos(b) + k
      BY <1>1, <2>1, PosAdd, CapacityType
    <2>3. Pos(b + k) = Pos(c) /\ b + k \in Nat
      BY <1>1, <2>1, <2>2
    <2>4. c - (b + k) < Capacity /\ (b + k) - c < Capacity
      BY <2>1, CapacityType
    <2>5. c = b + k
      BY <2>3, <2>4, PosInjective
    <2> QED BY <2>1, <2>5
  <1> QED BY <1>2, <1>3 DEF Overwrite

\* Cursor c is one of a window no longer than the ring, and not one of the n from b.
Apart(low, b, n, c) ==
    /\ b \in Nat /\ n \in Nat /\ Pos(b) + n <= Capacity
    /\ low \in Nat /\ low <= b /\ b + n <= low + Capacity
    /\ c \in Nat /\ low <= c /\ c < low + Capacity
    /\ c < b \/ c >= b + n

\* The same for callers that have shown Apart.
LEMMA StoreApart ==
    ASSUME NEW mem, NEW low, NEW b, NEW cells, NEW c, Apart(low, b, Len(cells), c)
    PROVE  Overwrite(mem, Pos(b), cells)[Pos(c)] = mem[Pos(c)]
  BY StoreMisses DEF Apart

\* Storing words into the ring gives a ring.
LEMMA OverwriteType ==
    ASSUME NEW S, NEW mem \in [Words -> S], NEW at \in Nat, NEW cells \in Seq(S)
    PROVE  Overwrite(mem, at, cells) \in [Words -> S]
  <1> SUFFICES ASSUME NEW i \in Words,
                      i - at + 1 \in 1..Len(cells)
               PROVE  cells[i - at + 1] \in S
    BY DEF Overwrite
  <1> QED OBVIOUS

-------------------------------------------------------------------------------
(* Sequences: the words stored, and the logs of records. *)

\* Sequences of one and of two words.
LEMMA ShortSeqs ==
    ASSUME NEW S, NEW a \in S, NEW b \in S
    PROVE  <<a>> \in Seq(S) /\ <<a, b>> \in Seq(S)
  OBVIOUS

\* Length and elements of a sequence after Append.
LEMMA AppendFacts ==
    ASSUME NEW S, NEW s \in Seq(S), NEW e \in S
    PROVE  /\ Len(Append(s, e)) = Len(s) + 1
           /\ \A i \in 1..Len(s) : Append(s, e)[i] = s[i]
           /\ Append(s, e)[Len(s) + 1] = e
           /\ Append(s, e) # <<>>
  OBVIOUS

\* Appending the one record that try_pop returned.
LEMMA ConcatFacts ==
    ASSUME NEW S, NEW s \in Seq(S), NEW t \in Seq(S), Len(t) <= 1, t # <<>>
    PROVE  /\ Len(s \o t) = Len(s) + 1
           /\ \A i \in 1..Len(s) : (s \o t)[i] = s[i]
           /\ (s \o t)[Len(s) + 1] = t[1]
  <1>1. Len(t) \in Nat /\ Len(t) # 0 /\ Len(s) \in Nat
    OBVIOUS
  <1>2. \A n \in Nat : n # 0 /\ n <= 1 => n = 1
    OBVIOUS
  <1>3. Len(t) = 1
    BY Zenon, <1>1, <1>2
  <1>4. Len(s \o t) = Len(s) + Len(t)
    OBVIOUS
  <1>5. \A i \in 1..(Len(s) + Len(t)) :
            (s \o t)[i] = IF i <= Len(s) THEN s[i] ELSE t[i - Len(s)]
    OBVIOUS
  <1>6. ASSUME NEW i \in 1..Len(s) PROVE (s \o t)[i] = s[i]
    <2>1. i \in 1..(Len(s) + Len(t)) /\ i <= Len(s)
      BY <1>1
    <2> QED BY <1>5, <2>1
  <1>7. (s \o t)[Len(s) + 1] = t[1]
    <2>1. /\ Len(s) + 1 \in 1..(Len(s) + Len(t)) /\ ~ (Len(s) + 1 <= Len(s))
          /\ Len(s) + 1 - Len(s) = 1
      BY <1>1, <1>3
    <2> QED BY <1>5, <2>1
  <1> QED BY <1>3, <1>4, <1>6, <1>7

\* A sequence one longer than f that agrees with it is f with one appended.
LEMMA AppendFunction ==
    ASSUME NEW S, NEW n \in Nat, NEW f \in [1..n -> S], NEW e,
           NEW g \in [1..(n + 1) -> S], \A i \in 1..n : g[i] = f[i], g[n + 1] = e
    PROVE  Len(f) = n /\ g = Append(f, e)
  <1>1. n + 1 \in Nat /\ n + 1 \in 1..(n + 1)
    OBVIOUS
  <1>2. e \in S
    BY <1>1
  <1>3. f \in Seq(S) /\ Len(f) = n
    OBVIOUS
  <1>4. g \in Seq(S) /\ Len(g) = n + 1
    BY <1>1
  <1>5. /\ Append(f, e) \in Seq(S) /\ Len(Append(f, e)) = n + 1
        /\ \A i \in 1..n : Append(f, e)[i] = f[i]
        /\ Append(f, e)[n + 1] = e
    BY <1>2, <1>3
  <1>6. ASSUME NEW i \in 1..(n + 1) PROVE g[i] = Append(f, e)[i]
    <2>1. i \in 1..n \/ i = n + 1
      OBVIOUS
    <2> QED BY <1>5, <2>1
  <1>7. g = Append(f, e)
    BY <1>4, <1>5, <1>6
  <1> QED BY <1>3, <1>7
===============================================================================
