--------------------------- MODULE RwStateProofs ---------------------------
(***************************************************************************)
(* The arithmetic of the positions, for every capacity: what the two       *)
(* increments do to order, to the elements stored, to the room and data    *)
(* the other side sees, and to the distance of each cell.                  *)
(***************************************************************************)
EXTENDS RwState, TLAPS

(* How far cell c lies behind the reader's position, going round the ring.   *)
(* The cells in use are those at a distance less than Stored.                *)
Dist(s, c) == IF c >= s.r THEN c - s.r ELSE Capacity - s.r + c

(* Reduction modulo the capacity is a single subtraction for every index the *)
(* code reduces.                                                             *)
LEMMA Wrap ==
  ASSUME NEW x \in 0 .. 2 * Capacity - 1
  PROVE  x % Capacity = IF x < Capacity THEN x ELSE x - Capacity
  BY CapacityAssumption, SMTT(30)

(* try_inc_writer_pos leaves an amount of at most the capacity as it is.     *)
LEMMA AmountKept ==
  ASSUME NEW n \in 0 .. Capacity
  PROVE  WriterAmount(n) = n
  BY CapacityAssumption, SMTT(30) DEF WriterAmount

(* The word of a new buffer is well formed.                                  *)
LEMMA EmptyIsWord == EmptyWord \in Words /\ Ordered(EmptyWord)
  BY CapacityAssumption DEF EmptyWord, Words, Index, Ordered

(* A well-ordered word accounts for every cell, and when it has room or data *)
(* at all, some of it is contiguous.                                         *)
LEMMA WordFacts ==
  ASSUME NEW s \in Words, Ordered(s)
  PROVE  /\ Stored(s) \in 0 .. Capacity
         /\ Free(s) = Capacity - Stored(s)
         /\ Readable(s) \in 0 .. Stored(s)
         /\ Writable(s) \in 0 .. Free(s)
         /\ s.r + Readable(s) <= Capacity
         /\ s.w + Writable(s) <= Capacity
         /\ Free(s) > 0 => Writable(s) > 0
         /\ Stored(s) > 0 => Readable(s) > 0
<1>1. s.r \in 0 .. Capacity - 1 /\ s.w \in 0 .. Capacity - 1
  BY DEF Words, Index
<1>2. CASE s.invert
  BY <1>1, <1>2, CapacityAssumption
  DEF Ordered, Stored, Free, Readable, Writable
<1>3. CASE ~s.invert
  BY <1>1, <1>3, CapacityAssumption
  DEF Ordered, Stored, Free, Readable, Writable
<1>4. QED
  BY <1>2, <1>3

(* The cells of the two contiguous regions, by their distance.               *)
LEMMA Regions ==
  ASSUME NEW s \in Words, Ordered(s), NEW i \in Nat
  PROVE  /\ i < Readable(s) => /\ s.r + i \in Index
                               /\ Dist(s, s.r + i) = i
         /\ i < Writable(s) => /\ s.w + i \in Index
                               /\ Dist(s, s.w + i) = Stored(s) + i
  BY CapacityAssumption
  DEF Words, Index, Ordered, Stored, Readable, Writable, Dist

(* Moving the writer's position by n contiguous free cells adds n elements:  *)
(* the cells in use keep their distance, and the new ones are exactly those. *)
LEMMA WriterMoves ==
  ASSUME NEW s \in Words, Ordered(s), NEW n \in 1 .. Writable(s)
  PROVE  /\ WriterMoved(s, n) \in Words
         /\ Ordered(WriterMoved(s, n))
         /\ Stored(WriterMoved(s, n)) = Stored(s) + n
         /\ WriterMoved(s, n).r = s.r
         /\ Readable(s) <= Readable(WriterMoved(s, n))
<1> DEFINE t == WriterMoved(s, n)
<1>1. n \in 0 .. Capacity /\ n <= Free(s) /\ Free(s) \in Nat
  BY WordFacts, CapacityAssumption
<1>2. WriterDelta(s, n) = n
  BY <1>1, AmountKept DEF WriterDelta, MinOf
<1>3. CASE s.invert
  <2>1. t = [r |-> s.r, w |-> s.w + n, invert |-> TRUE]
    BY <1>2, <1>3 DEF WriterMoved
  <2>2. QED
    BY <2>1, <1>3, CapacityAssumption
    DEF Words, Index, Ordered, Stored, Readable, Writable
<1>4. CASE ~s.invert
  <2> DEFINE w_new == (s.w + n) % Capacity
  <2>1. w_new = IF s.w + n < Capacity THEN s.w + n ELSE s.w + n - Capacity
    BY <1>4, Wrap, CapacityAssumption DEF Words, Index, Writable
  <2>2. t = [r |-> s.r, w |-> w_new,
             invert |-> n > 0 /\ (w_new < s.r \/ w_new <= s.w)]
    BY <1>2, <1>4 DEF WriterMoved
  <2>3. CASE s.w + n < Capacity
    BY <2>1, <2>2, <2>3, <1>4, CapacityAssumption
    DEF Words, Index, Ordered, Stored, Readable, Writable
  <2>4. CASE s.w + n = Capacity
    <3>1. t = [r |-> s.r, w |-> 0, invert |-> TRUE]
      <4>1. w_new = 0 /\ n > 0 /\ s.w >= 0
        BY <2>1, <2>4, <1>1, CapacityAssumption DEF Words, Index
      <4>2. (n > 0 /\ (w_new < s.r \/ w_new <= s.w)) = TRUE
        BY <4>1
      <4>3. QED
        BY <4>1, <4>2, <2>2, Zenon
    <3>2. QED
      BY <3>1, <2>4, <1>4, CapacityAssumption
      DEF Words, Index, Ordered, Stored, Readable, Writable
  <2>5. QED
    BY <2>3, <2>4, <1>4, CapacityAssumption DEF Words, Index, Writable
<1>5. QED
  BY <1>3, <1>4

(* Moving the reader's position by n contiguous cells in use releases n      *)
(* elements: the others come n closer.                                       *)
LEMMA ReaderMoves ==
  ASSUME NEW s \in Words, Ordered(s), NEW n \in 1 .. Readable(s)
  PROVE  /\ ReaderMoved(s, n) \in Words
         /\ Ordered(ReaderMoved(s, n))
         /\ Stored(ReaderMoved(s, n)) = Stored(s) - n
         /\ ReaderMoved(s, n).w = s.w
         /\ Writable(s) <= Writable(ReaderMoved(s, n))
         /\ \A c \in Index :
              Dist(ReaderMoved(s, n), c) < Stored(ReaderMoved(s, n))
                => Dist(s, c) = Dist(ReaderMoved(s, n), c) + n
<1> DEFINE t == ReaderMoved(s, n)
<1>1. n \in Nat /\ n <= Stored(s) /\ Stored(s) \in Nat
  BY WordFacts, CapacityAssumption
<1>2. ReaderDelta(s, n) = n
  BY <1>1 DEF ReaderDelta, MinOf
<1>3. CASE ~s.invert
  <2>1. t = [r |-> s.r + n, w |-> s.w, invert |-> FALSE]
    BY <1>2, <1>3 DEF ReaderMoved
  <2>2. QED
    BY <2>1, <1>3, CapacityAssumption
    DEF Words, Index, Ordered, Stored, Readable, Writable, Dist
<1>4. CASE s.invert
  <2> DEFINE r_new == (s.r + n) % Capacity
  <2>1. r_new = IF s.r + n < Capacity THEN s.r + n ELSE s.r + n - Capacity
    BY <1>4, Wrap, CapacityAssumption DEF Words, Index, Readable
  <2>2. t = [r |-> r_new, w |-> s.w,
             invert |-> ~(r_new <= s.w \/ r_new <= s.r)]
    BY <1>2, <1>4 DEF ReaderMoved
  <2>3. CASE s.r + n < Capacity
    BY <2>1, <2>2, <2>3, <1>4, CapacityAssumption
    DEF Words, Index, Ordered, Stored, Readable, Writable, Dist
  <2>4. CASE s.r + n = Capacity
    <3>1. t = [r |-> 0, w |-> s.w, invert |-> FALSE]
      <4>1. r_new = 0 /\ s.w >= 0
        BY <2>1, <2>4, <1>1, CapacityAssumption DEF Words, Index
      <4>2. (~(r_new <= s.w \/ r_new <= s.r)) = FALSE
        BY <4>1
      <4>3. QED
        BY <4>1, <4>2, <2>2, Zenon
    <3>2. QED
      BY <3>1, <2>4, <1>4, CapacityAssumption
      DEF Words, Index, Ordered, Stored, Readable, Writable, Dist
  <2>5. QED
    BY <2>3, <2>4, <1>4, CapacityAssumption DEF Words, Index, Readable
<1>5. QED
  BY <1>3, <1>4

(* Whatever a reader claims to have read, its position moves past what is    *)
(* stored at most: the word stays in order and the writer loses no room.     *)
LEMMA AnyReaderMoves ==
  ASSUME NEW s \in Words, Ordered(s), Stored(s) > 0, NEW n \in Nat \ {0}
  PROVE  /\ ReaderMoved(s, n) \in Words
         /\ Ordered(ReaderMoved(s, n))
         /\ ReaderMoved(s, n).w = s.w
         /\ Writable(s) <= Writable(ReaderMoved(s, n))
<1> DEFINE d == ReaderDelta(s, n)
<1>1. d \in 1 .. Stored(s) /\ Stored(s) \in 0 .. Capacity
  BY WordFacts, CapacityAssumption DEF ReaderDelta, MinOf
<1> HIDE DEF d
<1>2. CASE ~s.invert
  <2>1. ReaderMoved(s, n) = [r |-> s.r + d, w |-> s.w, invert |-> FALSE]
    BY <1>2 DEF ReaderMoved, d
  <2>2. QED
    BY <2>1, <1>1, <1>2, CapacityAssumption
    DEF Words, Index, Ordered, Stored, Writable
<1>3. CASE s.invert
  <2> DEFINE r_new == (s.r + d) % Capacity
  <2>1. r_new = IF s.r + d < Capacity THEN s.r + d ELSE s.r + d - Capacity
    BY <1>1, <1>3, Wrap, CapacityAssumption DEF Words, Index, Stored, Ordered
  <2>2. ReaderMoved(s, n) = [r |-> r_new, w |-> s.w,
                             invert |-> ~(r_new <= s.w \/ r_new <= s.r)]
    BY <1>3 DEF ReaderMoved, d
  <2> HIDE DEF r_new
  <2>3. CASE s.r + d < Capacity
    BY <2>1, <2>2, <2>3, <1>1, <1>3, CapacityAssumption
    DEF Words, Index, Ordered, Stored, Writable
  <2>4. CASE s.r + d >= Capacity
    <3>1. r_new \in Index /\ r_new <= s.w
      BY <2>1, <2>4, <1>1, <1>3, CapacityAssumption
      DEF Words, Index, Ordered, Stored
    <3>2. ReaderMoved(s, n) = [r |-> r_new, w |-> s.w, invert |-> FALSE]
      BY <2>2, <3>1
    <3>3. QED
      BY <3>1, <3>2, <1>3, CapacityAssumption
      DEF Words, Index, Ordered, Stored, Writable
  <2>5. QED
    BY <2>3, <2>4, <1>1, CapacityAssumption DEF Words, Index
<1>4. QED
  BY <1>2, <1>3

(* A cell at one of the distances of the contiguous free region is the cell  *)
(* of that region.                                                           *)
LEMMA FreeCell ==
  ASSUME NEW s \in Words, Ordered(s), NEW c \in Index,
         Stored(s) <= Dist(s, c), Dist(s, c) < Stored(s) + Writable(s)
  PROVE  c = s.w + (Dist(s, c) - Stored(s))
  BY CapacityAssumption
  DEF Words, Index, Ordered, Stored, Writable, Dist
=============================================================================
