---------------------------- MODULE RwWordProofs ----------------------------
(***************************************************************************)
(* The position word keeps its fields apart, for every width of the word,  *)
(* every buffer and any number of printing threads.                        *)
(***************************************************************************)
EXTENDS RwWord, TLAPS

-----------------------------------------------------------------------------
(* The layout of the word *)

(* What the constants of `RwState` come to: two fields of equal size below   *)
(* the two flags.                                                            *)
Layout ==
  /\ BuffSizeMod \in Nat /\ BuffSizeMod > 1
  /\ IoBusyFlag = BuffSizeMod * BuffSizeMod
  /\ InvertFlag = 2 * IoBusyFlag
  /\ DMax = 2 * InvertFlag - 1

(* It is so for words of up to 32 bits.  The prover computes powers of two   *)
(* in floating point, and cannot tell for 64.                                *)
LEMMA NarrowLayout ==
  ASSUME Bits \in {8, 16, 32}
  PROVE  Layout
<1>1. CASE Bits = 8
  <2>1. /\ BuffSizeMod = 8 /\ IoBusyFlag = 64
        /\ InvertFlag = 128 /\ DMax = 255
    BY <1>1 DEF BuffSizeMod, MaxSizeBits, IoBusyFlag, InvertFlag, DMax
  <2>2. QED
    BY <2>1 DEF Layout
<1>2. CASE Bits = 16
  <2>1. /\ BuffSizeMod = 128 /\ IoBusyFlag = 16384
        /\ InvertFlag = 32768 /\ DMax = 65535
    BY <1>2 DEF BuffSizeMod, MaxSizeBits, IoBusyFlag, InvertFlag, DMax
  <2>2. QED
    BY <2>1 DEF Layout
<1>3. CASE Bits = 32
  <2>1. /\ BuffSizeMod = 32768 /\ IoBusyFlag = 1073741824
        /\ InvertFlag = 2147483648 /\ DMax = 4294967295
    BY <1>3 DEF BuffSizeMod, MaxSizeBits, IoBusyFlag, InvertFlag, DMax
  <2>2. QED
    BY <2>1 DEF Layout
<1>4. QED
  BY <1>1, <1>2, <1>3

Flag(set, flag) == IF set THEN flag ELSE 0

(* The word made of two positions and two flags, and the fields as module    *)
(* RwState has them.                                                         *)
Joined(r, w, invert, busy) ==
  w + r * BuffSizeMod + Flag(busy, IoBusyFlag) + Flag(invert, InvertFlag)

Fields(r, w, invert) == [r |-> r, w |-> w, invert |-> invert]

(* A flag that is clear; the solver takes a variable for a flag, but not the *)
(* constant beside it.                                                       *)
Clear == FALSE

(* Quotient and remainder are what they have to be.                          *)
LEMMA Division ==
  ASSUME NEW n \in Nat, NEW q \in Nat,
         NEW d \in Nat \ {0}, NEW m \in 0 .. d - 1,
         n = q * d + m
  PROVE  n \div d = q /\ n % d = m
  OBVIOUS

(* The loads find what was joined.                                           *)
LEMMA Loads ==
  ASSUME Layout, NEW r \in 0 .. PosMax, NEW w \in 0 .. PosMax,
         NEW invert \in BOOLEAN, NEW busy \in BOOLEAN
  PROVE  LET v == Joined(r, w, invert, busy)
         IN  /\ v \in 0 .. DMax
             /\ LoadWriterPos(v) = w /\ LoadReaderPos(v) = r
             /\ ExpectInvert(v) = invert /\ ExpectIoBusy(v) = busy
<1> DEFINE v == Joined(r, w, invert, busy)
           B == BuffSizeMod
           b == IF busy THEN 1 ELSE 0
           i == IF invert THEN 1 ELSE 0
<1>1. /\ B \in Nat /\ B > 1 /\ B * B \in Nat /\ B * B > 0
      /\ b \in 0 .. 1 /\ i \in 0 .. 1
      /\ r \in 0 .. B - 1 /\ w \in 0 .. B - 1
  BY DEF Layout, PosMax
<1>2. v = w + r * B + b * (B * B) + i * (2 * (B * B))
  BY <1>1 DEF Joined, Flag, Layout
<1> HIDE DEF v, b, i
<1>3. v = ((b + 2 * i) * B + r) * B + w
  <2>1. CASE b = 0
    BY <1>1, <1>2, <2>1
  <2>2. CASE b = 1
    BY <1>1, <1>2, <2>2
  <2>3. QED
    BY <1>1, <2>1, <2>2
<1>4. r * B + w \in 0 .. B * B - 1
  BY <1>1
<1>5. v \in Nat
  BY <1>1, <1>3
<1>6. v % B = w /\ v \div B = (b + 2 * i) * B + r
  <2>1. PICK q \in Nat : q = (b + 2 * i) * B + r
    BY <1>1
  <2>2. v = q * B + w
    BY <1>3, <2>1
  <2>3. PICK d \in Nat \ {0} : d = B
    BY <1>1
  <2>4. v = q * d + w /\ w \in 0 .. d - 1
    BY <1>1, <2>2, <2>3
  <2>5. v \div d = q /\ v % d = w
    BY <1>5, <2>4, Division
  <2>6. QED
    BY <2>1, <2>3, <2>5
<1>7. ((b + 2 * i) * B + r) % B = r
  <2>1. PICK q \in Nat : q = b + 2 * i
    BY <1>1
  <2>2. PICK n \in Nat : n = q * B + r
    BY <1>1
  <2>3. PICK d \in Nat \ {0} : d = B
    BY <1>1
  <2>4. n = q * d + r /\ r \in 0 .. d - 1
    BY <1>1, <2>2, <2>3
  <2>5. n % d = r
    BY <2>4, Division
  <2>6. QED
    BY <2>1, <2>2, <2>3, <2>5
<1>8. v \div (B * B) = b + 2 * i
  <2>1. PICK q \in Nat : q = b + 2 * i
    BY <1>1
  <2>2. PICK d \in Nat \ {0} : d = B * B
    BY <1>1
  <2>a. PICK m \in 0 .. d - 1 : m = r * B + w
    BY <1>4, <2>2
  <2>3. v = q * d + m
    <3>1. CASE b = 0 /\ i = 0
      BY <1>1, <1>2, <2>1, <2>2, <2>a, <3>1
    <3>2. CASE b = 0 /\ i = 1
      BY <1>1, <1>2, <2>1, <2>2, <2>a, <3>2
    <3>3. CASE b = 1 /\ i = 0
      BY <1>1, <1>2, <2>1, <2>2, <2>a, <3>3
    <3>4. CASE b = 1 /\ i = 1
      BY <1>1, <1>2, <2>1, <2>2, <2>a, <3>4
    <3>5. QED
      BY <1>1, <3>1, <3>2, <3>3, <3>4
  <2>4. v \div d = q
    BY <1>5, <2>3, Division
  <2>5. QED
    BY <2>1, <2>2, <2>4
<1>9. v \div (2 * (B * B)) = i
  <2>1. PICK d \in Nat \ {0} : d = 2 * (B * B)
    BY <1>1
  <2>a. PICK m \in 0 .. d - 1 : m = w + r * B + b * (B * B)
    <3>1. CASE b = 0
      BY <1>1, <1>4, <2>1, <3>1
    <3>2. CASE b = 1
      BY <1>1, <1>4, <2>1, <3>2
    <3>3. QED
      BY <1>1, <3>1, <3>2
  <2>2. v = i * d + m
    BY <1>1, <1>2, <2>1, <2>a
  <2>3. v \div d = i
    <3>1. i \in Nat
      BY <1>1
    <3>2. QED
      BY <1>5, <2>2, <3>1, Division
  <2>4. QED
    BY <2>1, <2>3
<1>10. (b + 2 * i) % 2 = b /\ i % 2 = i
  BY <1>1
<1>11. v \in 0 .. DMax
  BY <1>1, <1>2, <1>4, <1>5 DEF Layout
<1>12. LoadWriterPos(v) = w /\ LoadReaderPos(v) = r
  BY <1>6, <1>7 DEF LoadWriterPos, LoadReaderPos
<1>13. ExpectIoBusy(v) = busy
  BY <1>8, <1>10 DEF b, ExpectIoBusy, HasFlag, Layout
<1>14. ExpectInvert(v) = invert
  BY <1>9, <1>10 DEF i, ExpectInvert, HasFlag, Layout
<1>15. QED
  BY <1>11, <1>12, <1>13, <1>14 DEF v

(* A store changes its own field or flag and no other: first the writer's    *)
(* position.                                                                 *)
LEMMA StoresWriter ==
  ASSUME Layout, NEW r \in 0 .. PosMax, NEW w \in 0 .. PosMax,
         NEW invert \in BOOLEAN, NEW busy \in BOOLEAN, NEW pos \in 0 .. PosMax
  PROVE  StoreWriterPos(Joined(r, w, invert, busy), pos)
           = Joined(r, pos, invert, busy)
<1> DEFINE v == Joined(r, w, invert, busy)
           io == Flag(busy, IoBusyFlag)
           inv == Flag(invert, InvertFlag)
<1>1. LoadWriterPos(v) = w
  BY Loads
<1>2. /\ r * BuffSizeMod \in Nat /\ io \in Nat /\ inv \in Nat
      /\ w \in Nat /\ pos \in Nat
  BY DEF Layout, Flag, PosMax
<1>3. v = w + r * BuffSizeMod + io + inv
  BY DEF Joined
<1>4. Joined(r, pos, invert, busy) = pos + r * BuffSizeMod + io + inv
  BY DEF Joined
<1> HIDE DEF v, io, inv
<1>5. StoreWriterPos(v, pos) = Joined(r, pos, invert, busy)
  BY <1>1, <1>2, <1>3, <1>4 DEF StoreWriterPos
<1>6. QED
  BY <1>5 DEF v

(* The reader's position.                                                    *)
LEMMA StoresReader ==
  ASSUME Layout, NEW r \in 0 .. PosMax, NEW w \in 0 .. PosMax,
         NEW invert \in BOOLEAN, NEW busy \in BOOLEAN, NEW pos \in 0 .. PosMax
  PROVE  StoreReaderPos(Joined(r, w, invert, busy), pos)
           = Joined(pos, w, invert, busy)
<1> DEFINE v == Joined(r, w, invert, busy)
           io == Flag(busy, IoBusyFlag)
           inv == Flag(invert, InvertFlag)
<1>1. LoadReaderPos(v) = r
  BY Loads
<1>2. /\ BuffSizeMod \in Nat /\ io \in Nat /\ inv \in Nat
      /\ r \in Nat /\ w \in Nat /\ pos \in Nat
  BY DEF Layout, Flag, PosMax
<1>3. v = w + r * BuffSizeMod + io + inv
  BY DEF Joined
<1>4. Joined(pos, w, invert, busy) = w + pos * BuffSizeMod + io + inv
  BY DEF Joined
<1>5. (pos - r) * BuffSizeMod = pos * BuffSizeMod - r * BuffSizeMod
  BY <1>2
<1> HIDE DEF v, io, inv
<1>6. StoreReaderPos(v, pos) = Joined(pos, w, invert, busy)
  BY <1>1, <1>2, <1>3, <1>4, <1>5 DEF StoreReaderPos
<1>7. QED
  BY <1>6 DEF v

(* INVERT.                                                                   *)
LEMMA StoresInvert ==
  ASSUME Layout, NEW r \in 0 .. PosMax, NEW w \in 0 .. PosMax,
         NEW invert \in BOOLEAN, NEW busy \in BOOLEAN
  PROVE  /\ SetFlag(Joined(r, w, invert, busy), InvertFlag)
              = Joined(r, w, TRUE, busy)
         /\ ClearFlag(Joined(r, w, invert, busy), InvertFlag)
              = Joined(r, w, FALSE, busy)
<1> DEFINE v == Joined(r, w, invert, busy)
           rest == w + r * BuffSizeMod
           io == Flag(busy, IoBusyFlag)
           inv == Flag(invert, InvertFlag)
<1>1. HasFlag(v, InvertFlag) = invert
  BY Loads DEF ExpectInvert
<1>2. InvertFlag \in Nat /\ io \in Nat /\ inv \in Nat /\ rest \in Nat
  BY DEF Layout, Flag, PosMax
<1>3. v = rest + io + inv
  BY DEF Joined
<1>4. /\ Joined(r, w, TRUE, busy) = rest + io + InvertFlag
      /\ Joined(r, w, FALSE, busy) = rest + io + 0
  BY DEF Joined, Flag
<1>5. /\ invert => inv = InvertFlag
      /\ ~invert => inv = 0
  BY DEF Flag
<1> HIDE DEF v, io, inv, rest
<1>6. /\ SetFlag(v, InvertFlag) = rest + io + InvertFlag
      /\ ClearFlag(v, InvertFlag) = rest + io + 0
  BY <1>1, <1>2, <1>3, <1>5 DEF SetFlag, ClearFlag
<1>7. QED
  BY <1>4, <1>6, Zenon DEF v

(* IO_BUSY.                                                                  *)
LEMMA StoresIoBusy ==
  ASSUME Layout, NEW r \in 0 .. PosMax, NEW w \in 0 .. PosMax,
         NEW invert \in BOOLEAN, NEW busy \in BOOLEAN
  PROVE  /\ SetFlag(Joined(r, w, invert, busy), IoBusyFlag)
              = Joined(r, w, invert, TRUE)
         /\ ClearFlag(Joined(r, w, invert, busy), IoBusyFlag)
              = Joined(r, w, invert, FALSE)
<1> DEFINE v == Joined(r, w, invert, busy)
           rest == w + r * BuffSizeMod
           io == Flag(busy, IoBusyFlag)
           inv == Flag(invert, InvertFlag)
<1>1. HasFlag(v, IoBusyFlag) = busy
  BY Loads DEF ExpectIoBusy
<1>2. IoBusyFlag \in Nat /\ io \in Nat /\ inv \in Nat /\ rest \in Nat
  BY DEF Layout, Flag, PosMax
<1>3. v = rest + io + inv
  BY DEF Joined
<1>4. /\ Joined(r, w, invert, TRUE) = rest + IoBusyFlag + inv
      /\ Joined(r, w, invert, FALSE) = rest + 0 + inv
  BY DEF Joined, Flag
<1>5. /\ busy => io = IoBusyFlag
      /\ ~busy => io = 0
  BY DEF Flag
<1> HIDE DEF v, io, inv, rest
<1>6. /\ SetFlag(v, IoBusyFlag) = rest + IoBusyFlag + inv
      /\ ClearFlag(v, IoBusyFlag) = rest + 0 + inv
  BY <1>1, <1>2, <1>3, <1>5 DEF SetFlag, ClearFlag
<1>7. QED
  BY <1>4, <1>6, Zenon DEF v

-----------------------------------------------------------------------------
(* The increments *)

(* An index is not changed by the remainder that wraps it.                   *)
LEMMA Below ==
  ASSUME NEW cap \in Nat \ {0}, NEW x, x \in 0 .. cap - 1
  PROVE  x % cap = x
<1>1. x \in Nat /\ x = 0 * cap + x
  OBVIOUS
<1>2. QED
  BY <1>1, Division

(* Nor is an amount that the buffer has room for by the writer's.            *)
LEMMA Reduced ==
  ASSUME NEW cap \in Nat \ {0}, NEW n \in 1 .. cap
  PROVE  n % (cap + 1) = n
<1>1. PICK d \in Nat \ {0} : d = cap + 1
  OBVIOUS
<1>2. n \in 0 .. d - 1
  BY <1>1
<1>3. n % d = n
  BY <1>2, Below
<1>4. QED
  BY <1>1, <1>3

(* The word v of a buffer of cap cells is made of these fields, and they are *)
(* in order.                                                                 *)
Apart(v, cap, r, w, invert, busy) ==
  /\ v = Joined(r, w, invert, busy)
  /\ r \in 0 .. cap - 1 /\ w \in 0 .. cap - 1
  /\ invert \in BOOLEAN /\ busy \in BOOLEAN
  /\ IF invert THEN w <= r ELSE r <= w

(* What the two sides may take of it.                                        *)
RoomOf(cap, r, w, invert) == IF invert THEN r - w ELSE cap - w
DataOf(cap, r, w, invert) == IF invert THEN cap - r ELSE w - r

(* The lengths that try_new takes.                                           *)
Widths(cap) == cap \in Nat \ {0} /\ cap < PosMax

(* The writer's increment, field by field.  It comes to the end of the       *)
(* buffer and turns.                                                         *)
LEMMA WriterTurns ==
  ASSUME Layout, NEW cap, Widths(cap),
         NEW r \in 0 .. cap - 1, NEW w \in 0 .. cap - 1,
         NEW busy \in BOOLEAN, r <= w,
         NEW n \in 1 .. cap, w + n = cap
  PROVE  /\ Positions(cap)!WriterMoved(Fields(r, w, FALSE), n)
              = Fields(r, 0, TRUE)
         /\ WriterWord(Joined(r, w, FALSE, busy), cap, n)
              = Joined(r, 0, TRUE, busy)
<1> DEFINE v == Joined(r, w, FALSE, busy)
           f == Fields(r, w, FALSE)
           w_new == (w + n) % cap
<1>1. /\ cap \in Nat \ {0}
      /\ r \in 0 .. PosMax /\ w \in 0 .. PosMax /\ 0 \in 0 .. PosMax
  BY DEF Layout, Widths, PosMax
<1>2. n % (cap + 1) = n
  BY <1>1, Reduced
<1>3. w_new = 0
  <2>1. cap = 1 * cap + 0 /\ 0 \in 0 .. cap - 1
    BY <1>1
  <2>2. cap % cap = 0
    <3>1. cap \in Nat /\ 1 \in Nat
      BY <1>1
    <3>2. QED
      BY <1>1, <2>1, <3>1, Division
  <2>3. QED
    BY <2>2
<1>4. /\ LoadWriterPos(v) = w /\ LoadReaderPos(v) = r
      /\ ExpectInvert(v) = FALSE
  BY <1>1, Loads
<1>5. /\ LeastOf(cap - w + r, n) = n
      /\ Positions(cap)!WriterDelta(f, n) = n
  BY <1>1, <1>2
  DEF Fields, LeastOf, Positions!WriterDelta, Positions!MinOf, Positions!Free,
      Positions!WriterAmount
<1>6. w_new <= w /\ n > 0 /\ n # 0
  BY <1>1, <1>3
<1>7. Positions(cap)!WriterMoved(f, n) = Fields(r, 0, TRUE)
  <2>1. Positions(cap)!WriterMoved(f, n) =
          [r |-> r, w |-> w_new,
           invert |-> n > 0 /\ (w_new < r \/ w_new <= w)]
    BY <1>5 DEF Fields, Positions!WriterMoved
  <2>2. (n > 0 /\ (w_new < r \/ w_new <= w)) = TRUE
    BY <1>6
  <2> HIDE DEF w_new, f
  <2>3. QED
    BY <1>3, <2>1, <2>2, Zenon DEF Fields
<1>8. WriterWord(v, cap, n) = Joined(r, 0, TRUE, busy)
  <2>1. WriterWord(v, cap, n) =
          IF w_new < r \/ w_new <= w
          THEN SetFlag(StoreWriterPos(v, w_new), InvertFlag)
          ELSE StoreWriterPos(v, w_new)
    BY <1>2, <1>4, <1>5, <1>6 DEF WriterWord
  <2>2. StoreWriterPos(v, 0) = Joined(r, 0, FALSE, busy)
    BY <1>1, StoresWriter
  <2>3. SetFlag(Joined(r, 0, FALSE, busy), InvertFlag)
          = Joined(r, 0, TRUE, busy)
    BY <1>1, StoresInvert
  <2> HIDE DEF w_new, v
  <2>4. QED
    BY <1>3, <1>6, <2>1, <2>2, <2>3, Zenon
<1>9. QED
  BY <1>7, <1>8

(* It does not.                                                              *)
LEMMA WriterSteps ==
  ASSUME Layout, NEW cap, Widths(cap),
         NEW r \in 0 .. cap - 1, NEW w \in 0 .. cap - 1,
         NEW invert \in BOOLEAN, NEW busy \in BOOLEAN,
         IF invert THEN w <= r ELSE r <= w,
         NEW n \in 1 .. cap, IF invert THEN w + n <= r ELSE w + n < cap
  PROVE  /\ Positions(cap)!WriterMoved(Fields(r, w, invert), n)
              = Fields(r, w + n, invert)
         /\ WriterWord(Joined(r, w, invert, busy), cap, n)
              = Joined(r, w + n, invert, busy)
<1> DEFINE v == Joined(r, w, invert, busy)
           f == Fields(r, w, invert)
           w_new == (w + n) % cap
<1>1. /\ cap \in Nat \ {0}
      /\ r \in 0 .. PosMax /\ w \in 0 .. PosMax /\ w + n \in 0 .. PosMax
      /\ w + n \in 0 .. cap - 1
  BY DEF Layout, Widths, PosMax
<1>2. n % (cap + 1) = n
  BY <1>1, Reduced
<1>3. /\ LoadWriterPos(v) = w /\ LoadReaderPos(v) = r
      /\ ExpectInvert(v) = invert
  BY <1>1, Loads
<1>4. StoreWriterPos(v, w + n) = Joined(r, w + n, invert, busy)
  <2>1. PICK pos \in 0 .. PosMax : pos = w + n
    BY <1>1
  <2>2. StoreWriterPos(v, pos) = Joined(r, pos, invert, busy)
    BY <1>1, StoresWriter
  <2> HIDE DEF v
  <2>3. QED
    BY <2>1, <2>2, Zenon
<1>5. Positions(cap)!WriterDelta(f, n) = n
  BY <1>1, <1>2
  DEF Fields, Positions!WriterDelta, Positions!MinOf, Positions!Free,
      Positions!WriterAmount
<1>6. CASE invert
  <2>1. LeastOf(r - w, n) = n
    BY <1>1, <1>6 DEF LeastOf
  <2>2. invert = TRUE
    BY <1>6
  <2>3. Positions(cap)!WriterMoved(f, n)
          = Fields(r, w + n, TRUE)
    BY <1>5, <1>6 DEF Fields, Positions!WriterMoved
  <2>4. WriterWord(v, cap, n) = StoreWriterPos(v, w + n)
    BY <1>2, <1>3, <1>6, <2>1 DEF WriterWord
  <2>5. QED
    BY <1>4, <2>2, <2>3, <2>4, Zenon
<1>7. CASE ~invert
  <2>1. LeastOf(cap - w + r, n) = n
    BY <1>1, <1>7 DEF LeastOf
  <2>2. w_new = w + n
    BY <1>1, Below
  <2>3. ~(w_new < r) /\ ~(w_new <= w) /\ n # 0
    BY <1>1, <1>7, <2>2
  <2>4. Positions(cap)!WriterMoved(f, n) =
          [r |-> r, w |-> w_new,
           invert |-> n > 0 /\ (w_new < r \/ w_new <= w)]
    BY <1>5, <1>7 DEF Fields, Positions!WriterMoved
  <2>5. (n > 0 /\ (w_new < r \/ w_new <= w)) = invert
    BY <1>7, <2>3
  <2>6. WriterWord(v, cap, n) =
          IF w_new < r \/ w_new <= w
          THEN SetFlag(StoreWriterPos(v, w_new), InvertFlag)
          ELSE StoreWriterPos(v, w_new)
    BY <1>2, <1>3, <1>7, <2>1, <2>3 DEF WriterWord
  <2>7. WriterWord(v, cap, n) = StoreWriterPos(v, w + n)
    <3> HIDE DEF w_new, v
    <3>1. QED
      BY <2>2, <2>3, <2>6, Zenon
  <2>8. Positions(cap)!WriterMoved(f, n)
          = Fields(r, w + n, invert)
    <3> HIDE DEF w_new, f
    <3>1. QED
      BY <2>2, <2>4, <2>5, Zenon DEF Fields
  <2>9. QED
    BY <1>4, <2>7, <2>8, Zenon
<1>8. QED
  BY <1>6, <1>7

(* The reader's increment, field by field.  It comes to the end of the       *)
(* buffer and turns.                                                         *)
LEMMA ReaderTurns ==
  ASSUME Layout, NEW cap, Widths(cap),
         NEW v, NEW r, NEW w, NEW invert, NEW busy,
         Apart(v, cap, r, w, invert, busy),
         NEW n \in 1 .. cap, n <= DataOf(cap, r, w, invert), r + n >= cap
  PROVE  /\ Positions(cap)!ReaderMoved(Fields(r, w, invert), n)
              = Fields(0, w, Clear)
         /\ ReaderWord(v, cap, n) = Joined(0, w, Clear, busy)
<1> DEFINE f == Fields(r, w, invert)
           r_new == (r + n) % cap
<1>1. /\ v = Joined(r, w, invert, busy)
      /\ cap \in Nat \ {0}
      /\ r \in 0 .. cap - 1 /\ w \in 0 .. cap - 1
      /\ r \in 0 .. PosMax /\ w \in 0 .. PosMax /\ 0 \in 0 .. PosMax
      /\ invert \in BOOLEAN /\ busy \in BOOLEAN
      /\ IF invert THEN w <= r ELSE r <= w
  BY DEF Apart, Layout, Widths, PosMax
<1>2. invert /\ w <= r /\ r + n = cap
  BY <1>1 DEF DataOf
<1>3. r_new = 0
  <2>1. cap = 1 * cap + 0 /\ 0 \in 0 .. cap - 1
    BY <1>1
  <2>2. cap % cap = 0
    <3>1. cap \in Nat /\ 1 \in Nat
      BY <1>1
    <3>2. QED
      BY <1>1, <2>1, <3>1, Division
  <2>3. QED
    BY <1>2, <2>2
<1>4. /\ LoadWriterPos(v) = w /\ LoadReaderPos(v) = r
      /\ ExpectInvert(v) = invert
  BY <1>1, Loads
<1>5. /\ LeastOf(cap - r + w, n) = n
      /\ Positions(cap)!ReaderDelta(f, n) = n
  BY <1>1, <1>2
  DEF Fields, LeastOf, Positions!ReaderDelta, Positions!MinOf, Positions!Stored
<1>6. r_new <= w
  BY <1>1, <1>3
<1>7. Positions(cap)!ReaderMoved(f, n) = Fields(0, w, FALSE)
  <2>1. Positions(cap)!ReaderMoved(f, n) =
          [r |-> r_new, w |-> w,
           invert |-> ~(r_new <= w \/ r_new <= r)]
    BY <1>2, <1>5 DEF Fields, Positions!ReaderMoved
  <2>2. (~(r_new <= w \/ r_new <= r)) = FALSE
    BY <1>6
  <2> HIDE DEF r_new, f
  <2>3. QED
    BY <1>3, <2>1, <2>2, Zenon DEF Fields
<1>8. ReaderWord(v, cap, n) = Joined(0, w, FALSE, busy)
  <2>1. ReaderWord(v, cap, n) =
          IF r_new <= w \/ r_new <= r
          THEN ClearFlag(StoreReaderPos(v, r_new), InvertFlag)
          ELSE StoreReaderPos(v, r_new)
    BY <1>2, <1>4, <1>5 DEF ReaderWord
  <2>2. StoreReaderPos(v, 0) = Joined(0, w, invert, busy)
    BY <1>1, StoresReader
  <2>3. ClearFlag(Joined(0, w, invert, busy), InvertFlag)
          = Joined(0, w, FALSE, busy)
    BY <1>1, StoresInvert
  <2> HIDE DEF r_new
  <2>4. QED
    BY <1>3, <1>6, <2>1, <2>2, <2>3, Zenon
<1>9. QED
  BY <1>7, <1>8, Zenon DEF Clear

(* It does not.                                                              *)
LEMMA ReaderSteps ==
  ASSUME Layout, NEW cap, Widths(cap),
         NEW r \in 0 .. cap - 1, NEW w \in 0 .. cap - 1,
         NEW invert \in BOOLEAN, NEW busy \in BOOLEAN,
         IF invert THEN w <= r ELSE r <= w,
         NEW n \in 1 .. cap, IF invert THEN r + n < cap ELSE r + n <= w
  PROVE  /\ Positions(cap)!ReaderMoved(Fields(r, w, invert), n)
              = Fields(r + n, w, invert)
         /\ ReaderWord(Joined(r, w, invert, busy), cap, n)
              = Joined(r + n, w, invert, busy)
<1> DEFINE v == Joined(r, w, invert, busy)
           f == Fields(r, w, invert)
           r_new == (r + n) % cap
<1>1. /\ cap \in Nat \ {0}
      /\ r \in 0 .. PosMax /\ w \in 0 .. PosMax /\ r + n \in 0 .. PosMax
      /\ r + n \in 0 .. cap - 1
  BY DEF Layout, Widths, PosMax
<1>2. /\ LoadWriterPos(v) = w /\ LoadReaderPos(v) = r
      /\ ExpectInvert(v) = invert
  BY <1>1, Loads
<1>3. StoreReaderPos(v, r + n) = Joined(r + n, w, invert, busy)
  <2>1. PICK pos \in 0 .. PosMax : pos = r + n
    BY <1>1
  <2>2. StoreReaderPos(v, pos) = Joined(pos, w, invert, busy)
    BY <1>1, StoresReader
  <2> HIDE DEF v
  <2>3. QED
    BY <2>1, <2>2, Zenon
<1>4. Positions(cap)!ReaderDelta(f, n) = n
  BY <1>1
  DEF Fields, Positions!ReaderDelta, Positions!MinOf, Positions!Stored
<1>5. CASE ~invert
  <2>1. LeastOf(w - r, n) = n
    BY <1>1, <1>5 DEF LeastOf
  <2>2. invert = FALSE
    BY <1>5
  <2>3. Positions(cap)!ReaderMoved(f, n)
          = Fields(r + n, w, FALSE)
    BY <1>4, <1>5 DEF Fields, Positions!ReaderMoved
  <2>4. ReaderWord(v, cap, n) = StoreReaderPos(v, r + n)
    BY <1>2, <1>5, <2>1 DEF ReaderWord
  <2>5. QED
    BY <1>3, <2>2, <2>3, <2>4, Zenon
<1>6. CASE invert
  <2>1. LeastOf(cap - r + w, n) = n
    BY <1>1, <1>6 DEF LeastOf
  <2>2. r_new = r + n
    BY <1>1, Below
  <2>3. ~(r_new <= w) /\ ~(r_new <= r)
    BY <1>1, <1>6, <2>2
  <2>4. Positions(cap)!ReaderMoved(f, n) =
          [r |-> r_new, w |-> w,
           invert |-> ~(r_new <= w \/ r_new <= r)]
    BY <1>4, <1>6 DEF Fields, Positions!ReaderMoved
  <2>5. (~(r_new <= w \/ r_new <= r)) = invert
    BY <1>6, <2>3
  <2>6. ReaderWord(v, cap, n) =
          IF r_new <= w \/ r_new <= r
          THEN ClearFlag(StoreReaderPos(v, r_new), InvertFlag)
          ELSE StoreReaderPos(v, r_new)
    BY <1>2, <1>6, <2>1 DEF ReaderWord
  <2>7. ReaderWord(v, cap, n) = StoreReaderPos(v, r + n)
    <3> HIDE DEF r_new, v
    <3>1. QED
      BY <2>2, <2>3, <2>6, Zenon
  <2>8. Positions(cap)!ReaderMoved(f, n)
          = Fields(r + n, w, invert)
    <3> HIDE DEF r_new, f
    <3>1. QED
      BY <2>2, <2>4, <2>5, Zenon DEF Fields
  <2>9. QED
    BY <1>3, <2>7, <2>8, Zenon
<1>7. QED
  BY <1>5, <1>6

-----------------------------------------------------------------------------
(* The word as a whole *)

(* What the program reads in such a word.                                    *)
LEMMA ApartReads ==
  ASSUME Layout, NEW cap, Widths(cap),
         NEW v, NEW r, NEW w, NEW invert, NEW busy,
         Apart(v, cap, r, w, invert, busy)
  PROVE  /\ v \in 0 .. DMax
         /\ Decoded(v) = Fields(r, w, invert)
         /\ ExpectIoBusy(v) = busy
         /\ WritableIn(v, cap) = RoomOf(cap, r, w, invert)
         /\ ReadableIn(v, cap) = DataOf(cap, r, w, invert)
         /\ Decoded(v) \in Positions(cap)!Words
         /\ Positions(cap)!Ordered(Decoded(v))
<1>1. /\ r \in 0 .. PosMax /\ w \in 0 .. PosMax
      /\ r \in 0 .. cap - 1 /\ w \in 0 .. cap - 1
      /\ invert \in BOOLEAN /\ busy \in BOOLEAN
      /\ v = Joined(r, w, invert, busy)
      /\ IF invert THEN w <= r ELSE r <= w
  BY DEF Apart, Layout, Widths, PosMax
<1>2. /\ v \in 0 .. DMax
      /\ LoadWriterPos(v) = w /\ LoadReaderPos(v) = r
      /\ ExpectInvert(v) = invert /\ ExpectIoBusy(v) = busy
  BY <1>1, Loads
<1>3. Decoded(v) = Fields(r, w, invert)
  BY <1>2 DEF Fields, Decoded
<1>4. /\ WritableIn(v, cap) = RoomOf(cap, r, w, invert)
      /\ ReadableIn(v, cap) = DataOf(cap, r, w, invert)
  BY <1>2 DEF WritableIn, ReadableIn, RoomOf, DataOf
<1>5. /\ Decoded(v) \in Positions(cap)!Words
      /\ Positions(cap)!Ordered(Decoded(v))
  BY <1>1, <1>3 DEF Fields, Positions!Words, Positions!Index, Positions!Ordered
<1>6. QED
  BY <1>2, <1>3, <1>4, <1>5

(* The writer's increment by no more than the room of the word moves the     *)
(* fields as module RwState does, keeps them apart, leaves IO_BUSY as it was *)
(* and takes nothing from what the reader may read.                          *)
LEMMA WriterPacks ==
  ASSUME Layout, NEW cap, Widths(cap),
         NEW v, NEW r, NEW w, NEW invert, NEW busy,
         Apart(v, cap, r, w, invert, busy),
         NEW n \in Nat \ {0}, n <= RoomOf(cap, r, w, invert)
  PROVE  \E w_new, turned :
           /\ Apart(WriterWord(v, cap, n), cap, r, w_new, turned, busy)
           /\ Positions(cap)!WriterMoved(Fields(r, w, invert), n)
                = Fields(r, w_new, turned)
           /\ DataOf(cap, r, w, invert) <= DataOf(cap, r, w_new, turned)
<1>1. /\ cap \in Nat \ {0} /\ n \in 1 .. cap
      /\ r \in 0 .. cap - 1 /\ w \in 0 .. cap - 1
      /\ invert \in BOOLEAN /\ busy \in BOOLEAN
      /\ v = Joined(r, w, invert, busy)
      /\ IF invert THEN w <= r ELSE r <= w
  BY DEF Apart, Widths, RoomOf
<1>2. CASE ~invert /\ w + n = cap
  <2>1. invert = FALSE /\ r <= w /\ 0 \in 0 .. cap - 1 /\ 0 <= r
    BY <1>1, <1>2
  <2>2. /\ Positions(cap)!WriterMoved(Fields(r, w, FALSE), n)
             = Fields(r, 0, TRUE)
        /\ WriterWord(Joined(r, w, FALSE, busy), cap, n)
             = Joined(r, 0, TRUE, busy)
    BY <1>1, <1>2, <2>1, WriterTurns
  <2>3. Apart(WriterWord(v, cap, n), cap, r, 0, TRUE, busy)
    BY <1>1, <2>1, <2>2 DEF Apart
  <2>4. DataOf(cap, r, w, invert) <= DataOf(cap, r, 0, TRUE)
    BY <1>1, <2>1 DEF DataOf
  <2>5. QED
    BY <2>1, <2>2, <2>3, <2>4, Zenon
<1>3. CASE invert \/ w + n # cap
  <2>1. /\ IF invert THEN w + n <= r ELSE w + n < cap
        /\ w + n \in 0 .. cap - 1
    BY <1>1, <1>3 DEF RoomOf
  <2>2. /\ Positions(cap)!WriterMoved(Fields(r, w, invert), n)
             = Fields(r, w + n, invert)
        /\ WriterWord(Joined(r, w, invert, busy), cap, n)
             = Joined(r, w + n, invert, busy)
    BY <1>1, <2>1, WriterSteps
  <2>3. Apart(WriterWord(v, cap, n), cap, r, w + n, invert, busy)
    BY <1>1, <2>1, <2>2 DEF Apart
  <2>4. DataOf(cap, r, w, invert) <= DataOf(cap, r, w + n, invert)
    BY <1>1 DEF DataOf
  <2>5. QED
    BY <2>2, <2>3, <2>4, Zenon
<1>4. QED
  BY <1>2, <1>3

(* And the reader's, by no more than there is to read.                       *)
LEMMA ReaderPacks ==
  ASSUME Layout, NEW cap, Widths(cap),
         NEW v, NEW r, NEW w, NEW invert, NEW busy,
         Apart(v, cap, r, w, invert, busy),
         NEW n \in Nat \ {0}, n <= DataOf(cap, r, w, invert)
  PROVE  \E r_new, turned :
           /\ Apart(ReaderWord(v, cap, n), cap, r_new, w, turned, busy)
           /\ Positions(cap)!ReaderMoved(Fields(r, w, invert), n)
                = Fields(r_new, w, turned)
           /\ RoomOf(cap, r, w, invert) <= RoomOf(cap, r_new, w, turned)
<1>1. /\ cap \in Nat \ {0} /\ n \in 1 .. cap
      /\ r \in 0 .. cap - 1 /\ w \in 0 .. cap - 1
      /\ invert \in BOOLEAN /\ busy \in BOOLEAN
      /\ v = Joined(r, w, invert, busy)
      /\ IF invert THEN w <= r ELSE r <= w
  BY DEF Apart, Widths, DataOf
<1>2. CASE invert /\ r + n = cap
  <2>1. w <= r /\ 0 \in 0 .. cap - 1 /\ 0 <= w
    BY <1>1, <1>2
  <2>2. /\ Positions(cap)!ReaderMoved(Fields(r, w, invert), n)
             = Fields(0, w, Clear)
        /\ ReaderWord(v, cap, n) = Joined(0, w, Clear, busy)
    <3>1. r + n >= cap
      BY <1>1, <1>2
    <3>2. QED
      BY <1>1, <3>1, ReaderTurns
  <2>3. Clear \in BOOLEAN /\ ~Clear
    BY DEF Clear
  <2>4. Apart(ReaderWord(v, cap, n), cap, 0, w, Clear, busy)
    BY <1>1, <2>1, <2>2, <2>3 DEF Apart
  <2>5. RoomOf(cap, r, w, invert) <= RoomOf(cap, 0, w, Clear)
    BY <1>1, <2>1, <2>3 DEF RoomOf
  <2>6. QED
    BY <2>2, <2>4, <2>5, Zenon
<1>3. CASE ~invert \/ r + n # cap
  <2>1. /\ IF invert THEN r + n < cap ELSE r + n <= w
        /\ r + n \in 0 .. cap - 1
    BY <1>1, <1>3 DEF DataOf
  <2>2. /\ Positions(cap)!ReaderMoved(Fields(r, w, invert), n)
             = Fields(r + n, w, invert)
        /\ ReaderWord(Joined(r, w, invert, busy), cap, n)
             = Joined(r + n, w, invert, busy)
    BY <1>1, <2>1, ReaderSteps
  <2>3. Apart(ReaderWord(v, cap, n), cap, r + n, w, invert, busy)
    BY <1>1, <2>1, <2>2 DEF Apart
  <2>4. RoomOf(cap, r, w, invert) <= RoomOf(cap, r + n, w, invert)
    BY <1>1 DEF RoomOf
  <2>5. QED
    BY <2>2, <2>3, <2>4, Zenon
<1>4. QED
  BY <1>2, <1>3

(* Taking and releasing the guard leave the fields alone.                    *)
LEMMA FlagPacks ==
  ASSUME Layout, NEW cap, Widths(cap),
         NEW v, NEW r, NEW w, NEW invert, NEW busy,
         Apart(v, cap, r, w, invert, busy)
  PROVE  /\ Apart(SetFlag(v, IoBusyFlag), cap, r, w, invert, TRUE)
         /\ Apart(ClearFlag(v, IoBusyFlag), cap, r, w, invert, FALSE)
<1>1. /\ r \in 0 .. PosMax /\ w \in 0 .. PosMax
      /\ invert \in BOOLEAN /\ busy \in BOOLEAN
      /\ v = Joined(r, w, invert, busy)
  BY DEF Apart, Layout, Widths, PosMax
<1>2. /\ SetFlag(v, IoBusyFlag) = Joined(r, w, invert, TRUE)
      /\ ClearFlag(v, IoBusyFlag) = Joined(r, w, invert, FALSE)
  BY <1>1, StoresIoBusy
<1>3. QED
  BY <1>2 DEF Apart

-----------------------------------------------------------------------------
(* The inductive invariant *)

(* The word is made of its fields and nothing else, each side has asked for  *)
(* no more than it may take, and IO_BUSY tells whether a guard is held.      *)
IsApart ==
  \E r, w \in 0 .. capacity - 1, invert, busy \in BOOLEAN :
    Apart(position, capacity, r, w, invert, busy)

AsksForRoom ==
  /\ writer.amount <= WritableIn(position, capacity)
  /\ reader.amount <= ReadableIn(position, capacity)

InPlace ==
  /\ TypeOK
  /\ capacity \in Nat
  /\ IsApart
  /\ AsksForRoom
  /\ BusyIsHeld

(* A word of zeroes is a buffer in order, and empty.                         *)
LEMMA InitInPlace ==
  ASSUME Layout, Init
  PROVE  InPlace
<1>1. /\ capacity \in Nat /\ Accepts(capacity) /\ Widths(capacity)
      /\ position = 0 /\ writer.amount = 0 /\ reader.amount = 0
  BY RwWordAssumption DEF Init, Accepts, Widths, NoIncrement, PosMax, Layout
<1>2. PICK no \in BOOLEAN : no = FALSE
  OBVIOUS
<1>3. Apart(position, capacity, 0, 0, no, no)
  <2>1. Joined(0, 0, no, no) = 0
    BY <1>2 DEF Joined, Flag, Layout
  <2>2. 0 \in 0 .. capacity - 1 /\ 0 <= 0
    BY <1>1 DEF Widths
  <2>3. QED
    BY <1>1, <2>1, <2>2 DEF Apart
<1>4. IsApart
  <2>1. 0 \in 0 .. capacity - 1
    BY <1>1 DEF Widths
  <2>2. QED
    BY <1>3, <2>1, Zenon DEF IsApart
<1>5. /\ position \in 0 .. DMax /\ ExpectIoBusy(position) = no
      /\ WritableIn(position, capacity) = RoomOf(capacity, 0, 0, no)
      /\ ReadableIn(position, capacity) = DataOf(capacity, 0, 0, no)
  BY <1>1, <1>3, ApartReads
<1>6. AsksForRoom
  BY <1>1, <1>2, <1>5 DEF AsksForRoom, RoomOf, DataOf
<1>7. TypeOK
  BY <1>1, <1>5 DEF Init, TypeOK, NoIncrement, PosMax, Layout
<1>8. BusyIsHeld
  BY <1>2, <1>5 DEF Init, BusyIsHeld
<1>9. QED
  BY <1>1, <1>4, <1>6, <1>7, <1>8 DEF InPlace

(* A guard that is neither taken nor released leaves BusyIsHeld alone.       *)
LEMMA BusyStays ==
  ASSUME BusyIsHeld, ExpectIoBusy(position') = ExpectIoBusy(position),
         \A p \in Printers : (guard[p] = "held") <=> (guard'[p] = "held")
  PROVE  BusyIsHeld'
<1>1. {p \in Printers : guard'[p] = "held"}
        = {p \in Printers : guard[p] = "held"}
  OBVIOUS
<1>2. QED
  BY <1>1 DEF BusyIsHeld

(* Every step keeps the invariant, and moves the fields as module RwState    *)
(* does.                                                                     *)
LEMMA NextInPlace ==
  ASSUME Layout, InPlace, [Next]_vars
  PROVE  InPlace' /\ [MovesAsRwState]_vars
<1>1. /\ TypeOK /\ capacity \in Nat /\ Accepts(capacity) /\ Widths(capacity)
      /\ PosMax \in Nat /\ AsksForRoom /\ BusyIsHeld
  BY DEF InPlace, TypeOK, Accepts, Widths, PosMax, Layout
<1>2. PICK r \in 0 .. capacity - 1, w \in 0 .. capacity - 1,
           invert \in BOOLEAN, busy \in BOOLEAN :
        Apart(position, capacity, r, w, invert, busy)
  BY DEF InPlace, IsApart
<1>3. /\ position \in 0 .. DMax
      /\ Decoded(position) = Fields(r, w, invert)
      /\ ExpectIoBusy(position) = busy
      /\ WritableIn(position, capacity) = RoomOf(capacity, r, w, invert)
      /\ ReadableIn(position, capacity) = DataOf(capacity, r, w, invert)
  BY <1>1, <1>2, ApartReads
<1>4. /\ writer \in [amount : 0 .. PosMax, state : 0 .. DMax]
      /\ reader \in [amount : 0 .. PosMax, state : 0 .. DMax]
      /\ guard \in [Printers -> {"none", "acquiring", "held"}]
  BY <1>1 DEF TypeOK
<1>5. /\ writer.amount <= RoomOf(capacity, r, w, invert)
      /\ reader.amount <= DataOf(capacity, r, w, invert)
  BY <1>1, <1>3 DEF AsksForRoom
<1>6. CASE position' = position /\ capacity' = capacity
           /\ TypeOK' /\ AsksForRoom'
           /\ \A p \in Printers : (guard[p] = "held") <=> (guard'[p] = "held")
  <2>1. IsApart'
    BY <1>2, <1>6 DEF IsApart
  <2>2. BusyIsHeld'
    BY <1>1, <1>6, BusyStays
  <2>3. MovesAsRwState
    BY <1>6 DEF MovesAsRwState
  <2>4. QED
    BY <1>1, <1>6, <2>1, <2>2, <2>3 DEF InPlace
<1>7. ASSUME NEW amount \in 1 .. PosMax, WriterLoads(amount)
      PROVE  InPlace' /\ [MovesAsRwState]_vars
  <2>1. /\ position' = position /\ capacity' = capacity
        /\ reader' = reader /\ guard' = guard
        /\ writer' = [amount |-> amount, state |-> position]
        /\ amount <= WritableIn(position, capacity)
    BY <1>7 DEF WriterLoads
  <2>2. TypeOK'
    BY <1>1, <1>3, <2>1 DEF TypeOK
  <2>3. AsksForRoom'
    BY <1>1, <2>1 DEF AsksForRoom
  <2>4. QED
    BY <1>6, <2>1, <2>2, <2>3
<1>8. ASSUME NEW amount \in 1 .. PosMax, ReaderLoads(amount)
      PROVE  InPlace' /\ [MovesAsRwState]_vars
  <2>1. /\ position' = position /\ capacity' = capacity
        /\ writer' = writer /\ guard' = guard
        /\ reader' = [amount |-> amount, state |-> position]
        /\ amount <= ReadableIn(position, capacity)
    BY <1>8 DEF ReaderLoads
  <2>2. TypeOK'
    BY <1>1, <1>3, <2>1 DEF TypeOK
  <2>3. AsksForRoom'
    BY <1>1, <2>1 DEF AsksForRoom
  <2>4. QED
    BY <1>6, <2>1, <2>2, <2>3
<1>9. CASE WriterExchanges /\ position # writer.state
  <2>1. /\ position' = position /\ capacity' = capacity
        /\ reader' = reader /\ guard' = guard
        /\ writer' = [writer EXCEPT !.state = position]
    BY <1>9 DEF WriterExchanges
  <2>2. /\ writer' \in [amount : 0 .. PosMax, state : 0 .. DMax]
        /\ writer'.amount = writer.amount
    BY <1>3, <1>4, <2>1
  <2>3. TypeOK'
    BY <1>1, <2>1, <2>2 DEF TypeOK
  <2>4. AsksForRoom'
    BY <1>1, <2>1, <2>2 DEF AsksForRoom
  <2>5. QED
    BY <1>6, <2>1, <2>3, <2>4
<1>10. CASE ReaderExchanges /\ position # reader.state
  <2>1. /\ position' = position /\ capacity' = capacity
        /\ writer' = writer /\ guard' = guard
        /\ reader' = [reader EXCEPT !.state = position]
    BY <1>10 DEF ReaderExchanges
  <2>2. /\ reader' \in [amount : 0 .. PosMax, state : 0 .. DMax]
        /\ reader'.amount = reader.amount
    BY <1>3, <1>4, <2>1
  <2>3. TypeOK'
    BY <1>1, <2>1, <2>2 DEF TypeOK
  <2>4. AsksForRoom'
    BY <1>1, <2>1, <2>2 DEF AsksForRoom
  <2>5. QED
    BY <1>6, <2>1, <2>3, <2>4
<1>11. CASE WriterExchanges /\ position = writer.state
  <2>1. /\ writer.amount > 0
        /\ position' = WriterWord(position, capacity, writer.amount)
        /\ writer' = NoIncrement
        /\ capacity' = capacity /\ reader' = reader /\ guard' = guard
    BY <1>11 DEF WriterExchanges
  <2>2. PICK n \in Nat \ {0} : n = writer.amount
    BY <1>1, <1>4, <2>1
  <2>3. PICK w_new, turned :
          /\ Apart(WriterWord(position, capacity, n),
                   capacity, r, w_new, turned, busy)
          /\ Positions(capacity)!WriterMoved(Fields(r, w, invert), n)
               = Fields(r, w_new, turned)
          /\ DataOf(capacity, r, w, invert)
               <= DataOf(capacity, r, w_new, turned)
    BY <1>1, <1>2, <1>5, <2>2, WriterPacks
  <2>4. /\ Apart(position', capacity, r, w_new, turned, busy)
        /\ w_new \in 0 .. capacity - 1 /\ turned \in BOOLEAN
        /\ IF turned THEN w_new <= r ELSE r <= w_new
    BY <2>1, <2>2, <2>3 DEF Apart
  <2>5. /\ position' \in 0 .. DMax
        /\ Decoded(position') = Fields(r, w_new, turned)
        /\ ExpectIoBusy(position') = busy
        /\ WritableIn(position', capacity)
             = RoomOf(capacity, r, w_new, turned)
        /\ ReadableIn(position', capacity)
             = DataOf(capacity, r, w_new, turned)
    BY <1>1, <2>4, ApartReads
  <2>6. TypeOK'
    BY <1>1, <2>1, <2>5 DEF TypeOK, NoIncrement, Layout
  <2>7. AsksForRoom'
    <3>1. writer'.amount <= WritableIn(position', capacity')
      BY <1>1, <2>1, <2>4, <2>5 DEF NoIncrement, RoomOf
    <3>2. reader'.amount <= ReadableIn(position', capacity')
      <4>1. /\ DataOf(capacity, r, w, invert) \in Int
            /\ DataOf(capacity, r, w_new, turned) \in Int
            /\ reader.amount \in Int
        BY <1>1, <1>4, <2>4 DEF DataOf
      <4>2. QED
        BY <1>5, <2>1, <2>3, <2>5, <4>1
    <3>3. QED
      BY <3>1, <3>2 DEF AsksForRoom
  <2>8. IsApart'
    BY <2>1, <2>4 DEF IsApart
  <2>9. BusyIsHeld'
    BY <1>1, <1>3, <2>1, <2>5, BusyStays
  <2>10. MovesAsRwState
    <3>1. writer' # writer
      BY <2>1 DEF NoIncrement
    <3>2. Decoded(position')
            = Positions(capacity)!WriterMoved(Decoded(position), writer.amount)
      BY <1>3, <2>2, <2>3, <2>5
    <3>3. QED
      BY <3>1, <3>2 DEF MovesAsRwState
  <2>11. QED
    BY <1>1, <2>1, <2>6, <2>7, <2>8, <2>9, <2>10 DEF InPlace
<1>12. CASE ReaderExchanges /\ position = reader.state
  <2>1. /\ reader.amount > 0
        /\ position' = ReaderWord(position, capacity, reader.amount)
        /\ reader' = NoIncrement
        /\ capacity' = capacity /\ writer' = writer /\ guard' = guard
    BY <1>12 DEF ReaderExchanges
  <2>2. PICK n \in Nat \ {0} : n = reader.amount
    BY <1>1, <1>4, <2>1
  <2>3. PICK r_new, turned :
          /\ Apart(ReaderWord(position, capacity, n),
                   capacity, r_new, w, turned, busy)
          /\ Positions(capacity)!ReaderMoved(Fields(r, w, invert), n)
               = Fields(r_new, w, turned)
          /\ RoomOf(capacity, r, w, invert)
               <= RoomOf(capacity, r_new, w, turned)
    BY <1>1, <1>2, <1>5, <2>2, ReaderPacks
  <2>4. /\ Apart(position', capacity, r_new, w, turned, busy)
        /\ r_new \in 0 .. capacity - 1 /\ turned \in BOOLEAN
        /\ IF turned THEN w <= r_new ELSE r_new <= w
    BY <2>1, <2>2, <2>3 DEF Apart
  <2>5. /\ position' \in 0 .. DMax
        /\ Decoded(position') = Fields(r_new, w, turned)
        /\ ExpectIoBusy(position') = busy
        /\ WritableIn(position', capacity)
             = RoomOf(capacity, r_new, w, turned)
        /\ ReadableIn(position', capacity)
             = DataOf(capacity, r_new, w, turned)
    BY <1>1, <2>4, ApartReads
  <2>6. TypeOK'
    BY <1>1, <2>1, <2>5 DEF TypeOK, NoIncrement, Layout
  <2>7. AsksForRoom'
    <3>1. reader'.amount <= ReadableIn(position', capacity')
      BY <1>1, <2>1, <2>4, <2>5 DEF NoIncrement, DataOf
    <3>2. writer'.amount <= WritableIn(position', capacity')
      <4>1. /\ RoomOf(capacity, r, w, invert) \in Int
            /\ RoomOf(capacity, r_new, w, turned) \in Int
            /\ writer.amount \in Int
        BY <1>1, <1>4, <2>4 DEF RoomOf
      <4>2. QED
        BY <1>5, <2>1, <2>3, <2>5, <4>1
    <3>3. QED
      BY <3>1, <3>2 DEF AsksForRoom
  <2>8. IsApart'
    BY <2>1, <2>4 DEF IsApart
  <2>9. BusyIsHeld'
    BY <1>1, <1>3, <2>1, <2>5, BusyStays
  <2>10. MovesAsRwState
    <3>1. reader' # reader
      BY <2>1 DEF NoIncrement
    <3>2. Decoded(position')
            = Positions(capacity)!ReaderMoved(Decoded(position), reader.amount)
      BY <1>3, <2>2, <2>3, <2>5
    <3>3. QED
      BY <3>1, <3>2 DEF MovesAsRwState
  <2>11. QED
    BY <1>1, <2>1, <2>6, <2>7, <2>8, <2>9, <2>10 DEF InPlace
<1>13. ASSUME NEW p \in Printers, StartAcquire(p)
       PROVE  InPlace' /\ [MovesAsRwState]_vars
  <2>1. /\ position' = position /\ capacity' = capacity
        /\ writer' = writer /\ reader' = reader
        /\ guard[p] = "none" /\ guard' = [guard EXCEPT ![p] = "acquiring"]
    BY <1>13 DEF StartAcquire
  <2>2. \A q \in Printers : (guard[q] = "held") <=> (guard'[q] = "held")
    BY <1>4, <2>1
  <2>3. TypeOK' /\ AsksForRoom'
    BY <1>1, <1>4, <2>1 DEF TypeOK, AsksForRoom
  <2>4. QED
    BY <1>6, <2>1, <2>2, <2>3
<1>14. ASSUME NEW set \in BOOLEAN,
              Apart(position', capacity, r, w, invert, set),
              capacity' = capacity, writer' = writer, reader' = reader,
              guard' \in [Printers -> {"none", "acquiring", "held"}]
       PROVE  /\ TypeOK' /\ IsApart' /\ AsksForRoom' /\ MovesAsRwState
              /\ ExpectIoBusy(position') = set
  <2>1. /\ position' \in 0 .. DMax
        /\ Decoded(position') = Fields(r, w, invert)
        /\ ExpectIoBusy(position') = set
        /\ WritableIn(position', capacity) = RoomOf(capacity, r, w, invert)
        /\ ReadableIn(position', capacity) = DataOf(capacity, r, w, invert)
    BY <1>1, <1>14, ApartReads
  <2>2. TypeOK'
    BY <1>1, <1>14, <2>1 DEF TypeOK
  <2>3. AsksForRoom'
    BY <1>5, <1>14, <2>1 DEF AsksForRoom
  <2>4. IsApart'
    BY <1>14 DEF IsApart
  <2>5. MovesAsRwState
    BY <1>3, <2>1 DEF MovesAsRwState
  <2>6. QED
    BY <2>1, <2>2, <2>3, <2>4, <2>5
<1>15. ASSUME NEW p \in Printers, Acquire(p)
       PROVE  InPlace' /\ [MovesAsRwState]_vars
  <2>1. /\ capacity' = capacity /\ writer' = writer /\ reader' = reader
        /\ position' = SetFlag(position, IoBusyFlag)
        /\ guard' = [guard EXCEPT ![p] = "held"]
        /\ ~ExpectIoBusy(position)
    BY <1>15 DEF Acquire
  <2>2. Apart(position', capacity, r, w, invert, TRUE)
    BY <1>1, <1>2, <2>1, FlagPacks
  <2>3. guard' \in [Printers -> {"none", "acquiring", "held"}]
    BY <1>4, <2>1
  <2>4. /\ TypeOK' /\ IsApart' /\ AsksForRoom' /\ MovesAsRwState
        /\ ExpectIoBusy(position') = TRUE
    BY <1>14, <2>1, <2>2, <2>3
  <2>5. BusyIsHeld'
    <3>1. {q \in Printers : guard[q] = "held"} = {}
      BY <1>1, <2>1 DEF BusyIsHeld
    <3>2. {q \in Printers : guard'[q] = "held"} = {p}
      BY <1>4, <2>1, <3>1
    <3>3. QED
      BY <2>4, <3>2 DEF BusyIsHeld
  <2>6. QED
    BY <1>1, <2>1, <2>4, <2>5 DEF InPlace
<1>16. ASSUME NEW p \in Printers, Release(p)
       PROVE  InPlace' /\ [MovesAsRwState]_vars
  <2>1. /\ capacity' = capacity /\ writer' = writer /\ reader' = reader
        /\ position' = ClearFlag(position, IoBusyFlag)
        /\ guard[p] = "held" /\ guard' = [guard EXCEPT ![p] = "none"]
        /\ ExpectIoBusy(position)
    BY <1>16 DEF Release
  <2>2. Apart(position', capacity, r, w, invert, FALSE)
    BY <1>1, <1>2, <2>1, FlagPacks
  <2>3. guard' \in [Printers -> {"none", "acquiring", "held"}]
    BY <1>4, <2>1
  <2>4. /\ TypeOK' /\ IsApart' /\ AsksForRoom' /\ MovesAsRwState
        /\ ExpectIoBusy(position') = FALSE
    BY <1>14, <2>1, <2>2, <2>3
  <2>5. BusyIsHeld'
    <3>1. PICK h \in Printers : {q \in Printers : guard[q] = "held"} = {h}
      BY <1>1, <2>1 DEF BusyIsHeld
    <3>2. {q \in Printers : guard'[q] = "held"} = {}
      BY <1>4, <2>1, <3>1
    <3>3. QED
      BY <2>4, <3>2 DEF BusyIsHeld
  <2>6. QED
    BY <1>1, <2>1, <2>4, <2>5 DEF InPlace
<1>17. CASE UNCHANGED vars
  <2>1. InPlace'
    BY <1>17
    DEF vars, InPlace, TypeOK, IsApart, AsksForRoom, BusyIsHeld
  <2>2. QED
    BY <1>17, <2>1
<1>18. QED
  BY <1>7, <1>8, <1>9, <1>10, <1>11, <1>12, <1>13, <1>15, <1>16, <1>17
  DEF Next

(* The initial states, as an implication, which temporal steps can use.      *)
LEMMA InitGivesInPlace == Layout => (Init => InPlace)
BY InitInPlace

(* The step, likewise.                                                       *)
LEMMA NextGivesInPlace ==
  Layout => (InPlace /\ [Next]_vars => InPlace' /\ [MovesAsRwState]_vars)
BY NextInPlace

(* What the invariant says in the terms of RwWord.                           *)
LEMMA InPlaceSays ==
  Layout => (InPlace => TypeOK /\ FieldsKeepTheirPlace /\ BusyIsHeld)
<1> SUFFICES ASSUME Layout, InPlace
             PROVE  TypeOK /\ FieldsKeepTheirPlace /\ BusyIsHeld
  OBVIOUS
<1>1. Widths(capacity)
  BY DEF InPlace, TypeOK, Accepts, Widths
<1>2. PICK r \in 0 .. capacity - 1, w \in 0 .. capacity - 1,
           invert \in BOOLEAN, busy \in BOOLEAN :
        Apart(position, capacity, r, w, invert, busy)
  BY DEF InPlace, IsApart
<1>3. FieldsKeepTheirPlace
  BY <1>1, <1>2, ApartReads DEF FieldsKeepTheirPlace
<1>4. QED
  BY <1>3 DEF InPlace

-----------------------------------------------------------------------------
(* The theorems *)

(* The invariant holds in every reachable state.                             *)
LEMMA InPlaceAlways ==
  ASSUME Layout
  PROVE  Spec => []InPlace
<1>1. Init => InPlace
  BY InitGivesInPlace
<1>2. InPlace /\ [Next]_vars => InPlace'
  BY NextGivesInPlace
<1>3. QED
  BY <1>1, <1>2, PTL DEF Spec

(* The capacity is one that try_new takes, the word fits its width and the   *)
(* increments are amounts and words.                                         *)
THEOREM WordTypesHold ==
  ASSUME Layout
  PROVE  Spec => []TypeOK
<1>1. InPlace => TypeOK
  BY InPlaceSays
<1>2. QED
  BY <1>1, InPlaceAlways, PTL

(* Neither position leaves the buffer nor runs over into its neighbour in    *)
(* the word: of try_inc_writer_pos, try_inc_reader_pos and RwPosIoGuard in   *)
(* any order, whatever the length that try_new took.                         *)
THEOREM FieldsStayApart ==
  ASSUME Layout
  PROVE  Spec => []FieldsKeepTheirPlace
<1>1. InPlace => FieldsKeepTheirPlace
  BY InPlaceSays
<1>2. QED
  BY <1>1, InPlaceAlways, PTL

(* IO_BUSY excludes: it is set exactly while one of any number of printing   *)
(* threads holds RwPosIoGuard, whatever the increments do to the word.       *)
THEOREM GuardExcludes ==
  ASSUME Layout
  PROVE  Spec => []BusyIsHeld
<1>1. InPlace => BusyIsHeld
  BY InPlaceSays
<1>2. QED
  BY <1>1, InPlaceAlways, PTL

(* The word implements the record of module RwState: a compare-exchange that *)
(* succeeds moves the fields as that module says by the amount that was      *)
(* asked for, and nothing else moves them.                                   *)
THEOREM WordMovesAsRwState ==
  ASSUME Layout
  PROVE  Spec => FieldsMoveAsRwState
<1>1. InPlace /\ [Next]_vars => [MovesAsRwState]_vars
  BY NextGivesInPlace
<1>2. QED
  BY <1>1, InPlaceAlways, PTL DEF Spec, FieldsMoveAsRwState

=============================================================================
