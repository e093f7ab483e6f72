-------------------------- MODULE BuffStateProofs --------------------------
(***************************************************************************)
(* Safety of the lock-free ring buffer, for every capacity, every set of   *)
(* requested lengths without zero, and every bound on the traffic.         *)
(***************************************************************************)
EXTENDS BuffState, RwStateProofs

-----------------------------------------------------------------------------
(* The inductive invariant *)

(* Every cell in use holds the element its distance says.                    *)
Contents ==
  \A c \in Index :
    Dist(word, c) < Stored(word) => buf[c] = taken + Dist(word, c) + 1

(* The writer's slice starts at its position, fits the contiguous free cells *)
(* and holds, as far as it is written, the elements to come.                 *)
WriterHolds ==
  wpc \in {"slice", "load", "cas"} =>
    /\ woff = word.w
    /\ wcnt > 0
    /\ wcnt <= Writable(word)
    /\ wdone <= wcnt
    /\ wpc # "slice" => wdone = wcnt
    /\ \A i \in 0 .. wdone - 1 : buf[woff + i] = sent + i + 1

(* The reader's slice starts rskip cells from its position and fits the      *)
(* contiguous cells in use; what has been copied out is what they hold.      *)
ReaderHolds ==
  rpc \in {"slice", "peek", "load", "cas"} =>
    /\ rpc # "peek" => rskip = 0 /\ rcnt > 0
    /\ rcnt > 0 => roff = word.r + rskip
    /\ rskip + rcnt <= Readable(word)
    /\ Len(rdst) <= rcnt
    /\ rpc \in {"load", "cas"} => Len(rdst) = rcnt
    /\ \A i \in 1 .. Len(rdst) : rdst[i] = taken + rskip + i

(* Between its operations the reader holds nothing.                          *)
ReaderIdle ==
  rpc \in {"idle", "refused", "closed"} => rdst = << >>

(* A side's cell is closed only once its handle is gone.                     *)
ClosedOnce ==
  /\ wpc # "closed" => producer = "null"
  /\ rpc # "closed" => consumer = "null"

IInv ==
  /\ TypeOK
  /\ WordOrdered
  /\ Conserved
  /\ Contents
  /\ WriterHolds
  /\ ReaderHolds
  /\ ReaderIdle
  /\ ClosedOnce
  /\ NoPanic

-----------------------------------------------------------------------------
(* Every step preserves the invariant: the writer *)

LEMMA TryWriteKeeps ==
  ASSUME IInv, NEW length \in Nat, length > 0, TryWrite(length)
  PROVE  IInv'
<1>1. word' = word /\ buf' = buf /\ word \in Words
  BY DEF TryWrite, shared, IInv, TypeOK
<1>2. Writable(word) \in Nat
  BY WordFacts DEF IInv, TypeOK, WordOrdered
<1>3. TypeOK'
  BY <1>2 DEF TryWrite, shared, readerVars, IInv, TypeOK, MinOf, Words, Index
<1>4. WriterHolds'
  BY <1>1, <1>2 DEF TryWrite, shared, readerVars, IInv, TypeOK, WriterHolds, MinOf, NoPanic
<1>5. (WordOrdered /\ Conserved /\ Contents)'
  BY <1>1 DEF TryWrite, shared, readerVars, IInv, WordOrdered, Conserved, Contents
<1>6. (ReaderHolds /\ ReaderIdle)'
  BY <1>1 DEF TryWrite, shared, readerVars, IInv, ReaderHolds, ReaderIdle
<1>7. (ClosedOnce /\ NoPanic)'
  BY DEF TryWrite, shared, readerVars, IInv, ClosedOnce, NoPanic
<1>8. QED
  BY <1>3, <1>4, <1>5, <1>6, <1>7 DEF IInv

LEMMA WriterRefusedKeeps ==
  ASSUME IInv, WriterRefused
  PROVE  IInv'
<1>1. TypeOK' /\ WriterHolds'
  BY DEF WriterRefused, shared, readerVars, IInv, TypeOK, WriterHolds
<1>2. (WordOrdered /\ Conserved /\ Contents)'
  BY DEF WriterRefused, shared, readerVars, IInv, WordOrdered, Conserved, Contents
<1>3. (ReaderHolds /\ ReaderIdle /\ ClosedOnce /\ NoPanic)'
  BY DEF WriterRefused, shared, readerVars, IInv, ReaderHolds, ReaderIdle,
         ClosedOnce, NoPanic
<1>4. QED
  BY <1>1, <1>2, <1>3 DEF IInv

(* The cell written lies beyond those in use.                                *)
LEMMA FillCellKeeps ==
  ASSUME IInv, FillCell
  PROVE  IInv'
<1>0. /\ TypeOK /\ Ordered(word) /\ word \in Words
      /\ wdone \in Nat /\ wdone < wcnt /\ wcnt <= Writable(word)
      /\ wcnt \in Nat /\ woff = word.w /\ word' = word
      /\ sent \in Nat /\ taken \in Nat
  BY DEF FillCell, IInv, TypeOK, WordOrdered, WriterHolds
<1>1. Writable(word) \in Nat /\ Stored(word) \in Nat
  BY <1>0, WordFacts, CapacityAssumption
<1>2. /\ woff + wdone \in Index
      /\ Dist(word, woff + wdone) = Stored(word) + wdone
  BY <1>0, <1>1, Regions
<1>3. TypeOK'
  BY <1>0, <1>2 DEF FillCell, readerVars, TypeOK
<1>4. WriterHolds'
  <2>1. \A i \in 0 .. wdone' - 1 : buf'[woff' + i] = sent' + i + 1
    <3> SUFFICES ASSUME NEW i \in 0 .. wdone' - 1
                 PROVE  buf'[woff' + i] = sent' + i + 1
      OBVIOUS
    <3>1. CASE i = wdone
      BY <3>1, <1>0, <1>2 DEF FillCell, TypeOK
    <3>2. CASE i < wdone
      <4>1. woff + i \in Index
        BY <3>2, <1>0, <1>1, Regions
      <4>2. buf[woff + i] = sent + i + 1
        BY <3>2, <1>0 DEF FillCell, IInv, WriterHolds
      <4>3. QED
        BY <3>2, <4>1, <4>2, <1>0, <1>2 DEF FillCell, TypeOK, Index
    <3>3. QED
      BY <3>1, <3>2, <1>0 DEF FillCell
  <2>2. QED
    BY <2>1, <1>0 DEF FillCell, IInv, WriterHolds
<1>5. Contents'
  BY <1>0, <1>1, <1>2 DEF FillCell, readerVars, IInv, TypeOK, Contents
<1>6. (WordOrdered /\ Conserved)'
  BY DEF FillCell, readerVars, IInv, WordOrdered, Conserved
<1>7. (ReaderHolds /\ ReaderIdle /\ ClosedOnce /\ NoPanic)'
  BY DEF FillCell, readerVars, IInv, ReaderHolds, ReaderIdle, ClosedOnce, NoPanic
<1>8. QED
  BY <1>3, <1>4, <1>5, <1>6, <1>7 DEF IInv

(* The writer still sees the room it was given, so that no assertion fails.  *)
LEMMA WriterHasRoom ==
  ASSUME IInv, wpc \in {"slice", "load", "cas"}
  PROVE  /\ Writable(word) # 0
         /\ ~WriterRefuses(word, wcnt)
<1>1. word \in Words /\ Ordered(word) /\ wcnt \in Nat /\ wcnt > 0
      /\ wcnt <= Writable(word)
  BY DEF IInv, TypeOK, WordOrdered, WriterHolds
<1>2. Writable(word) \in 0 .. Free(word) /\ Free(word) \in Nat
  BY <1>1, WordFacts, CapacityAssumption
<1>3. QED
  BY <1>1, <1>2 DEF WriterRefuses

LEMMA WriterReclaimKeeps ==
  ASSUME IInv, WriterReclaim
  PROVE  IInv'
<1>1. wpc' = "load"
  BY WriterHasRoom DEF WriterReclaim
<1>2. TypeOK' /\ WriterHolds'
  BY <1>1 DEF WriterReclaim, shared, readerVars, IInv, TypeOK, WriterHolds
<1>3. (WordOrdered /\ Conserved /\ Contents)'
  BY DEF WriterReclaim, shared, readerVars, IInv, WordOrdered, Conserved, Contents
<1>4. (ReaderHolds /\ ReaderIdle /\ ClosedOnce /\ NoPanic)'
  BY <1>1 DEF WriterReclaim, shared, readerVars, IInv, ReaderHolds, ReaderIdle,
         ClosedOnce, NoPanic
<1>5. QED
  BY <1>2, <1>3, <1>4 DEF IInv

LEMMA WriterLoadKeeps ==
  ASSUME IInv, WriterLoad \/ WriterRetry
  PROVE  IInv'
<1>1. wpc \in {"load", "cas"} /\ wpc' = "cas" /\ wseen' = word
  BY WriterHasRoom DEF WriterLoad, WriterRetry
<1>2. UNCHANGED <<shared, woff, wcnt, wdone, sent, readerVars>>
  BY DEF WriterLoad, WriterRetry
<1>3. TypeOK' /\ WriterHolds'
  BY <1>1, <1>2 DEF shared, readerVars, IInv, TypeOK, WriterHolds
<1>4. (WordOrdered /\ Conserved /\ Contents)'
  BY <1>2 DEF shared, readerVars, IInv, WordOrdered, Conserved, Contents
<1>5. (ReaderHolds /\ ReaderIdle /\ ClosedOnce /\ NoPanic)'
  BY <1>1, <1>2 DEF shared, readerVars, IInv, ReaderHolds, ReaderIdle,
                    ClosedOnce, NoPanic
<1>6. QED
  BY <1>3, <1>4, <1>5 DEF IInv

(* The compare-exchange publishes the cells of the slice, which hold the     *)
(* elements to come.                                                         *)
LEMMA WriterAdvanceKeeps ==
  ASSUME IInv, WriterAdvance
  PROVE  IInv'
<1>0. /\ word \in Words /\ Ordered(word) /\ wcnt \in Nat
      /\ wcnt \in 1 .. Writable(word) /\ woff = word.w /\ wdone = wcnt
      /\ word' = WriterMoved(word, wcnt)
      /\ sent \in Nat /\ taken \in Nat /\ taken' = taken /\ buf' = buf
      /\ sent' = sent + wcnt
      /\ Stored(word) = sent - taken
  <2>1. word \in Words /\ Ordered(word) /\ wcnt \in Nat /\ wcnt > 0
        /\ wcnt <= Writable(word) /\ woff = word.w /\ wdone = wcnt
    BY DEF WriterAdvance, IInv, TypeOK, WordOrdered, WriterHolds
  <2>2. wcnt \in 1 .. Writable(word)
    BY <2>1, WordFacts, CapacityAssumption
  <2>3. QED
    BY <2>1, <2>2 DEF WriterAdvance, readerVars, IInv, TypeOK, Conserved
<1>1. /\ word' \in Words
      /\ Ordered(word')
      /\ Stored(word') = Stored(word) + wcnt
      /\ word'.r = word.r
      /\ Readable(word) <= Readable(word')
  BY <1>0, WriterMoves
<1>2. TypeOK'
  BY <1>0, <1>1, EmptyIsWord
  DEF WriterAdvance, WriterReturns, readerVars, IInv, TypeOK
<1>3. Conserved' /\ WordOrdered'
  BY <1>0, <1>1 DEF Conserved, WordOrdered
<1>4. Contents'
  <2> SUFFICES ASSUME NEW c \in Index, Dist(word', c) < Stored(word')
               PROVE  buf[c] = taken + Dist(word, c) + 1
    BY <1>0, <1>1 DEF Contents, Dist
  <2>1. Dist(word', c) = Dist(word, c) /\ Dist(word, c) \in Int
    BY <1>0, <1>1, CapacityAssumption DEF Dist, Words, Index
  <2>2. CASE Dist(word, c) < Stored(word)
    BY <2>2 DEF IInv, Contents
  <2>3. CASE Dist(word, c) >= Stored(word)
    <3>1. Stored(word) \in Nat /\ Writable(word) \in Nat
      BY <1>0, WordFacts, CapacityAssumption
    <3>2. c = word.w + (Dist(word, c) - Stored(word))
      BY <1>0, <1>1, <2>1, <2>3, <3>1, FreeCell
    <3>3. Dist(word, c) - Stored(word) \in 0 .. wdone - 1
      BY <1>0, <1>1, <2>1, <2>3, <3>1
    <3>4. buf[woff + (Dist(word, c) - Stored(word))]
            = sent + (Dist(word, c) - Stored(word)) + 1
      BY <3>3 DEF WriterAdvance, IInv, WriterHolds
    <3>5. QED
      BY <1>0, <2>1, <3>1, <3>2, <3>4
  <2>4. QED
    BY <2>1, <2>2, <2>3, <1>0, WordFacts, CapacityAssumption
<1>5. ReaderHolds'
  <2>1. Readable(word) \in Int /\ Readable(word') \in Int
    BY <1>0, <1>1, WordFacts
  <2>2. QED
    BY <1>0, <1>1, <2>1
    DEF WriterAdvance, readerVars, IInv, TypeOK, ReaderHolds
<1>6. (WriterHolds /\ ReaderIdle /\ ClosedOnce /\ NoPanic)'
  BY DEF WriterAdvance, readerVars, IInv, WriterHolds, ReaderIdle, ClosedOnce,
         NoPanic
<1>7. QED
  BY <1>2, <1>3, <1>4, <1>5, <1>6 DEF IInv

LEMMA CloseWriterKeeps ==
  ASSUME IInv, CloseWriter
  PROVE  IInv'
<1>1. wpc' = "closed"
  BY DEF CloseWriter, IInv, ClosedOnce
<1>2. TypeOK' /\ WriterHolds'
  BY <1>1 DEF CloseWriter, readerVars, IInv, TypeOK, WriterHolds
<1>3. (WordOrdered /\ Conserved /\ Contents)'
  BY DEF CloseWriter, readerVars, IInv, WordOrdered, Conserved, Contents
<1>4. (ReaderHolds /\ ReaderIdle /\ ClosedOnce /\ NoPanic)'
  BY <1>1 DEF CloseWriter, readerVars, IInv, ReaderHolds, ReaderIdle,
              ClosedOnce, NoPanic
<1>5. QED
  BY <1>2, <1>3, <1>4 DEF IInv

-----------------------------------------------------------------------------
(* Every step preserves the invariant: the reader *)

(* What the writer's side of the invariant says is untouched by a step that  *)
(* leaves the writer and the shared state alone.                             *)
WriterSide == WordOrdered /\ Contents /\ WriterHolds

LEMMA WriterSideKept ==
  ASSUME IInv, UNCHANGED <<shared, writerVars>>, taken' = taken
  PROVE  WriterSide' /\ Conserved'
  BY DEF IInv, WriterSide, WordOrdered, Conserved, Contents, WriterHolds,
         shared, writerVars

LEMMA ReaderStartsKeeps ==
  ASSUME IInv, NEW pc \in {"slice", "peek"}, NEW enough \in BOOLEAN,
         NEW offset \in Nat, NEW length \in Int, NEW skip \in Nat,
         enough => /\ length \in Nat
                   /\ length > 0 => offset = word.r + skip
                   /\ skip + length <= Readable(word)
                   /\ pc = "slice" => skip = 0 /\ length > 0,
         ReaderStarts(enough, pc, offset, length, skip)
  PROVE  IInv'
<1>1. /\ rpc = "idle" /\ UNCHANGED <<shared, writerVars>> /\ taken' = taken
      /\ rseen' = rseen /\ rres' = "none"
  BY DEF ReaderStarts
<1>2. rdst' = << >>
  BY DEF ReaderStarts, ReaderSlice, IInv, ReaderIdle
<1>3. WriterSide' /\ Conserved'
  BY <1>1, WriterSideKept
<1>4. CASE enough
  <2>1. rpc' = pc /\ roff' = offset /\ rcnt' = length /\ rskip' = skip
    BY <1>4 DEF ReaderStarts, ReaderSlice
  <2>2. TypeOK'
    BY <1>1, <1>2, <1>4, <2>1 DEF IInv, TypeOK, shared, writerVars
  <2>3. ReaderHolds' /\ ReaderIdle'
    BY <1>1, <1>2, <1>4, <2>1 DEF ReaderHolds, ReaderIdle, shared
  <2>4. ClosedOnce' /\ NoPanic'
    BY <1>1, <2>1 DEF IInv, ClosedOnce, NoPanic, shared, writerVars
  <2>5. QED
    BY <1>3, <2>2, <2>3, <2>4 DEF IInv, WriterSide
<1>5. CASE ~enough
  <2>1. rpc' = "refused" /\ UNCHANGED <<roff, rcnt, rskip>>
    BY <1>5 DEF ReaderStarts
  <2>2. TypeOK'
    BY <1>1, <1>2, <2>1 DEF IInv, TypeOK, shared, writerVars
  <2>3. ReaderHolds' /\ ReaderIdle'
    BY <1>2, <2>1 DEF ReaderHolds, ReaderIdle
  <2>4. ClosedOnce' /\ NoPanic'
    BY <1>1, <2>1 DEF IInv, ClosedOnce, NoPanic, shared, writerVars
  <2>5. QED
    BY <1>3, <2>2, <2>3, <2>4 DEF IInv, WriterSide
<1>6. QED
  BY <1>4, <1>5

(* The reader's three ways to obtain a slice.                                *)
LEMMA ReaderObtainsKeeps ==
  ASSUME IInv,
         \/ \E length \in Nat \ {0} : TryRead(length)
         \/ \E skip \in Nat : TryPeek(skip)
         \/ CanRead
  PROVE  IInv'
<1>1. /\ word \in Words /\ Ordered(word) /\ Readable(word) \in Nat
      /\ word.r \in Nat /\ word.r < Capacity
      /\ word.r + Readable(word) <= Capacity
  <2>1. word \in Words /\ Ordered(word)
    BY DEF IInv, TypeOK, WordOrdered
  <2>2. QED
    BY <2>1, WordFacts, CapacityAssumption DEF Words, Index
<1>2. ASSUME NEW length \in Nat \ {0}, TryRead(length)
      PROVE  IInv'
  <2>1. MinOf(Readable(word), length) \in Nat
        /\ MinOf(Readable(word), length) <= Readable(word)
        /\ (Readable(word) > 0 => MinOf(Readable(word), length) > 0)
    BY <1>1 DEF MinOf
  <2> DEFINE enough == Readable(word) > 0
             least == MinOf(Readable(word), length)
  <2>2. ReaderStarts(enough, "slice", word.r, least, 0)
    BY <1>2 DEF TryRead
  <2>3. least \in Nat /\ (enough => 0 + least <= Readable(word) /\ least > 0)
        /\ enough \in BOOLEAN /\ word.r = word.r + 0
    BY <1>1, <2>1
  <2> HIDE DEF enough, least
  <2>4. QED
    BY <1>1, <2>2, <2>3, ReaderStartsKeeps
<1>3. ASSUME NEW skip \in Nat, TryPeek(skip)
      PROVE  IInv'
  <2> DEFINE enough == Readable(word) >= skip /\ Readable(word) > 0
             offset == (word.r + skip) % Capacity
             length == Readable(word) - skip
  <2>1. offset \in Nat /\ length \in Int /\ enough \in BOOLEAN
    BY <1>1, CapacityAssumption
  <2>2. ASSUME enough
        PROVE  /\ length \in Nat
               /\ length > 0 => offset = word.r + skip
               /\ skip + length <= Readable(word)
    BY <1>1, <2>2, Wrap, CapacityAssumption
  <2>3. ReaderStarts(enough, "peek", offset, length, skip)
    BY <1>3 DEF TryPeek
  <2> HIDE DEF enough, offset, length
  <2>4. QED
    BY <2>1, <2>2, <2>3, ReaderStartsKeeps
<1>4. ASSUME CanRead
      PROVE  IInv'
  <2> DEFINE enough == Readable(word) > 0
  <2>1. enough \in BOOLEAN /\ 0 + 0 <= Readable(word)
    BY <1>1
  <2>2. ReaderStarts(enough, "peek", word.r, 0, 0)
    BY <1>4 DEF CanRead
  <2> HIDE DEF enough
  <2>3. QED
    BY <1>1, <2>1, <2>2, ReaderStartsKeeps
<1>5. QED
  BY <1>2, <1>3, <1>4

LEMMA ReaderRefusedKeeps ==
  ASSUME IInv, ReaderRefused
  PROVE  IInv'
<1>1. /\ UNCHANGED <<shared, writerVars, taken, rdst>> /\ rpc' = "idle"
      /\ rpc = "refused"
  BY DEF ReaderRefused
<1>2. WriterSide' /\ Conserved'
  BY <1>1, WriterSideKept
<1>3. TypeOK'
  BY DEF ReaderRefused, IInv, TypeOK, shared, writerVars
<1>4. (ReaderHolds /\ ReaderIdle /\ ClosedOnce /\ NoPanic)'
  BY <1>1 DEF IInv, ReaderHolds, ReaderIdle, ClosedOnce, NoPanic, shared, writerVars
<1>5. QED
  BY <1>2, <1>3, <1>4 DEF IInv, WriterSide

(* The cell copied is in use, and holds the element its distance says.       *)
LEMMA CopyCellKeeps ==
  ASSUME IInv, CopyCell
  PROVE  IInv'
<1>1. /\ rpc \in {"slice", "peek"} /\ Len(rdst) < rcnt
      /\ rdst' = Append(rdst, buf[roff + Len(rdst)])
      /\ UNCHANGED <<shared, writerVars, rpc, rseen, roff, rcnt, rskip, rres, taken>>
      /\ TypeOK /\ ReaderHolds
  BY DEF CopyCell, IInv
<1>2. WriterSide' /\ Conserved'
  BY <1>1, WriterSideKept
<1>3. /\ word \in Words /\ Ordered(word) /\ Len(rdst) \in Nat /\ rskip \in Nat
      /\ rcnt \in Nat /\ rdst \in Seq(Nat) /\ taken \in Nat
      /\ roff = word.r + rskip /\ rskip + Len(rdst) < Readable(word)
  <2>1. word \in Words /\ Ordered(word) /\ Len(rdst) \in Nat /\ rskip \in Nat
        /\ rcnt \in Nat /\ rdst \in Seq(Nat) /\ taken \in Nat
    BY <1>1 DEF IInv, TypeOK, WordOrdered
  <2>2. Readable(word) \in Int
    BY <2>1, WordFacts
  <2>3. QED
    BY <1>1, <2>1, <2>2 DEF ReaderHolds
<1>4. /\ roff + Len(rdst) \in Index
      /\ buf[roff + Len(rdst)] = taken + rskip + Len(rdst) + 1
  <2> DEFINE i == rskip + Len(rdst)
  <2>1. /\ i \in Nat /\ i < Readable(word) /\ roff + Len(rdst) = word.r + i
        /\ word.r \in Int
    BY <1>3 DEF Words, Index
  <2>2. i < Stored(word)
    BY <1>3, <2>1, WordFacts, CapacityAssumption
  <2> HIDE DEF i
  <2>3. word.r + i \in Index /\ Dist(word, word.r + i) = i
    BY <1>3, <2>1, Regions
  <2>4. buf[word.r + i] = taken + i + 1
    BY <2>2, <2>3 DEF IInv, Contents
  <2>5. QED
    BY <1>3, <2>1, <2>3, <2>4 DEF i
<1>5. rdst' \in Seq(Nat) /\ Len(rdst') = Len(rdst) + 1
  BY <1>1, <1>3, <1>4
<1>6. TypeOK'
  BY <1>1, <1>5 DEF TypeOK, shared, writerVars
<1>7. ReaderHolds'
  <2>1. ASSUME NEW i \in 1 .. Len(rdst')
        PROVE  rdst'[i] = taken + rskip + i
    <3>1. CASE i = Len(rdst) + 1
      BY <3>1, <1>1, <1>3, <1>4
    <3>2. CASE i \in 1 .. Len(rdst)
      BY <3>2, <1>1, <1>3, <1>4 DEF ReaderHolds
    <3>3. QED
      BY <3>1, <3>2, <1>3, <1>5
  <2>2. QED
    BY <2>1, <1>1, <1>3, <1>5 DEF ReaderHolds, shared
<1>8. (ReaderIdle /\ ClosedOnce /\ NoPanic)'
  BY <1>1 DEF IInv, ReaderIdle, ClosedOnce, NoPanic, shared, writerVars
<1>9. QED
  BY <1>2, <1>6, <1>7, <1>8 DEF IInv, WriterSide

LEMMA EndPeekKeeps ==
  ASSUME IInv, EndPeek
  PROVE  IInv'
<1>1. /\ UNCHANGED <<shared, writerVars, taken>> /\ rpc' = "idle"
      /\ rpc = "peek" /\ rdst' = << >>
  BY DEF EndPeek, ReaderReturns
<1>2. WriterSide' /\ Conserved'
  BY <1>1, WriterSideKept
<1>3. TypeOK'
  BY <1>1, EmptyIsWord DEF EndPeek, ReaderReturns, IInv, TypeOK, shared, writerVars
<1>4. (ReaderHolds /\ ReaderIdle /\ ClosedOnce /\ NoPanic)'
  BY <1>1 DEF IInv, ReaderHolds, ReaderIdle, ClosedOnce, NoPanic, shared, writerVars
<1>5. QED
  BY <1>2, <1>3, <1>4 DEF IInv, WriterSide

(* The reader still sees the elements it was given.                          *)
LEMMA ReaderHasData ==
  ASSUME IInv, rpc \in {"slice", "load", "cas"}
  PROVE  /\ Readable(word) # 0
         /\ ~ReaderRefuses(word, rcnt)
<1>1. word \in Words /\ Ordered(word) /\ rcnt \in Nat /\ rcnt > 0
      /\ 0 + rcnt <= Readable(word)
  BY DEF IInv, TypeOK, WordOrdered, ReaderHolds
<1>2. Readable(word) \in 0 .. Stored(word) /\ Stored(word) \in Nat
  BY <1>1, WordFacts, CapacityAssumption
<1>3. QED
  BY <1>1, <1>2 DEF ReaderRefuses

LEMMA ReaderReclaimKeeps ==
  ASSUME IInv, ReaderReclaim
  PROVE  IInv'
<1>1. /\ rpc = "slice" /\ rpc' = "load" /\ Len(rdst) = rcnt
      /\ UNCHANGED <<shared, writerVars, rseen, roff, rcnt, rskip, rdst, rres, taken>>
  BY ReaderHasData DEF ReaderReclaim
<1>2. WriterSide' /\ Conserved'
  BY <1>1, WriterSideKept
<1>3. TypeOK' /\ ReaderHolds'
  BY <1>1 DEF IInv, TypeOK, ReaderHolds, shared, writerVars
<1>4. (ReaderIdle /\ ClosedOnce /\ NoPanic)'
  BY <1>1 DEF IInv, ReaderIdle, ClosedOnce, NoPanic, shared, writerVars
<1>5. QED
  BY <1>2, <1>3, <1>4 DEF IInv, WriterSide

LEMMA ReaderLoadKeeps ==
  ASSUME IInv, ReaderLoad \/ ReaderRetry
  PROVE  IInv'
<1>1. /\ rpc \in {"load", "cas"} /\ rpc' = "cas" /\ rseen' = word
      /\ UNCHANGED <<shared, writerVars, roff, rcnt, rskip, rdst, rres, taken>>
  BY ReaderHasData DEF ReaderLoad, ReaderRetry
<1>2. WriterSide' /\ Conserved'
  BY <1>1, WriterSideKept
<1>3. TypeOK' /\ ReaderHolds'
  BY <1>1 DEF IInv, TypeOK, ReaderHolds, shared, writerVars
<1>4. (ReaderIdle /\ ClosedOnce /\ NoPanic)'
  BY <1>1 DEF IInv, ReaderIdle, ClosedOnce, NoPanic, shared, writerVars
<1>5. QED
  BY <1>2, <1>3, <1>4 DEF IInv, WriterSide

(* The compare-exchange releases the elements of the slice; the others are   *)
(* so much nearer to the reader's new position.                              *)
LEMMA ReaderAdvanceKeeps ==
  ASSUME IInv, ReaderAdvance
  PROVE  IInv'
<1>1. /\ word \in Words /\ Ordered(word) /\ rcnt \in 1 .. Readable(word)
      /\ rcnt \in Nat /\ word' = ReaderMoved(word, rcnt)
      /\ sent \in Nat /\ taken \in Nat /\ taken' = taken + rcnt
      /\ buf' = buf /\ sent' = sent
      /\ Stored(word) = sent - taken
  <2>1. word \in Words /\ Ordered(word) /\ rcnt \in Nat /\ rcnt > 0
        /\ 0 + rcnt <= Readable(word)
    BY DEF ReaderAdvance, IInv, TypeOK, WordOrdered, ReaderHolds
  <2>2. rcnt \in 1 .. Readable(word)
    BY <2>1, WordFacts
  <2>3. QED
    BY <2>1, <2>2 DEF ReaderAdvance, writerVars, IInv, TypeOK, Conserved
<1>2. /\ word' \in Words
      /\ Ordered(word')
      /\ Stored(word') = Stored(word) - rcnt
      /\ word'.w = word.w
      /\ Writable(word) <= Writable(word')
      /\ \A c \in Index :
           Dist(word', c) < Stored(word') => Dist(word, c) = Dist(word', c) + rcnt
  BY <1>1, ReaderMoves
<1>3. TypeOK'
  BY <1>1, <1>2, EmptyIsWord
  DEF ReaderAdvance, ReaderReturns, writerVars, IInv, TypeOK
<1>4. Conserved' /\ WordOrdered'
  BY <1>1, <1>2 DEF Conserved, WordOrdered
<1>5. Contents'
  <2> SUFFICES ASSUME NEW c \in Index, Dist(word', c) < Stored(word')
               PROVE  buf[c] = (taken + rcnt) + Dist(word', c) + 1
    BY <1>1 DEF Contents
  <2>1. Dist(word, c) = Dist(word', c) + rcnt
    BY <1>2
  <2>2. Dist(word', c) \in Int /\ Stored(word) \in Int
    BY <1>1, <1>2, CapacityAssumption DEF Dist, Words, Index
  <2>3. Dist(word, c) < Stored(word)
    BY <1>1, <1>2, <2>1, <2>2
  <2>4. buf[c] = taken + Dist(word, c) + 1
    BY <2>3 DEF IInv, Contents
  <2>5. QED
    BY <1>1, <2>1, <2>2, <2>4
<1>6. WriterHolds'
  <2>1. Writable(word) \in Int /\ Writable(word') \in Int
    BY <1>1, <1>2, WordFacts
  <2>2. QED
    BY <1>1, <1>2, <2>1
    DEF ReaderAdvance, writerVars, IInv, TypeOK, WriterHolds
<1>7. (ReaderHolds /\ ReaderIdle /\ ClosedOnce /\ NoPanic)'
  BY DEF ReaderAdvance, ReaderReturns, writerVars, IInv, ReaderHolds, ReaderIdle,
         ClosedOnce, NoPanic
<1>8. QED
  BY <1>3, <1>4, <1>5, <1>6, <1>7 DEF IInv

LEMMA CloseReaderKeeps ==
  ASSUME IInv, CloseReader
  PROVE  IInv'
<1>1. rpc' = "closed"
  BY DEF CloseReader, IInv, ClosedOnce
<1>2. TypeOK'
  BY <1>1 DEF CloseReader, writerVars, IInv, TypeOK
<1>3. (WordOrdered /\ Conserved /\ Contents /\ WriterHolds)'
  BY DEF CloseReader, writerVars, IInv, WordOrdered, Conserved, Contents, WriterHolds
<1>4. (ReaderHolds /\ ReaderIdle /\ ClosedOnce /\ NoPanic)'
  BY <1>1 DEF CloseReader, writerVars, IInv, ReaderHolds, ReaderIdle, ClosedOnce,
              NoPanic
<1>5. QED
  BY <1>2, <1>3, <1>4 DEF IInv

LEMMA StutterKeeps ==
  ASSUME IInv, UNCHANGED vars
  PROVE  IInv'
<1>1. WriterSide' /\ Conserved'
  BY WriterSideKept DEF vars, readerVars
<1>2. (TypeOK /\ ReaderHolds /\ ReaderIdle /\ ClosedOnce /\ NoPanic)'
  BY DEF vars, shared, writerVars, readerVars, IInv, TypeOK, ReaderHolds,
         ReaderIdle, ClosedOnce, NoPanic
<1>3. QED
  BY <1>1, <1>2 DEF IInv, WriterSide

-----------------------------------------------------------------------------
(* The theorems *)

LEMMA InitEstablishes == Init => IInv
<1> SUFFICES ASSUME Init PROVE IInv
  OBVIOUS
<1>1. word = EmptyWord /\ Stored(word) = 0
  BY DEF Init, Stored, EmptyWord
<1>2. TypeOK
  BY <1>1, EmptyIsWord DEF Init, TypeOK
<1>3. WordOrdered /\ Conserved
  BY <1>1, EmptyIsWord DEF Init, WordOrdered, Conserved
<1>4. Contents
  BY <1>1, CapacityAssumption DEF Contents, Dist, EmptyWord, Index
<1>5. WriterHolds /\ ReaderHolds /\ ReaderIdle /\ ClosedOnce /\ NoPanic
  BY DEF Init, WriterHolds, ReaderHolds, ReaderIdle, ClosedOnce, NoPanic
<1>6. QED
  BY <1>2, <1>3, <1>4, <1>5 DEF IInv

LEMMA NextKeeps ==
  ASSUME 0 \notin Lengths, IInv, [Next]_vars
  PROVE  IInv'
<1>1. \A length \in Lengths : length \in Nat \ {0} /\ length > 0
  BY BuffStateAssumption
<1>2. Skips \subseteq Nat
  BY BuffStateAssumption
<1>3. CASE WriterNext
  <2>1. CASE \E length \in Lengths : TryWrite(length)
    BY <2>1, <1>1, TryWriteKeeps
  <2>2. CASE WriterStep
    BY <2>2, WriterRefusedKeeps, FillCellKeeps, WriterReclaimKeeps,
       WriterLoadKeeps, WriterAdvanceKeeps DEF WriterStep
  <2>3. CASE CloseWriter
    BY <2>3, CloseWriterKeeps
  <2>4. QED
    BY <1>3, <2>1, <2>2, <2>3 DEF WriterNext
<1>4. CASE ReaderNext
  <2>1. CASE ReadSome \/ (\E skip \in Skips : TryPeek(skip)) \/ CanRead
    BY <2>1, <1>1, <1>2, ReaderObtainsKeeps DEF ReadSome
  <2>2. CASE ReaderStep
    BY <2>2, ReaderRefusedKeeps, CopyCellKeeps, EndPeekKeeps,
       ReaderReclaimKeeps, ReaderLoadKeeps, ReaderAdvanceKeeps DEF ReaderStep
  <2>3. CASE CloseReader
    BY <2>3, CloseReaderKeeps
  <2>4. QED
    BY <1>4, <2>1, <2>2, <2>3 DEF ReaderNext
<1>5. CASE Finished \/ UNCHANGED vars
  BY <1>5, StutterKeeps DEF Finished
<1>6. QED
  BY <1>3, <1>4, <1>5 DEF Next

(* The invariant holds of every execution in which no slice of zero elements *)
(* is asked for.                                                             *)
THEOREM Invariance ==
  ASSUME 0 \notin Lengths
  PROVE  Spec => []IInv
<1>1. Init => IInv
  BY InitEstablishes
<1>2. IInv /\ [Next]_vars => IInv'
  BY NextKeeps
<1>3. QED
  BY <1>1, <1>2, PTL DEF Spec

(* The slices of the two threads never overlap: the writer's is in the free  *)
(* part of the ring and the reader's in the part in use.                     *)
LEMMA DisjointFromInvariant == IInv => SlicesDisjoint
<1> SUFFICES ASSUME IInv PROVE SlicesDisjoint
  OBVIOUS
<1>1. /\ word \in Words /\ Ordered(word) /\ word.r \in Int /\ word.w \in Int
      /\ Readable(word) \in Int /\ Writable(word) \in Int /\ Stored(word) \in Int
      /\ Readable(word) <= Stored(word)
  <2>1. word \in Words /\ Ordered(word)
    BY DEF IInv, TypeOK, WordOrdered
  <2>2. QED
    BY <2>1, WordFacts, CapacityAssumption DEF Words, Index
<1>2. ASSUME NEW c \in WriterCells
      PROVE  c \in Index /\ Dist(word, c) >= Stored(word)
  <2>1. /\ woff = word.w /\ wcnt \in Nat /\ wcnt <= Writable(word)
        /\ c \in word.w .. word.w + wcnt - 1
    BY <1>2 DEF WriterCells, IInv, TypeOK, WriterHolds
  <2> DEFINE i == c - word.w
  <2>2. i \in Nat /\ i < Writable(word) /\ c = word.w + i
    BY <2>1, <1>1
  <2> HIDE DEF i
  <2>3. QED
    BY <2>2, <1>1, Regions
<1>3. ASSUME NEW c \in ReaderCells
      PROVE  c \in Index /\ Dist(word, c) < Stored(word)
  <2>1. /\ rcnt \in Nat /\ rskip \in Nat /\ rcnt > 0
        /\ roff = word.r + rskip /\ rskip + rcnt <= Readable(word)
        /\ c \in roff .. roff + rcnt - 1
    BY <1>3 DEF ReaderCells, IInv, TypeOK, ReaderHolds
  <2> DEFINE i == c - word.r
  <2>2. i \in Nat /\ i < Readable(word) /\ c = word.r + i
    BY <2>1, <1>1
  <2> HIDE DEF i
  <2>3. QED
    BY <2>2, <1>1, Regions
<1>4. \A c \in Index : Dist(word, c) \in Int
  BY <1>1, CapacityAssumption DEF Dist, Index
<1>5. QED
  BY <1>1, <1>2, <1>3, <1>4 DEF SlicesDisjoint

LEMMA ReachFromInvariant == IInv => NothingOutOfReach
  BY WordFacts DEF IInv, TypeOK, WordOrdered, NothingOutOfReach

(* What the reader copies is what it holds in the invariant.                 *)
LEMMA OrderFromInvariant == IInv => ReadsInOrder
  BY DEF IInv, ReaderHolds, ReaderIdle, NoPanic, TypeOK, ReadsInOrder

(* Every variable keeps its type.                                            *)
THEOREM TypeCorrect ==
  ASSUME 0 \notin Lengths
  PROVE  Spec => []TypeOK
<1>1. IInv => TypeOK
  BY DEF IInv
<1>2. QED
  BY <1>1, Invariance, PTL

(* No data race on the cells of the buffer.                                  *)
THEOREM NoDataRace ==
  ASSUME 0 \notin Lengths
  PROVE  Spec => []SlicesDisjoint
  BY Invariance, DisjointFromInvariant, PTL

(* The reader gets the writer's elements in the writer's order.              *)
THEOREM InOrder ==
  ASSUME 0 \notin Lengths
  PROVE  Spec => []ReadsInOrder
  BY Invariance, OrderFromInvariant, PTL

(* No element is lost or counted twice by an update of the position word.    *)
THEOREM WordCorrect ==
  ASSUME 0 \notin Lengths
  PROVE  Spec => []Conserved
<1>1. IInv => Conserved
  BY DEF IInv
<1>2. QED
  BY <1>1, Invariance, PTL

(* The assertions of load_positions_ hold: the positions stay in the order   *)
(* that INVERT says.                                                         *)
THEOREM PositionsOrdered ==
  ASSUME 0 \notin Lengths
  PROVE  Spec => []WordOrdered
<1>1. IInv => WordOrdered
  BY DEF IInv
<1>2. QED
  BY <1>1, Invariance, PTL

(* No assertion of the reclaimers or of the closing of the cells fails.      *)
THEOREM AssertionsHold ==
  ASSUME 0 \notin Lengths
  PROVE  Spec => []NoPanic
<1>1. IInv => NoPanic
  BY DEF IInv
<1>2. QED
  BY <1>1, Invariance, PTL

(* Stuffed is said only of a full buffer, and Drained only of an empty one.  *)
THEOREM Reachable ==
  ASSUME 0 \notin Lengths
  PROVE  Spec => []NothingOutOfReach
  BY Invariance, ReachFromInvariant, PTL
=============================================================================
