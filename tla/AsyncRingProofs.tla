-------------------------- MODULE AsyncRingProofs --------------------------
(***************************************************************************)
(* The asynchronous ring buffer, for every capacity and every way of       *)
(* cutting the stream into spans: the reader copies what the writer wrote, *)
(* in order, also between two threads; and with tasks that take turns the  *)
(* waiting keeps the promise of module Channel.                            *)
(***************************************************************************)
EXTENDS AsyncRing, DemandsProofs, SequenceTheorems

-----------------------------------------------------------------------------
(* The inductive invariant of the stream *)

(* The label of element number x of the stream, and of number k of those     *)
(* that have not been read.                                                  *)
Wrapped(x) == x % Labels
Label(k)   == Wrapped(taken + k)

(* The cells in use hold the elements that follow those read, and the next   *)
(* one to be written follows them.                                           *)
CellsHold ==
  /\ \A c \in Index : Dist(word, c) < Stored(word)
                        => buf[c] = Label(Dist(word, c))
  /\ sent = Label(Stored(word))

(* A slice that has been filled holds the elements that come next.           *)
SliceFilled ==
  filled =>
    /\ pc["writer"] = "holding"
    /\ \A i \in 0 .. held["writer"] - 1 :
         buf[word.w + i] = Label(Stored(word) + i)

(* What has been copied is the whole slice.                                  *)
SliceCopied ==
  got # << >> => pc["reader"] = "holding" /\ Len(got) = held["reader"]

(* No slice is longer than what is left of the span.                         *)
SpanLeft ==
  \A side \in Sides : pc[side] = "holding" => held[side] <= left[side]

InStream ==
  /\ Sound
  /\ ~peeking
  /\ RingTypeOK
  /\ CellsHold
  /\ SliceFilled
  /\ SliceCopied
  /\ ReadsInOrder
  /\ SpanLeft

-----------------------------------------------------------------------------
(* The numbers of the elements *)

(* Numbers that are less than two rounds apart wrap once.                    *)
LEMMA LabelWrap ==
  ASSUME NEW x \in 0 .. 2 * Labels - 1
  PROVE  /\ Wrapped(x) = IF x < Labels THEN x ELSE x - Labels
         /\ Wrapped(x) \in 0 .. Labels - 1
  BY AsyncRingAssumption, CapacityAssumption, SMTT(30) DEF Wrapped

(* Counting on by m and then by n counts on by m + n.                        *)
LEMMA LabelPlus ==
  ASSUME NEW a \in 0 .. Labels - 1, NEW m \in Nat, NEW n \in Nat,
         m + n <= Capacity
  PROVE  /\ Wrapped(Wrapped(a + m) + n) = Wrapped(a + (m + n))
         /\ Wrapped(a + m) \in 0 .. Labels - 1
         /\ Wrapped(a + (m + n)) \in 0 .. Labels - 1
<1>1. Labels \in Nat /\ Capacity \in Nat /\ Labels > Capacity
  BY AsyncRingAssumption, CapacityAssumption
<1>2. /\ a + m \in 0 .. 2 * Labels - 1
      /\ a + (m + n) \in 0 .. 2 * Labels - 1
  BY <1>1
<1>3. Wrapped(a + m) + n \in 0 .. 2 * Labels - 1
  BY <1>1, <1>2, LabelWrap
<1>4. QED
  BY <1>1, <1>2, <1>3, LabelWrap

-----------------------------------------------------------------------------
(* Its preservation *)

(* A task asks for what is left of a span, which is something.               *)
LEMMA TasksAsk == AsksForSome
  BY AsyncRingAssumption DEF AsksForSome

(* What the calls of a side leave alone: the word, the slices held.          *)
LEMMA CallFrame ==
  ASSUME Sound, ~peeking, NEW side \in Sides,
         Begin(side) \/ Step(side) \/ Repoll(side) \/ Close(side)
  PROVE  /\ word' = word
         /\ ~peeking'
         /\ pc[side] # "holding"
         /\ \A other \in Sides \ {side} : /\ pc'[other] = pc[other]
                                          /\ held'[other] = held[other]
<1> USE DEF Sound, TypeOK, Goto, asked
<1>1. CASE Begin(side) \/ Repoll(side) \/ Close(side)
  BY <1>1 DEF Begin, Repoll, Close
<1>2. CASE Poll(side) \/ Retry(side)
  BY <1>2 DEF Poll, Retry, Try
<1>3. CASE \/ FindsClosing(side) \/ Enqueue(side) \/ CheckAgain(side)
           \/ Abort(side) \/ Denied(side)
  BY <1>3 DEF FindsClosing, Enqueue, CheckAgain, Abort, Denied, AskEnds
<1>4. CASE Check(side) \/ Park(side) \/ Await(side)
  BY <1>4 DEF Check, Park, Await
<1>5. CASE \/ SignalLoad(side) \/ SignalCheck(side) \/ SignalTake(side)
           \/ SignalSend(side)
  BY <1>5 DEF SignalLoad, SignalCheck, SignalTake, SignalSend, SignalDone
<1>6. QED
  BY <1>1, <1>2, <1>3, <1>4, <1>5 DEF Step

(* The tasks take no step that the callers of Demands do not.                *)
LEMMA RingStepIsStep ==
  ASSUME RingNext \/ UNCHANGED ringVars
  PROVE  /\ Turn \/ UNCHANGED vars
         /\ [Next]_vars
<1>1. CASE UNCHANGED ringVars
  BY <1>1 DEF ringVars
<1>2. CASE RingNext
  <2>1. PICK side \in Sides :
          /\ MayRun(side)
          /\ \/ Ask(side) \/ Proceed(side) \/ Resume(side)
             \/ Use(side) \/ Return(side) \/ Leave(side)
    BY <1>2 DEF RingNext
  <2>2. \/ Step(side) \/ Continue(side) \/ Close(side)
        \/ UNCHANGED vars
    BY <2>1
    DEF Ask, Proceed, Resume, Use, Fill, Copy, Return, Leave, Continue
  <2>3. QED
    BY <2>1, <2>2 DEF Turn, Next
<1>3. QED
  BY <1>1, <1>2

(* The calls leave the stream as it is, and give no more than was asked for. *)
LEMMA CallInStream ==
  ASSUME InStream, Sound', NEW side \in Sides,
         Ask(side) \/ Proceed(side) \/ Resume(side) \/ Leave(side)
  PROVE  InStream'
<1>1. /\ word' = word /\ ~peeking' /\ pc[side] # "holding"
      /\ \A other \in Sides \ {side} : /\ pc'[other] = pc[other]
                                       /\ held'[other] = held[other]
  BY CallFrame DEF InStream, Ask, Proceed, Resume, Leave
<1>2. UNCHANGED <<buf, sent, taken, filled, got>>
  BY DEF Ask, Proceed, Resume, Leave, stream
<1>3. /\ left' \in [Sides -> Spans \cup Nat]
      /\ \A other \in Sides \ {side} : left'[other] = left[other]
      /\ pc'[side] = "holding" => held'[side] <= left'[side]
  <2>0. left \in [Sides -> Nat] /\ Spans \subseteq Nat
    BY AsyncRingAssumption DEF InStream, RingTypeOK
  <2>1. CASE Ask(side)
    BY <2>0, <2>1 DEF InStream, Sound, TypeOK, Ask, Begin, Goto
  <2>2. CASE Proceed(side)
    <3>1. left'[side] = left[side] \/ pc'[side] # "holding"
      BY <2>0, <2>2 DEF Proceed
    <3>2. pc'[side] = "holding" => held'[side] <= left[side]
      <4>1. Room(side) \in Nat
        BY RoomIsLength DEF InStream, Sound
      <4>2. QED
        BY <2>0, <2>2, <4>1 DEF Proceed, MinOf
    <3>3. QED
      BY <2>0, <2>2, <3>1, <3>2 DEF Proceed
  <2>3. CASE Resume(side)
    BY <2>0, <2>3 DEF InStream, Sound, TypeOK, Resume, Repoll, Goto
  <2>4. CASE Leave(side)
    BY <2>0, <2>4 DEF InStream, Sound, TypeOK, Leave, Close, Goto
  <2>5. QED
    BY <2>1, <2>2, <2>3, <2>4
<1>4. RingTypeOK'
  BY <1>2, <1>3 DEF InStream, Sound, RingTypeOK
<1>5. CellsHold' /\ ReadsInOrder'
  BY <1>1, <1>2 DEF InStream, CellsHold, Label, ReadsInOrder
<1>6. SliceFilled' /\ SliceCopied'
  BY <1>1, <1>2 DEF InStream, SliceFilled, SliceCopied, Label, Sides
<1>7. SpanLeft'
  BY <1>1, <1>3 DEF InStream, SpanLeft
<1>8. QED
  BY <1>1, <1>4, <1>5, <1>6, <1>7 DEF InStream

(* The writer fills cells that are not in use.                               *)
LEMMA FillInStream ==
  ASSUME InStream, Fill
  PROVE  InStream'
<1> DEFINE n == held["writer"]
           w == word.w
<1>1. /\ word \in Words /\ Ordered(word)
      /\ n \in Nat /\ n <= Writable(word)
      /\ Stored(word) \in Nat /\ Stored(word) + n <= Capacity
      /\ pc["writer"] = "holding"
      /\ word.w \in Nat
      /\ UNCHANGED <<word, held, pc, peeking, sent, taken, left, got>>
      /\ filled' = TRUE
  <2>1. word \in Words /\ Ordered(word) /\ n \in Nat /\ n <= Writable(word)
    BY CapacityAssumption, WordFacts
    DEF InStream, Sound, TypeOK, Fill, SliceStaysGood, Room, Sides
  <2>2. QED
    BY <2>1, WordFacts, CapacityAssumption DEF Fill, vars, asked, Words, Index
<1>2. buf' = [c \in Index |-> IF c \in w .. w + n - 1
                              THEN Wrapped(sent + c - w) ELSE buf[c]]
  BY DEF Fill, Wrapped
<1>3. Sound'
  BY TasksAsk, NextSound DEF InStream, Fill
<1>4. \A i \in 0 .. n - 1 : /\ w + i \in Index
                            /\ Dist(word, w + i) = Stored(word) + i
                            /\ buf'[w + i] = Label(Stored(word) + i)
  <2> SUFFICES ASSUME NEW i \in 0 .. n - 1
               PROVE  /\ w + i \in Index
                      /\ Dist(word, w + i) = Stored(word) + i
                      /\ buf'[w + i] = Label(Stored(word) + i)
    OBVIOUS
  <2>1. w + i \in Index /\ Dist(word, w + i) = Stored(word) + i
    BY <1>1, Regions, WordFacts
  <2>2. buf'[w + i] = Wrapped(sent + i)
    <3>1. w + i \in w .. w + n - 1 /\ sent + (w + i) - w = sent + i
      BY <1>1 DEF InStream, RingTypeOK
    <3>2. QED
      BY <1>2, <2>1, <3>1
  <2>3. Wrapped(sent + i) = Wrapped(taken + (Stored(word) + i))
    <3>1. sent = Wrapped(taken + Stored(word)) /\ taken \in 0 .. Labels - 1
      BY DEF InStream, RingTypeOK, CellsHold, Label
    <3>2. i \in Nat /\ Stored(word) + i <= Capacity
      BY <1>1, CapacityAssumption
    <3>3. QED
      BY <1>1, <3>1, <3>2, LabelPlus, Zenon
  <2>4. QED
    BY <2>1, <2>2, <2>3 DEF Label
<1>5. \A c \in Index : Dist(word, c) < Stored(word) => buf'[c] = buf[c]
  <2> SUFFICES ASSUME NEW c \in Index, Dist(word, c) < Stored(word)
               PROVE  buf'[c] = buf[c]
    OBVIOUS
  <2>1. c \notin w .. w + n - 1
    <3> SUFFICES ASSUME c \in w .. w + n - 1
                 PROVE  FALSE
      OBVIOUS
    <3>1. c - w \in 0 .. n - 1 /\ w + (c - w) = c
      BY <1>1 DEF Index
    <3>2. QED
      BY <1>1, <1>4, <3>1
  <2>2. QED
    BY <1>2, <2>1
<1>6. RingTypeOK'
  <2>1. buf' \in [Index -> 0 .. Labels - 1]
    <3> SUFFICES ASSUME NEW c \in Index
                 PROVE  buf'[c] \in 0 .. Labels - 1
      BY <1>2
    <3>1. CASE c \in w .. w + n - 1
      <4>1. sent + c - w \in 0 .. 2 * Labels - 1
        <5>1. c - w \in 0 .. Capacity
          BY <1>1, <3>1, CapacityAssumption DEF Index
        <5>2. sent \in 0 .. Labels - 1
          BY DEF InStream, RingTypeOK
        <5>3. QED
          BY <1>1, <5>1, <5>2, <3>1, AsyncRingAssumption, CapacityAssumption
      <4>2. QED
        BY <1>2, <3>1, <4>1, LabelWrap
    <3>2. CASE c \notin w .. w + n - 1
      BY <1>2, <3>2 DEF InStream, RingTypeOK
    <3>3. QED
      BY <3>1, <3>2
  <2>2. QED
    BY <1>1, <1>3, <2>1 DEF InStream, Sound, RingTypeOK
<1>7. CellsHold'
  BY <1>1, <1>5 DEF InStream, CellsHold, Label
<1>8. SliceFilled'
  BY <1>1, <1>4 DEF SliceFilled, Label
<1>9. SliceCopied' /\ ReadsInOrder' /\ SpanLeft' /\ ~peeking'
  BY <1>1 DEF InStream, SliceCopied, ReadsInOrder, SpanLeft
<1>10. QED
  BY <1>3, <1>6, <1>7, <1>8, <1>9 DEF InStream

(* The reader copies the cells of its slice, which are in use.               *)
LEMMA CopyInStream ==
  ASSUME InStream, Copy
  PROVE  InStream'
<1> DEFINE n == held["reader"]
           r == word.r
           cells == [i \in 1 .. Capacity |-> buf[i - 1]]
<1>1. /\ word \in Words /\ Ordered(word)
      /\ n \in Nat /\ n > 0 /\ n <= Readable(word)
      /\ r \in Nat /\ Stored(word) \in Nat /\ n <= Stored(word)
      /\ pc["reader"] = "holding"
      /\ taken \in 0 .. Labels - 1 /\ Labels \in Nat
      /\ UNCHANGED <<word, held, pc, peeking, stream, left, filled>>
  <2>1. /\ word \in Words /\ Ordered(word)
        /\ n \in Nat /\ n > 0 /\ n <= Readable(word)
    BY CapacityAssumption, WordFacts
    DEF InStream, Sound, TypeOK, Copy, SliceStaysGood, SlicesMove, Reclaims,
        Room, Sides
  <2>2. QED
    BY <2>1, WordFacts, CapacityAssumption, AsyncRingAssumption
    DEF InStream, RingTypeOK, Copy, vars, asked, Words, Index
<1>2. got' = SubSeq(cells, r + 1, r + n)
  BY DEF Copy
<1>3. Sound'
  BY TasksAsk, NextSound DEF InStream, Copy
<1>4. \A i \in 1 .. n : /\ r + i \in 1 .. Capacity
                        /\ cells[r + i] = Wrapped(taken + (i - 1))
                        /\ cells[r + i] \in 0 .. Labels - 1
  <2> SUFFICES ASSUME NEW i \in 1 .. n
               PROVE  /\ r + i \in 1 .. Capacity
                      /\ cells[r + i] = Wrapped(taken + (i - 1))
                      /\ cells[r + i] \in 0 .. Labels - 1
    OBVIOUS
  <2>1. /\ i - 1 \in Nat
        /\ r + (i - 1) \in Index /\ Dist(word, r + (i - 1)) = i - 1
    BY <1>1, Regions, WordFacts
  <2>2. r + i \in 1 .. Capacity /\ (r + i) - 1 = r + (i - 1)
    BY <1>1, <2>1, CapacityAssumption DEF Index
  <2>3. buf[r + (i - 1)] = Wrapped(taken + (i - 1))
    BY <1>1, <2>1 DEF InStream, CellsHold, Label
  <2>4. QED
    BY <2>1, <2>2, <2>3 DEF InStream, RingTypeOK
<1>5. /\ got' \in Seq(0 .. Labels - 1)
      /\ Len(got') = n
      /\ \A i \in 1 .. n : got'[i] = cells[r + i]
  <2>1. \A i \in r + 1 .. r + n : cells[i] \in 0 .. Labels - 1
    <3> SUFFICES ASSUME NEW i \in r + 1 .. r + n
                 PROVE  cells[i] \in 0 .. Labels - 1
      OBVIOUS
    <3>1. i - r \in 1 .. n /\ r + (i - r) = i
      BY <1>1
    <3> HIDE DEF cells
    <3>2. QED
      BY <1>4, <3>1
  <2> HIDE DEF cells
  <2>2. /\ SubSeq(cells, r + 1, r + n) \in Seq(0 .. Labels - 1)
        /\ Len(SubSeq(cells, r + 1, r + n)) = n
        /\ \A i \in 1 .. n :
             SubSeq(cells, r + 1, r + n)[i] = cells[r + 1 + i - 1]
    <3> DEFINE m == r + 1
               k == r + n
    <3>1. m \in Int /\ k \in Int /\ k - m + 1 = n /\ m <= k
      BY <1>1
    <3>2. \A i \in m .. k : cells[i] \in 0 .. Labels - 1
      BY <2>1
    <3> HIDE DEF m, k
    <3>3. /\ SubSeq(cells, m, k) \in Seq(0 .. Labels - 1)
          /\ Len(SubSeq(cells, m, k)) = n
          /\ \A i \in 1 .. n : SubSeq(cells, m, k)[i] = cells[m + i - 1]
      BY <3>1, <3>2, SubSeqProperties
    <3>4. QED
      BY <3>3 DEF m, k
  <2>3. \A i \in 1 .. n : r + 1 + i - 1 = r + i
    BY <1>1
  <2>4. QED
    BY <1>2, <2>2, <2>3
<1> HIDE DEF cells
<1>6. RingTypeOK'
  BY <1>1, <1>3, <1>5 DEF InStream, Sound, RingTypeOK, stream
<1>7. CellsHold' /\ SliceFilled' /\ SpanLeft' /\ ~peeking'
  BY <1>1 DEF InStream, CellsHold, SliceFilled, SpanLeft, Label, stream
<1>8. SliceCopied'
  BY <1>1, <1>5 DEF SliceCopied
<1>9. ReadsInOrder'
  <2> SUFFICES ASSUME NEW i \in 1 .. n
               PROVE  got'[i] = (taken + i - 1) % Labels
    BY <1>1, <1>5 DEF ReadsInOrder, stream
  <2>1. got'[i] = Wrapped(taken + (i - 1))
    BY <1>4, <1>5
  <2>2. taken + (i - 1) = taken + i - 1
    BY <1>1
  <2>3. QED
    BY <2>1, <2>2 DEF Wrapped
<1>10. QED
  BY <1>3, <1>6, <1>7, <1>8, <1>9 DEF InStream

(* What a return moves, and what the drop of a slice leaves alone.           *)
LEMMA ReturnFrame ==
  ASSUME InStream, NEW side \in Sides, Return(side)
  PROVE  /\ word \in Words /\ Ordered(word)
         /\ pc[side] = "holding" /\ pc'[side] # "holding"
         /\ held[side] \in 1 .. Room(side)
         /\ word' = IF side = "writer" THEN WriterMoved(word, held[side])
                                       ELSE ReaderMoved(word, held[side])
         /\ \A other \in Sides \ {side} : /\ pc'[other] = pc[other]
                                          /\ held'[other] = held[other]
                                          /\ left'[other] = left[other]
         /\ left' \in [Sides -> Nat]
         /\ ~peeking'
<1>1. held[side] \in 1 .. Room(side)
  BY RoomIsLength, CapacityAssumption
  DEF InStream, Sound, TypeOK, Return, Reclaim, SlicesMove, Reclaims,
      SliceStaysGood
<1>2. Room(side) # 0
  BY <1>1, RoomIsLength DEF InStream, Sound
<1>3. left' \in [Sides -> Nat]
  <2>1. left \in [Sides -> Nat]
    BY AsyncRingAssumption DEF InStream, RingTypeOK
  <2>2. held[side] \in Nat /\ held[side] <= left[side]
    BY <1>1 DEF InStream, Return, Reclaim, SpanLeft
  <2>3. left[side] - held[side] \in Nat
    BY <2>1, <2>2
  <2>4. QED
    BY <2>1, <2>3 DEF Return
<1>4. QED
  BY <1>1, <1>2, <1>3
  DEF InStream, Sound, TypeOK, RingTypeOK, Return, Reclaim, Goto, asked

(* The writer's slice goes over to the reader.                               *)
LEMMA WriterReturns ==
  ASSUME InStream, Sound', Return("writer")
  PROVE  InStream'
<1> DEFINE n == held["writer"]
           s == Stored(word)
<1>1. "writer" \in Sides /\ "reader" \in Sides \ {"writer"}
  BY DEF Sides
<1>2. /\ word \in Words /\ Ordered(word)
      /\ pc["writer"] = "holding" /\ pc'["writer"] # "holding"
      /\ n \in 1 .. Writable(word)
      /\ word' = WriterMoved(word, n)
      /\ pc'["reader"] = pc["reader"] /\ held'["reader"] = held["reader"]
      /\ left'["reader"] = left["reader"]
      /\ left' \in [Sides -> Nat] /\ ~peeking'
  BY <1>1, ReturnFrame DEF Room
<1>3. /\ filled
      /\ sent' = Wrapped(sent + n)
      /\ filled' = FALSE
      /\ UNCHANGED <<buf, taken, got>>
  BY DEF Return, Wrapped
<1>4. /\ word'.r = word.r /\ Stored(word') = s + n
      /\ s \in Nat /\ n \in Nat /\ s + n <= Capacity
  BY <1>2, WriterMoves, WordFacts, CapacityAssumption
<1>5. taken \in 0 .. Labels - 1 /\ sent = Wrapped(taken + s)
  BY DEF InStream, RingTypeOK, CellsHold, Label
<1> HIDE DEF n, s
<1>6. sent' = Wrapped(taken + (s + n)) /\ sent' \in 0 .. Labels - 1
  BY <1>3, <1>4, <1>5, LabelPlus
<1>7. ASSUME NEW c \in Index, Dist(word', c) < s + n
      PROVE  buf[c] = Wrapped(taken + Dist(word', c))
  <2>1. Dist(word', c) = Dist(word, c)
    BY <1>4 DEF Dist
  <2>2. CASE Dist(word, c) < s
    BY <2>1, <2>2 DEF InStream, CellsHold, Label, s
  <2>3. CASE ~(Dist(word, c) < s)
    <3> DEFINE d == Dist(word, c)
    <3>1. d \in Nat
      BY <1>2, CapacityAssumption DEF Dist, Words, Index
    <3>2. d - s \in 0 .. n - 1 /\ s + (d - s) = d
      BY <1>4, <1>7, <2>1, <2>3, <3>1
    <3>3. c = word.w + (d - s)
      <4>1. s <= d /\ d < s + Writable(word)
        BY <1>2, <1>4, <1>7, <2>1, <2>3, <3>1, WordFacts
      <4>2. QED
        BY <1>2, <4>1, FreeCell DEF s
    <3>4. buf[word.w + (d - s)] = Wrapped(taken + (s + (d - s)))
      BY <1>3, <3>2 DEF InStream, SliceFilled, Label, n, s
    <3>5. QED
      BY <2>1, <3>2, <3>3, <3>4
  <2>4. QED
    BY <2>2, <2>3
<1>8. CellsHold'
  BY <1>3, <1>4, <1>6, <1>7 DEF CellsHold, Label
<1>9. RingTypeOK'
  BY <1>2, <1>3, <1>6 DEF InStream, Sound, RingTypeOK
<1>10. /\ SliceFilled' /\ SliceCopied' /\ ReadsInOrder' /\ SpanLeft'
  BY <1>2, <1>3
  DEF InStream, SliceFilled, SliceCopied, ReadsInOrder, SpanLeft, Sides
<1>11. QED
  BY <1>2, <1>8, <1>9, <1>10 DEF InStream

(* The reader's slice has been read: the elements behind it come closer.     *)
LEMMA ReaderReturns ==
  ASSUME InStream, Sound', Return("reader")
  PROVE  InStream'
<1> DEFINE n == held["reader"]
           s == Stored(word)
<1>1. "reader" \in Sides /\ "writer" \in Sides \ {"reader"}
  BY DEF Sides
<1>2. /\ word \in Words /\ Ordered(word)
      /\ pc["reader"] = "holding" /\ pc'["reader"] # "holding"
      /\ n \in 1 .. Readable(word)
      /\ word' = ReaderMoved(word, n)
      /\ pc'["writer"] = pc["writer"] /\ held'["writer"] = held["writer"]
      /\ left'["writer"] = left["writer"]
      /\ left' \in [Sides -> Nat] /\ ~peeking'
  BY <1>1, ReturnFrame DEF Room
<1>3. /\ taken' = Wrapped(taken + n)
      /\ got' = << >>
      /\ UNCHANGED <<buf, sent, filled>>
  BY DEF Return, Wrapped
<1>4. /\ word'.w = word.w /\ Stored(word') = s - n
      /\ \A c \in Index : Dist(word', c) < s - n
                            => Dist(word, c) = Dist(word', c) + n
      /\ s \in Nat /\ n \in Nat /\ s <= Capacity /\ n <= s
  BY <1>2, ReaderMoves, WordFacts, CapacityAssumption
<1>5. taken \in 0 .. Labels - 1 /\ sent = Wrapped(taken + s)
  BY DEF InStream, RingTypeOK, CellsHold, Label
<1> HIDE DEF n, s
<1>6. \A k \in Nat :
        k <= s - n => Wrapped(taken' + k) = Wrapped(taken + (n + k))
  <2> SUFFICES ASSUME NEW k \in Nat, k <= s - n
               PROVE  Wrapped(Wrapped(taken + n) + k)
                        = Wrapped(taken + (n + k))
    BY <1>3
  <2>1. n + k <= Capacity
    BY <1>4, CapacityAssumption
  <2>2. QED
    BY <1>4, <1>5, <2>1, LabelPlus
<1>7. taken' \in 0 .. Labels - 1
  <2>1. taken + n \in 0 .. 2 * Labels - 1
    BY <1>4, <1>5, AsyncRingAssumption, CapacityAssumption
  <2>2. QED
    BY <1>3, <2>1, LabelWrap
<1>8. CellsHold'
  <2>1. sent' = Wrapped(taken' + (s - n))
    <3>1. s - n \in Nat /\ n + (s - n) = s
      BY <1>4
    <3>2. QED
      BY <1>3, <1>5, <1>6, <3>1
  <2>2. ASSUME NEW c \in Index, Dist(word', c) < s - n
        PROVE  buf[c] = Wrapped(taken' + Dist(word', c))
    <3>1. Dist(word', c) \in Nat
      <4>1. word' \in Words
        BY <1>2, ReaderMoves
      <4>2. QED
        BY <4>1, CapacityAssumption DEF Dist, Words, Index
    <3>2. /\ Dist(word, c) < s
          /\ Dist(word, c) = n + Dist(word', c)
      BY <1>4, <2>2, <3>1
    <3>3. buf[c] = Wrapped(taken + Dist(word, c))
      BY <3>2 DEF InStream, CellsHold, Label, s
    <3>4. QED
      BY <1>4, <1>6, <2>2, <3>1, <3>2, <3>3
  <2>3. QED
    BY <1>3, <1>4, <2>1, <2>2 DEF CellsHold, Label
<1>9. SliceFilled'
  <2> SUFFICES ASSUME filled, NEW i \in 0 .. held["writer"] - 1
               PROVE  buf[word.w + i] = Wrapped(taken' + ((s - n) + i))
    BY <1>2, <1>3, <1>4 DEF InStream, SliceFilled, Label
  <2>1. buf[word.w + i] = Wrapped(taken + (s + i))
    BY DEF InStream, SliceFilled, Label, s
  <2>2. /\ i \in Nat /\ (s - n) + i \in Nat
        /\ n + ((s - n) + i) = s + i
        /\ n + ((s - n) + i) <= Capacity
    <3>1. held["writer"] \in Nat /\ s + held["writer"] <= Capacity
      <4>1. held["writer"] \in Nat /\ held["writer"] <= Writable(word)
        BY CapacityAssumption, WordFacts, <1>2
        DEF InStream, Sound, TypeOK, SliceFilled, SliceStaysGood, Room, Sides
      <4>2. QED
        BY <1>2, <4>1, WordFacts, CapacityAssumption DEF s
    <3>2. QED
      BY <1>4, <3>1, CapacityAssumption
  <2>3. Wrapped(Wrapped(taken + n) + ((s - n) + i)) = Wrapped(taken + (s + i))
    <3>1. PICK k \in Nat : k = (s - n) + i
      BY <2>2
    <3>2. Wrapped(Wrapped(taken + n) + k) = Wrapped(taken + (n + k))
      BY <1>4, <1>5, <2>2, <3>1, LabelPlus
    <3>3. QED
      BY <2>2, <3>1, <3>2
  <2>4. QED
    BY <1>3, <2>1, <2>3
<1>10. RingTypeOK'
  BY <1>2, <1>3, <1>7, EmptySeq DEF InStream, Sound, RingTypeOK
<1>11. SliceCopied' /\ ReadsInOrder' /\ SpanLeft'
  BY <1>2, <1>3 DEF InStream, SliceCopied, ReadsInOrder, SpanLeft, Sides
<1>12. QED
  BY <1>2, <1>8, <1>9, <1>10, <1>11 DEF InStream

(* The stream of a new buffer is empty.                                      *)
LEMMA InitInStream == RingInit => InStream
<1> SUFFICES ASSUME RingInit
             PROVE  InStream
  OBVIOUS
<1>1. Labels \in Nat /\ Labels > 0
  BY AsyncRingAssumption, CapacityAssumption
<1>2. Sound /\ ~peeking
  BY InitSound DEF RingInit, Init
<1>3. RingTypeOK
  <2>1. 0 \in 0 .. Labels - 1 /\ << >> \in Seq(0 .. Labels - 1)
    BY <1>1, EmptySeq
  <2>2. TypeOK
    BY <1>2 DEF Sound
  <2>3. QED
    BY <2>1, <2>2 DEF RingInit, RingTypeOK
<1>4. CellsHold
  <2>1. Stored(word) = 0
    BY CapacityAssumption DEF RingInit, Init, EmptyWord, Stored
  <2>2. \A c \in Index : ~(Dist(word, c) < 0)
    BY CapacityAssumption DEF RingInit, Init, EmptyWord, Dist, Index
  <2>3. Wrapped(0 + 0) = 0
    BY <1>1, LabelWrap
  <2>4. QED
    BY <2>1, <2>2, <2>3 DEF RingInit, CellsHold, Label
<1>5. SliceFilled /\ SliceCopied /\ SpanLeft
  BY DEF RingInit, Init, SliceFilled, SliceCopied, SpanLeft
<1>6. ReadsInOrder
  BY EmptySeq DEF RingInit, ReadsInOrder
<1>7. QED
  BY <1>2, <1>3, <1>4, <1>5, <1>6 DEF InStream

(* Every step of the two tasks keeps it, on one thread or on two.            *)
LEMMA NextInStream == InStream /\ [RingNext]_ringVars => InStream'
<1> SUFFICES ASSUME InStream, [RingNext]_ringVars
             PROVE  InStream'
  OBVIOUS
<1>1. Sound'
  BY TasksAsk, RingStepIsStep, NextSound DEF InStream
<1>2. CASE RingNext
  <2>1. PICK side \in Sides :
          \/ Ask(side) \/ Proceed(side) \/ Resume(side)
          \/ Use(side) \/ Return(side) \/ Leave(side)
    BY <1>2 DEF RingNext
  <2>2. CASE Use(side)
    BY <2>2, FillInStream, CopyInStream DEF Use
  <2>3. CASE Return(side)
    BY <1>1, <2>3, WriterReturns, ReaderReturns DEF Sides
  <2>4. QED
    BY <1>1, <2>1, <2>2, <2>3, CallInStream
<1>3. CASE UNCHANGED ringVars
  <2>1. UNCHANGED <<word, pc, held, peeking, buf, sent, taken, left, filled,
                    got>>
    BY <1>3 DEF ringVars, vars, asked, stream
  <2>2. QED
    BY <1>1, <2>1
    DEF InStream, Sound, RingTypeOK, CellsHold, SliceFilled, SliceCopied,
        ReadsInOrder, SpanLeft, Label
<1>4. QED
  BY <1>2, <1>3

(* The stream is in order whatever the threads do.                           *)
LEMMA InStreamAlways == RingSpec => []InStream
  BY InitInStream, NextInStream, PTL DEF RingSpec

(* Every variable keeps its type.                                            *)
THEOREM RingTypesHold == RingSpec => []RingTypeOK
<1>1. InStream => RingTypeOK
  BY DEF InStream
<1>2. QED
  BY <1>1, InStreamAlways, PTL

(* The assert_eq of the tests holds for every capacity and all spans, also   *)
(* when the two tasks run on different threads.                              *)
THEOREM ReadsAreInOrder == RingSpec => []ReadsInOrder
<1>1. InStream => ReadsInOrder
  BY DEF InStream
<1>2. QED
  BY <1>1, InStreamAlways, PTL

-----------------------------------------------------------------------------
(* The signals between two tasks, also of two threads *)

(* They await every future to its end, and none of them peeks: nothing       *)
(* points at a demand that has been freed, and no task is woken in vain.     *)
THEOREM RingSignals == RingSpec => [](NoDangling /\ WokenWithRoom)
<1>1. RingInit => Loyal /\ AnsweredForRoom
  BY InitLoyal, InitHeard DEF RingInit
<1>2. InStream => Sound /\ ~peeking
  BY DEF InStream
<1>3. InStream /\ Loyal /\ [RingNext]_ringVars => Loyal'
  <2>1. Turn => Patient
    BY DEF Turn, Patient, Peek
  <2>2. QED
    BY <1>2, <2>1, RingStepIsStep, PatientLoyal
<1>4. InStream /\ InStream' /\ Loyal /\ AnsweredForRoom
        /\ [RingNext]_ringVars => AnsweredForRoom'
  <2>1. InStream' => ~peeking'
    BY DEF InStream
  <2>2. QED
    BY <1>2, <2>1, RingStepIsStep, NextHeard
<1>5. QED
  BY <1>1, <1>2, <1>3, <1>4, InStreamAlways, LoyalSays, HeardSays, PTL
  DEF RingSpec

-----------------------------------------------------------------------------
(* The waiting of two tasks that take turns *)

(* The tasks of the ring take turns, whatever other callers may do.          *)
LEMMA RingInTurns ==
  ASSUME ~Parallel
  PROVE  RingSpec => []InTurns
<1>1. RingInit => InTurns
  BY InitInTurns DEF RingInit
<1>2. InTurns /\ [RingNext]_ringVars => InTurns'
  BY TasksAsk, RingStepIsStep, TurnInTurns
<1>3. QED
  BY <1>1, <1>2, PTL DEF RingSpec

(* Their waiting is what DemandsProofs shows of such callers: no assertion   *)
(* fails, and one slot is enough for both.                                   *)
THEOREM RingWaits ==
  ASSUME ~Parallel
  PROVE  RingSpec => [](NoPanic /\ OneWaiter)
  BY RingInTurns, InTurnsSays, PTL

(* A demand is made and parked while no side has closed.                     *)
NoneClosed ==
  \A side \in Sides :
    pc[side] \in {"check", "park", "await"} => ~IsClosing

(* The steps that a user of the channel does not see.                        *)
Unseen(side) ==
  \/ Begin(side) \/ Poll(side) \/ FindsClosing(side)
  \/ Enqueue(side) \/ CheckAgain(side) \/ Check(side) \/ Park(side)
  \/ SignalLoad(side) \/ SignalCheck(side) \/ SignalTake(side)
  \/ SignalSend(side)

(* A turn is one of them, or moves a slice, waits, wakes or closes.          *)
LEMMA TurnKinds ==
  ASSUME InTurns, Turn
  PROVE  \/ \E side \in Sides :
              MayRun(side) /\ \/ Unseen(side) \/ Await(side) \/ Repoll(side)
                              \/ Reclaim(side) \/ Close(side)
         \/ DropPeeker \/ Convert
  BY DEF InTurns, Orderly, OneRuns, Turn, Step, Continue, Unseen, Abort, Retry,
         Denied

(* They change neither the word, nor who waits, nor who has closed.          *)
LEMMA UnseenFrame ==
  ASSUME InTurns, NEW side \in Sides, Unseen(side)
  PROVE  /\ word' = word
         /\ \A other \in Sides :
              /\ pc'[other] = "waiting" <=> pc[other] = "waiting"
              /\ cell'[other] = "closed" <=> cell[other] = "closed"
              /\ other # side => pc'[other] = pc[other]
         /\ pc'[side] \in {"check", "park", "await"} =>
              \/ pc[side] \in {"check", "park", "await"}
              \/ ~IsClosing
<1> USE DEF InTurns, Sound, TypeOK, Goto
<1>1. CASE Begin(side) \/ CheckAgain(side) \/ Park(side)
  BY <1>1 DEF Begin, CheckAgain, Park
<1>2. CASE Poll(side)
  BY <1>2 DEF Poll, Try, FutureEnds, Dequeue
<1>3. CASE FindsClosing(side)
  BY <1>3 DEF FindsClosing, FutureEnds, Dequeue
<1>4. CASE Enqueue(side)
  BY <1>4 DEF Enqueue, IsClosing
<1>5. CASE Check(side)
  BY <1>5 DEF Check, Orderly, CellsFollow, Signalling
<1>6. CASE \/ SignalLoad(side) \/ SignalCheck(side) \/ SignalTake(side)
           \/ SignalSend(side)
  BY <1>6 DEF SignalLoad, SignalCheck, SignalTake, SignalSend, SignalDone
<1>7. QED
  BY <1>1, <1>2, <1>3, <1>4, <1>5, <1>6 DEF Unseen

(* A side closes only while the other rests.                                 *)
LEMMA TurnNoneClosed ==
  ASSUME ~Parallel, InTurns, NoneClosed, Turn \/ UNCHANGED vars
  PROVE  NoneClosed'
<1>1. CASE UNCHANGED vars
  BY <1>1 DEF vars, NoneClosed, IsClosing
<1>2. CASE DropPeeker \/ Convert
  BY <1>2
  DEF InTurns, Sound, TypeOK, DropPeeker, Convert, Goto, NoneClosed, IsClosing
<1>3. ASSUME NEW side \in Sides, MayRun(side),
             \/ Unseen(side) \/ Await(side) \/ Repoll(side)
             \/ Reclaim(side) \/ Close(side)
      PROVE  NoneClosed'
  <2>1. CASE Unseen(side)
    BY <2>1, UnseenFrame DEF NoneClosed, IsClosing
  <2>2. CASE Await(side) \/ Repoll(side) \/ Reclaim(side)
    BY <2>2
    DEF InTurns, Sound, TypeOK, Await, Repoll, Reclaim, Goto, NoneClosed,
        IsClosing
  <2>3. CASE Close(side)
    <3>1. pc[Other(side)] \in {"idle", "holding", "waiting", "closed"}
      BY <1>3, MyTurn
    <3>2. QED
      BY <2>3, <3>1
      DEF InTurns, Sound, TypeOK, Close, Goto, NoneClosed, Sides, Other
  <2>4. QED
    BY <1>3, <2>1, <2>2, <2>3
<1>4. QED
  BY <1>1, <1>2, <1>3, TurnKinds

(* Each turn is a step of the channel or none.                               *)
LEMMA TurnIsPromised ==
  ASSUME ~Parallel, InTurns, NoneClosed, Turn \/ UNCHANGED vars
  PROVE  [Promise!Next]_(Promise!vars)
<1> DEFINE Waiting == {x \in Sides : pc[x] = "waiting"}
           Closed  == {x \in Sides : cell[x] = "closed"}
<1>1. Promise!vars = <<Stored(word), Waiting, Closed>>
  BY DEF Promise!vars
<1>2. ASSUME word' = word,
             \A x \in Sides : /\ pc'[x] = "waiting" <=> pc[x] = "waiting"
                              /\ cell'[x] = "closed" <=> cell[x] = "closed"
      PROVE  UNCHANGED Promise!vars
  BY <1>2 DEF Promise!vars
<1>3. CASE UNCHANGED vars
  BY <1>2, <1>3 DEF vars
<1>4. CASE DropPeeker \/ Convert
  BY <1>2, <1>4 DEF InTurns, Sound, TypeOK, DropPeeker, Convert, Goto
<1>5. ASSUME NEW side \in Sides, MayRun(side), Unseen(side)
      PROVE  UNCHANGED Promise!vars
  BY <1>2, <1>5, UnseenFrame
<1>6. /\ \A x \in Sides : Promise!CanProceed(x) <=> Room(x) > 0
      /\ Promise!Sides = Sides
  BY WordFacts, CapacityAssumption
  DEF Promise!CanProceed, Promise!Sides, InTurns, Sound, TypeOK, Room, Sides
<1>7. ASSUME NEW side \in Sides, MayRun(side), Await(side)
      PROVE  Promise!Next
  <2>1. /\ pc[side] = "await" /\ ~IsClosing
        /\ Goto(side, "waiting")
        /\ UNCHANGED <<word, cell>>
        /\ ~(Room(side) > 0)
    BY <1>7, RoomIsLength
    DEF InTurns, Orderly, DemandsFollow, OneRuns, WaitsInVain, Await,
        NoneClosed
  <2>2. Promise!Wait(side)
    BY <2>1, <1>6
    DEF Promise!Wait, InTurns, Sound, TypeOK, Goto, IsClosing
  <2>3. QED
    BY <2>2, <1>6 DEF Promise!Next
<1>8. ASSUME NEW side \in Sides, MayRun(side), Repoll(side)
      PROVE  Promise!Next
  <2>1. Promise!Wake(side)
    BY <1>8, <1>6
    DEF Promise!Wake, InTurns, Orderly, DemandsFollow, Sound, TypeOK, Repoll,
        Goto
  <2>2. QED
    BY <2>1, <1>6 DEF Promise!Next
<1>9. ASSUME NEW side \in Sides, MayRun(side), Close(side)
      PROVE  Promise!Next
  <2>1. Promise!Close(side)
    BY <1>9
    DEF Promise!Close, InTurns, Orderly, CellsFollow, Signalling, Sound,
        TypeOK, Close, Goto
  <2>2. QED
    BY <2>1, <1>6 DEF Promise!Next
<1>10. ASSUME NEW side \in Sides, MayRun(side), Reclaim(side)
       PROVE  Promise!Next
  <2>1. /\ held[side] \in 1 .. Room(side)
        /\ word' = IF side = "writer" THEN WriterMoved(word, held[side])
                                      ELSE ReaderMoved(word, held[side])
        /\ Goto(side, "signal") /\ pc[side] = "holding"
        /\ UNCHANGED cell
    BY <1>10, RoomIsLength, CapacityAssumption
    DEF InTurns, Sound, TypeOK, Reclaim, SlicesMove, Reclaims, SliceStaysGood
  <2>2. /\ side \notin Waiting \cup Closed
        /\ UNCHANGED <<Waiting, Closed>>
    BY <2>1 DEF InTurns, Orderly, CellsFollow, Signalling, Sound, TypeOK, Goto
  <2>3. word \in Words /\ Ordered(word)
    BY DEF InTurns, Sound, TypeOK
  <2>4. CASE side = "writer"
    <3>1. Stored(word)' \in Stored(word) + 1 .. Capacity
      BY <2>1, <2>3, <2>4, WriterMoves, WordFacts, CapacityAssumption DEF Room
    <3>2. QED
      BY <2>2, <2>4, <3>1 DEF Promise!Next, Promise!Put
  <2>5. CASE side = "reader"
    <3>1. Stored(word)' \in 0 .. Stored(word) - 1
      BY <2>1, <2>3, <2>5, ReaderMoves, WordFacts, CapacityAssumption DEF Room
    <3>2. QED
      BY <2>2, <2>5, <3>1 DEF Promise!Next, Promise!Take
  <2>6. QED
    BY <2>4, <2>5 DEF Sides
<1>11. QED
  BY <1>3, <1>4, <1>5, <1>7, <1>8, <1>9, <1>10, TurnKinds

(* The safety of ImplementsChannel: between two tasks that take turns nobody *)
(* waits with something to do, stops waiting with nothing to do, or starts   *)
(* to wait when a side has closed.  That those who can proceed are woken,    *)
(* its fairness, is left to the runs.                                        *)
THEOREM KeepsPromise ==
  ASSUME ~Parallel
  PROVE  RingSpec => Promise!Init /\ [][Promise!Next]_(Promise!vars)
<1>1. RingInit => Promise!Init /\ NoneClosed
  BY CapacityAssumption
  DEF RingInit, Init, Promise!Init, EmptyWord, Stored, NoneClosed
<1>2. InTurns /\ NoneClosed /\ [RingNext]_ringVars
        => NoneClosed' /\ [Promise!Next]_(Promise!vars)
  BY RingStepIsStep, TurnNoneClosed, TurnIsPromised
<1>3. QED
  BY <1>1, <1>2, RingInTurns, PTL DEF RingSpec

=============================================================================
