----------------------------- MODULE FifoProofs -----------------------------
(***************************************************************************)
(* The lock-free ring buffer implements the bounded queue of module Fifo,  *)
(* for every capacity: each step of BuffState puts, takes or closes in one *)
(* step of the queue, or changes nothing the queue can see.                *)
(***************************************************************************)
EXTENDS BuffStateProofs

(* The n elements of the writer's stream that follow the first t.            *)
Following(t, n) == [i \in 1 .. n |-> t + i]

(* They are a sequence, of that length.                                      *)
LEMMA FollowingIsSeq ==
  ASSUME NEW t \in Nat, NEW n \in Nat
  PROVE  /\ Following(t, n) \in Seq(Nat)
         /\ Len(Following(t, n)) = n
         /\ \A i \in 1 .. n : Following(t, n)[i] = t + i
  BY DEF Following

(* Putting at one end: the stream goes on.                                   *)
LEMMA FollowingPut ==
  ASSUME NEW t \in Nat, NEW n \in Nat, NEW m \in Nat
  PROVE  Following(t, n) \o Following(t + n, m) = Following(t, n + m)
  BY DEF Following

(* Taking at the other: the rest of the stream.                              *)
LEMMA FollowingTake ==
  ASSUME NEW t \in Nat, NEW n \in Nat, NEW m \in 0 .. n
  PROVE  SubSeq(Following(t, n), m + 1, n) = Following(t + m, n - m)
  BY DEF Following

(* The cells in use, read from the reader's position and across the wrap,    *)
(* are the elements sent and not yet taken.                                  *)
QueueFollows ==
  /\ taken \in Nat /\ sent \in Nat /\ Stored(word) \in 0 .. Capacity
  /\ sent = taken + Stored(word)
  /\ StoredItems = Following(taken, Stored(word))

(* The invariant of the ring says so.                                        *)
LEMMA ItemsFollow == IInv => QueueFollows
<1> SUFFICES ASSUME IInv PROVE QueueFollows
  OBVIOUS
<1>1. word \in Words /\ Ordered(word) /\ word.r \in Index
  BY DEF IInv, TypeOK, WordOrdered, Words
<1>2. Stored(word) \in 0 .. Capacity
  BY <1>1, WordFacts
<1>3. taken \in Nat /\ sent \in Nat /\ Stored(word) = sent - taken
  BY DEF IInv, TypeOK, Conserved
<1>4. ASSUME NEW i \in 1 .. Stored(word)
      PROVE  buf[(word.r + i - 1) % Capacity] = taken + i
  <2> DEFINE x == word.r + i - 1
             c == x % Capacity
  <2>1. i \in 1 .. Capacity
    BY <1>2, CapacityAssumption
  <2>2. x \in 0 .. 2 * Capacity - 1
    BY <1>1, <2>1, CapacityAssumption DEF Index
  <2> HIDE DEF x
  <2>3. c = IF x < Capacity THEN x ELSE x - Capacity
    BY <2>2, Wrap
  <2> HIDE DEF c
  <2>4. c \in Index /\ Dist(word, c) = i - 1
    BY <2>1, <2>3, <1>1, CapacityAssumption DEF Index, Dist, x
  <2>5. i - 1 < Stored(word)
    BY <1>2, CapacityAssumption
  <2>6. buf[c] = taken + (i - 1) + 1
    BY <2>4, <2>5 DEF IInv, Contents
  <2>7. QED
    BY <2>6, <1>3, <2>1 DEF c, x
<1>5. StoredItems = Following(taken, Stored(word))
  BY <1>4 DEF StoredItems, Following
<1>6. QED
  BY <1>2, <1>3, <1>5 DEF QueueFollows

(* An empty buffer is the empty queue.                                       *)
LEMMA InitIsInit == Init => Queue!Init
<1> SUFFICES ASSUME Init PROVE Queue!Init
  OBVIOUS
<1>1. Stored(word) = 0 /\ sent = 0 /\ producer = "null" /\ consumer = "null"
  BY DEF Init, Stored, EmptyWord
<1>2. StoredItems = << >>
  BY <1>1 DEF StoredItems
<1>3. QED
  BY <1>1, <1>2 DEF Queue!Init

(* A step that moves no position and closes nothing is not seen in the       *)
(* queue, whichever cell it writes.                                          *)
LEMMA Unseen ==
  ASSUME QueueFollows, QueueFollows',
         UNCHANGED <<word, sent, taken, consumer, producer>>
  PROVE  UNCHANGED Queue!fifoVars
<1>1. StoredItems' = StoredItems
  BY DEF QueueFollows
<1>2. QED
  BY <1>1 DEF Queue!fifoVars

(* The writer's compare-exchange puts the elements of its slice.             *)
LEMMA AdvancePuts ==
  ASSUME IInv, QueueFollows, QueueFollows', WriterAdvance
  PROVE  Queue!Next
<1>1. /\ sent' = sent + wcnt /\ taken' = taken /\ wcnt \in Nat \ {0}
      /\ producer = "null" /\ UNCHANGED <<producer, consumer>>
  BY DEF WriterAdvance, readerVars, IInv, TypeOK, WriterHolds, ClosedOnce
<1>2. /\ taken \in Nat /\ Stored(word) \in Nat /\ Stored(word') <= Capacity
      /\ Stored(word') = Stored(word) + wcnt /\ sent = taken + Stored(word)
  BY <1>1, CapacityAssumption DEF QueueFollows
<1>3. StoredItems' = StoredItems \o Following(sent, wcnt)
  <2>1. StoredItems = Following(taken, Stored(word))
    BY DEF QueueFollows
  <2>2. StoredItems' = Following(taken, Stored(word) + wcnt)
    <3>1. StoredItems' = Following(taken', Stored(word'))
      BY DEF QueueFollows
    <3>2. QED
      BY <3>1, <1>1, <1>2
  <2>3. Following(taken, Stored(word)) \o Following(taken + Stored(word), wcnt)
          = Following(taken, Stored(word) + wcnt)
    BY <1>1, <1>2, FollowingPut
  <2>4. QED
    BY <2>1, <2>2, <2>3, <1>2
<1>4. wcnt \in 1 .. Capacity
  BY <1>1, <1>2, CapacityAssumption
<1>5. Len(StoredItems) = Stored(word)
  BY <1>2, FollowingIsSeq DEF QueueFollows
<1>6. Queue!Put(wcnt)
  BY <1>1, <1>2, <1>3, <1>5 DEF Queue!Put, Following
<1>7. QED
  BY <1>4, <1>6 DEF Queue!Next

(* The reader's takes those of its.                                          *)
LEMMA AdvanceTakes ==
  ASSUME IInv, QueueFollows, QueueFollows', ReaderAdvance
  PROVE  Queue!Next
<1>1. /\ taken' = taken + rcnt /\ sent' = sent /\ rcnt \in Nat \ {0}
      /\ consumer = "null" /\ UNCHANGED <<producer, consumer>>
  BY DEF ReaderAdvance, writerVars, IInv, TypeOK, ReaderHolds, ClosedOnce
<1>2. /\ taken \in Nat /\ Stored(word) \in 0 .. Capacity /\ Stored(word') \in Nat
      /\ Stored(word') = Stored(word) - rcnt
  BY <1>1, CapacityAssumption DEF QueueFollows
<1>3. rcnt \in 1 .. Capacity /\ rcnt \in 0 .. Stored(word)
  BY <1>1, <1>2, CapacityAssumption
<1>4. StoredItems' = SubSeq(StoredItems, rcnt + 1, Stored(word))
  <2>1. StoredItems = Following(taken, Stored(word))
    BY DEF QueueFollows
  <2>2. StoredItems' = Following(taken + rcnt, Stored(word) - rcnt)
    <3>1. StoredItems' = Following(taken', Stored(word'))
      BY DEF QueueFollows
    <3>2. QED
      BY <3>1, <1>1, <1>2
  <2>3. Stored(word) \in Nat
    BY <1>2, CapacityAssumption
  <2>4. SubSeq(Following(taken, Stored(word)), rcnt + 1, Stored(word))
          = Following(taken + rcnt, Stored(word) - rcnt)
    BY <1>2, <1>3, <2>3, FollowingTake
  <2>5. QED
    BY <2>1, <2>2, <2>4
<1>5. Len(StoredItems) = Stored(word)
  BY <1>2, FollowingIsSeq DEF QueueFollows
<1>6. Queue!Take(rcnt)
  BY <1>1, <1>3, <1>4, <1>5 DEF Queue!Take
<1>7. QED
  BY <1>3, <1>6 DEF Queue!Next

(* Every step of the ring buffer is a step of the queue, or none.            *)
LEMMA StepIsStep ==
  ASSUME IInv, QueueFollows, QueueFollows', [Next]_vars
  PROVE  [Queue!Next]_(Queue!fifoVars)
<1> USE DEF shared, writerVars, readerVars, ReaderSlice, ReaderReturns,
            WriterReturns
<1>1. CASE WriterNext
  <2>1. ASSUME NEW length \in Lengths, TryWrite(length)
        PROVE  UNCHANGED Queue!fifoVars
    BY <2>1, Unseen DEF TryWrite
  <2>2. CASE WriterStep
    <3>1. CASE WriterAdvance
      BY <3>1, AdvancePuts
    <3>2. CASE WriterRefused \/ FillCell \/ WriterReclaim \/ WriterLoad
                 \/ WriterRetry
      BY <3>2, Unseen
      DEF WriterRefused, FillCell, WriterReclaim, WriterLoad, WriterRetry
    <3>3. QED
      BY <2>2, <3>1, <3>2 DEF WriterStep
  <2>3. CASE CloseWriter
    <3>1. /\ producer = "null" /\ producer' = "closed"
          /\ UNCHANGED <<word, sent, taken, consumer>>
      BY <2>3 DEF CloseWriter, IInv, ClosedOnce
    <3>2. StoredItems' = StoredItems
      BY <3>1 DEF QueueFollows
    <3>3. Queue!CloseProducer
      BY <3>1, <3>2 DEF Queue!CloseProducer
    <3>4. QED
      BY <3>3 DEF Queue!Next
  <2>4. QED
    BY <1>1, <2>1, <2>2, <2>3 DEF WriterNext
<1>2. CASE ReaderNext
  <2>1. CASE ReadSome \/ (\E skip \in Skips : TryPeek(skip)) \/ CanRead
    BY <2>1, Unseen DEF ReadSome, TryRead, TryPeek, CanRead, ReaderStarts
  <2>2. CASE ReaderStep
    <3>1. CASE ReaderAdvance
      BY <3>1, AdvanceTakes
    <3>2. CASE ReaderRefused \/ CopyCell \/ EndPeek \/ ReaderReclaim
                 \/ ReaderLoad \/ ReaderRetry
      BY <3>2, Unseen
      DEF ReaderRefused, CopyCell, EndPeek, ReaderReclaim, ReaderLoad,
          ReaderRetry
    <3>3. QED
      BY <2>2, <3>1, <3>2 DEF ReaderStep
  <2>3. CASE CloseReader
    <3>1. /\ consumer = "null" /\ consumer' = "closed"
          /\ UNCHANGED <<word, sent, taken, producer>>
      BY <2>3 DEF CloseReader, IInv, ClosedOnce
    <3>2. StoredItems' = StoredItems
      BY <3>1 DEF QueueFollows
    <3>3. Queue!CloseConsumer
      BY <3>1, <3>2 DEF Queue!CloseConsumer
    <3>4. QED
      BY <3>3 DEF Queue!Next
  <2>4. QED
    BY <1>2, <2>1, <2>2, <2>3 DEF ReaderNext
<1>3. CASE Finished \/ UNCHANGED vars
  BY <1>3, Unseen DEF Finished, vars
<1>4. QED
  BY <1>1, <1>2, <1>3 DEF Next

(* The lock-free ring buffer, in every interleaving of single accesses to    *)
(* shared memory, is a bounded first-in first-out queue.                     *)
THEOREM Implementation ==
  ASSUME 0 \notin Lengths
  PROVE  Spec => ImplementsFifo
<1>1. Init => Queue!Init
  BY InitIsInit
<1>2. IInv /\ QueueFollows /\ QueueFollows' /\ [Next]_vars
        => [Queue!Next]_(Queue!fifoVars)
  BY StepIsStep
<1>3. QED
  BY <1>1, <1>2, ItemsFollow, Invariance, PTL
  DEF Spec, ImplementsFifo, Queue!Spec
=============================================================================
