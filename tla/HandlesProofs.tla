--------------------------- MODULE HandlesProofs ---------------------------
(***************************************************************************)
(* Safety of the handles, for every number of threads and handles, every   *)
(* capacity and every bound on the splits.                                 *)
(***************************************************************************)
EXTENDS Handles, RwStateProofs

-----------------------------------------------------------------------------
(* The inductive invariant *)

(* Between its two counts an owner is alone with its turn: no handle lives,  *)
(* and no other owner has passed the first count.                            *)
CountsAlone ==
  /\ place = "owned" => strong = {}
  /\ \A o \in counting :
       Live = {} /\ counting = {o} /\ splits < MaxSplits

(* Only handles lend slices, and none that reclaims is empty.                *)
SlicesOwned ==
  \A h \in Handle :
    slice[h] # None =>
      /\ kind[h] # "none"
      /\ slice[h].reclaims => slice[h].length > 0

(* The writer's slice is where the writer's position is, and fits.           *)
WriterHolds ==
  \A h \in Handle :
    kind[h] = "writer" /\ slice[h] # None =>
      /\ slice[h].first = word.w
      /\ slice[h].length \in 1 .. Writable(word)

(* A consumer that is alone has a slice of what can be read.                 *)
ConsumerHolds ==
  ~cloned =>
    \A h \in Handle :
      kind[h] \in Consumers /\ slice[h] # None /\ slice[h].length > 0 =>
        /\ word.r <= slice[h].first
        /\ slice[h].first + slice[h].length <= word.r + Readable(word)
        /\ slice[h].reclaims => slice[h].first = word.r

(* Nothing is closed before the first handles are made.                      *)
Started == splits = 0 => Live = {} /\ closed = {}

IInv ==
  /\ TypeOK
  /\ CountsAlone
  /\ HandlesAreUnique
  /\ SlicesOwned
  /\ WriterHolds
  /\ ConsumerHolds
  /\ WordSurvives
  /\ Started
  /\ LiveSideIsOpen
  /\ PanicsExplained

USE DEF Consumers

-----------------------------------------------------------------------------
(* The initial states satisfy the invariant.                                 *)
LEMMA InitEstablishes == Init => IInv
<1> SUFFICES ASSUME Init PROVE IInv
  OBVIOUS
<1> USE DEF Init
<1>1. TypeOK
  <2>1. word \in Words /\ splits \in 0 .. MaxSplits
    BY EmptyIsWord, HandlesAssumption
  <2>2. kind \in [Handle -> {"none", "writer"} \cup Consumers]
    OBVIOUS
  <2>3. slice \in [Handle -> Slices \cup {None}]
    OBVIOUS
  <2>4. QED
    BY <2>1, <2>2, <2>3 DEF TypeOK
<1>2. Live = {}
  BY DEF Live
<1>3. CountsAlone /\ HandlesAreUnique /\ Started /\ LiveSideIsOpen
  BY <1>2 DEF CountsAlone, HandlesAreUnique, Started, LiveSideIsOpen
<1>4. SlicesOwned /\ WriterHolds /\ ConsumerHolds
  BY DEF SlicesOwned, WriterHolds, ConsumerHolds
<1>5. WordSurvives /\ PanicsExplained
  BY EmptyIsWord DEF WordSurvives, PanicsExplained
<1>6. QED
  BY <1>1, <1>2, <1>3, <1>4, <1>5 DEF IInv

-----------------------------------------------------------------------------
(* Every step preserves the invariant *)

(* What the handles know does not change while only pointers do.             *)
LEMMA HandlesKept ==
  ASSUME IInv, UNCHANGED <<kind, slice, ring, splits, cloned>>
  PROVE  /\ (HandlesAreUnique /\ SlicesOwned /\ WriterHolds /\ ConsumerHolds)'
         /\ (WordSurvives /\ Started /\ LiveSideIsOpen /\ PanicsExplained)'
         /\ Live' = Live
<1> USE DEF ring, Live
<1>1. Live' = Live
  OBVIOUS
<1>2. (HandlesAreUnique /\ SlicesOwned /\ WriterHolds /\ ConsumerHolds)'
  BY <1>1 DEF IInv, HandlesAreUnique, SlicesOwned, WriterHolds, ConsumerHolds
<1>3. (WordSurvives /\ Started /\ LiveSideIsOpen /\ PanicsExplained)'
  BY <1>1 DEF IInv, WordSurvives, Started, LiveSideIsOpen, PanicsExplained
<1>4. QED
  BY <1>1, <1>2, <1>3

(* What the owners do with their pointers keeps it.  The first count starts  *)
(* alone, and nothing that a handle comes from can happen before the second. *)
LEMMA PointersKeep ==
  ASSUME IInv, NEW o \in Owners,
         \/ Share(o) \/ ClonePointer(o) \/ Downgrade(o) \/ Upgrade(o)
         \/ DropStrong(o) \/ DropWeak(o) \/ CountStrong(o) \/ RefuseSplit(o)
  PROVE  IInv'
<1>1. UNCHANGED <<kind, slice, ring, splits, cloned>>
  BY DEF Share, ClonePointer, Downgrade, Upgrade, DropStrong, DropWeak,
         CountStrong, RefuseSplit
<1>2. TypeOK /\ CountsAlone
  BY DEF IInv
<1>3. TypeOK'
  BY <1>1, <1>2 DEF TypeOK, CountsAlone, ring, Share, ClonePointer, Downgrade,
     Upgrade, DropStrong, DropWeak, CountStrong, RefuseSplit
<1>4. CountsAlone'
  <2>1. CASE CountStrong(o)
    <3>1. counting = {} /\ Live' = {} /\ counting' = {o}
      BY <2>1, <1>2, <1>1, HandlesKept DEF CountStrong, TypeOK
    <3>2. QED
      BY <3>1, <2>1, <1>2 DEF CountStrong, CountsAlone
  <2>2. CASE ~CountStrong(o)
    BY <2>2, <1>1, <1>2, HandlesKept
    DEF TypeOK, CountsAlone, Share, ClonePointer, Downgrade, Upgrade, DropStrong,
        DropWeak, RefuseSplit
  <2>3. QED
    BY <2>1, <2>2
<1>5. QED
  BY <1>1, <1>3, <1>4, HandlesKept DEF IInv

(* Handles are made when there are none.                                     *)
LEMMA MakingKeeps ==
  ASSUME IInv, Live = {}, UNCHANGED <<slice, ring, cloned>>,
         splits' = splits + 1, splits' \in 0 .. MaxSplits,
         kind' \in [Handle -> {"none", "writer", "reader"}],
         \A g, h \in Handle : kind'[g] = kind'[h] /\ kind'[g] # "none" => g = h,
         place' \in {"owned", "shared"}, strong' \subseteq Owners,
         weak' \subseteq Owners, counting' = {},
         place' = "owned" => strong' = {}
  PROVE  IInv'
<1>1. \A h \in Handle : slice[h] = None /\ slice'[h] = None
  BY DEF IInv, SlicesOwned, Live
<1>2. TypeOK' /\ CountsAlone'
  BY DEF IInv, TypeOK, CountsAlone, ring
<1>3. HandlesAreUnique'
  BY DEF HandlesAreUnique, Live
<1>4. (SlicesOwned /\ WriterHolds /\ ConsumerHolds)'
  BY <1>1 DEF SlicesOwned, WriterHolds, ConsumerHolds
<1>5. splits \in Nat /\ (splits = 0 => closed = {})
  BY DEF IInv, TypeOK, Started
<1>6. (Started /\ LiveSideIsOpen)'
  BY <1>5 DEF Started, LiveSideIsOpen, ring
<1>7. (WordSurvives /\ PanicsExplained)'
  BY <1>5 DEF IInv, WordSurvives, PanicsExplained, ring
<1>8. QED
  BY <1>2, <1>3, <1>4, <1>6, <1>7 DEF IInv

(* Every way to make handles makes them when there are none.                 *)
LEMMA SplitsKeep ==
  ASSUME IInv, NEW g \in Handle, NEW h \in Handle,
         \/ Split(g, h) \/ \E o \in Owners : SplitShared(o, g, h)
         \/ MakeOne(g, "writer") \/ MakeOne(g, "reader")
  PROVE  IInv'
<1>1. TypeOK /\ CountsAlone
  BY DEF IInv
<1>2. CASE Split(g, h)
  BY <1>2, <1>1, MakingKeeps, HandlesAssumption
  DEF Split, Make, pointers, TypeOK, CountsAlone, Live
<1>3. CASE MakeOne(g, "writer") \/ MakeOne(g, "reader")
  BY <1>3, <1>1, MakingKeeps, HandlesAssumption
  DEF MakeOne, pointers, TypeOK, CountsAlone, Live
<1>4. CASE \E o \in Owners : SplitShared(o, g, h)
  <2>0. PICK o \in Owners : SplitShared(o, g, h)
    BY <1>4
  <2>1. /\ Live = {} /\ counting = {o} /\ splits < MaxSplits
        /\ strong' \subseteq Owners /\ weak' \subseteq Owners
        /\ counting' = {} /\ place' = place /\ place = "shared"
    BY <2>0, <1>1 DEF SplitShared, TypeOK, CountsAlone
  <2>2. /\ kind' \in [Handle -> {"none", "writer", "reader"}]
        /\ \A i, j \in Handle :
             kind'[i] = kind'[j] /\ kind'[i] # "none" => i = j
    BY <2>1, <2>0, <1>1 DEF SplitShared, Make, TypeOK, Live
  <2>3. splits' = splits + 1 /\ splits' \in 0 .. MaxSplits
    BY <2>1, <2>0, <1>1, HandlesAssumption DEF SplitShared, Make, TypeOK
  <2>4. QED
    BY <2>1, <2>2, <2>3, <2>0, MakingKeeps DEF SplitShared
<1>5. QED
  BY <1>2, <1>3, <1>4

(* While a handle lives nobody is between the counts.                        *)
LEMMA NobodyCounts ==
  ASSUME IInv, Live # {}, UNCHANGED pointers
  PROVE  CountsAlone' /\ (place \in {"owned", "shared"} /\ strong \subseteq Owners
                           /\ weak \subseteq Owners /\ counting \subseteq strong)'
  BY DEF IInv, TypeOK, CountsAlone, pointers

(* A Peeker that is cloned gives up the uniqueness of the consumers.         *)
LEMMA ClonePeekerKeeps ==
  ASSUME IInv, NEW h \in Handle, NEW c \in Handle, ClonePeeker(h, c)
  PROVE  IInv'
<1> USE DEF ClonePeeker, AtHand, Live
<1>1. TypeOK' /\ CountsAlone'
  BY NobodyCounts DEF IInv, TypeOK, ring
<1>2. slice[c] = None /\ slice' = slice /\ cloned'
  BY DEF IInv, SlicesOwned
<1>3. HandlesAreUnique'
  BY <1>2 DEF IInv, TypeOK, HandlesAreUnique
<1>4. (SlicesOwned /\ WriterHolds /\ ConsumerHolds)'
  BY <1>2 DEF IInv, TypeOK, SlicesOwned, WriterHolds, ConsumerHolds, ring
<1>5. (Started /\ LiveSideIsOpen)'
  BY <1>2 DEF IInv, TypeOK, Started, LiveSideIsOpen, ring
<1>6. (WordSurvives /\ PanicsExplained)'
  BY <1>2 DEF IInv, WordSurvives, PanicsExplained, ring
<1>7. QED
  BY <1>1, <1>3, <1>4, <1>5, <1>6 DEF IInv

(* A handle that is converted stays a consumer, and closes nothing.          *)
LEMMA ConvertKeeps ==
  ASSUME IInv, NEW h \in Handle, Convert(h)
  PROVE  IInv'
<1> USE DEF Convert, AtHand, Live
<1>1. TypeOK' /\ CountsAlone'
  BY NobodyCounts DEF IInv, TypeOK, ring
<1>2. HandlesAreUnique'
  BY DEF IInv, TypeOK, HandlesAreUnique
<1>3. (SlicesOwned /\ WriterHolds /\ ConsumerHolds)'
  BY DEF IInv, TypeOK, SlicesOwned, WriterHolds, ConsumerHolds, ring
<1>4. (Started /\ LiveSideIsOpen)'
  BY DEF IInv, TypeOK, Started, LiveSideIsOpen, ring
<1>5. (WordSurvives /\ PanicsExplained)'
  BY DEF IInv, WordSurvives, PanicsExplained, ring
<1>6. QED
  BY <1>1, <1>2, <1>3, <1>4, <1>5 DEF IInv

(* The cell that is marked was open, but for what PanicsExplained excepts;   *)
(* and nobody is left on a side that is closed.                              *)
LEMMA DropHandleKeeps ==
  ASSUME IInv, NEW h \in Handle, DropHandle(h)
  PROVE  IInv'
<1> USE DEF DropHandle, AtHand, Live
<1>1. kind[h] \in {"writer", "reader", "peeker"} /\ slice[h] = None
  BY DEF IInv, TypeOK
<1>2. CASE kind[h] = "peeker"
  <2>1. UNCHANGED ring
    BY <1>2
  <2>2. TypeOK' /\ CountsAlone'
    BY <2>1, NobodyCounts DEF IInv, TypeOK, ring
  <2>3. HandlesAreUnique'
    BY DEF IInv, TypeOK, HandlesAreUnique
  <2>4. (SlicesOwned /\ WriterHolds /\ ConsumerHolds)'
    BY <1>1, <2>1 DEF IInv, TypeOK, SlicesOwned, WriterHolds, ConsumerHolds, ring
  <2>5. (Started /\ LiveSideIsOpen)'
    BY <2>1 DEF IInv, TypeOK, Started, LiveSideIsOpen, ring
  <2>6. (WordSurvives /\ PanicsExplained)'
    BY <2>1 DEF IInv, WordSurvives, PanicsExplained, ring
  <2>7. QED
    BY <2>2, <2>3, <2>4, <2>5, <2>6 DEF IInv
<1>3. CASE kind[h] \in {"writer", "reader"}
  <2> DEFINE cell == IF kind[h] = "writer" THEN "producer" ELSE "consumer"
  <2>1. Mark(cell)
    BY <1>3
  <2> HIDE DEF cell
  <2>2. /\ word' = word /\ closed' = closed \cup {cell}
        /\ failed' = IF cell \in closed THEN failed \cup {"close"} ELSE failed
        /\ cell \in {"producer", "consumer"}
    BY <2>1 DEF Mark, cell
  <2>3. TypeOK' /\ CountsAlone'
    BY <2>2, NobodyCounts DEF IInv, TypeOK
  <2>4. HandlesAreUnique'
    BY DEF IInv, TypeOK, HandlesAreUnique
  <2>5. (SlicesOwned /\ WriterHolds /\ ConsumerHolds)'
    BY <1>1, <2>2 DEF IInv, TypeOK, SlicesOwned, WriterHolds, ConsumerHolds
  <2>6. splits \in Nat \ {0} /\ splits' = splits /\ cloned' = cloned
    BY DEF IInv, TypeOK, Started
  <2>7. LiveSideIsOpen'
    <3> SUFFICES ASSUME splits = 1, NEW g \in Handle, g # h, kind[g] # "none"
                 PROVE  /\ kind[g] = "writer" => "producer" \notin closed'
                        /\ kind[g] \in Consumers /\ ~cloned
                             => "consumer" \notin closed'
      BY <2>6 DEF IInv, TypeOK, LiveSideIsOpen
    <3>1. /\ kind[g] = "writer" => "producer" \notin closed
          /\ kind[g] \in Consumers /\ ~cloned => "consumer" \notin closed
      BY DEF IInv, LiveSideIsOpen
    <3>2. /\ kind[g] = "writer" => cell # "producer"
          /\ kind[g] \in Consumers /\ ~cloned => cell # "consumer"
      BY <1>3 DEF IInv, HandlesAreUnique, cell
    <3>3. QED
      BY <3>1, <3>2, <2>2
  <2>8. PanicsExplained'
    <3>1. cell \in closed => splits > 1 \/ cloned
      BY <1>3, <2>6 DEF IInv, LiveSideIsOpen, cell
    <3>2. QED
      BY <3>1, <2>2, <2>6 DEF IInv, PanicsExplained
  <2>9. (Started /\ WordSurvives)'
    BY <2>2, <2>6 DEF IInv, Started, WordSurvives
  <2>10. QED
    BY <2>3, <2>4, <2>5, <2>7, <2>8, <2>9 DEF IInv
<1>4. QED
  BY <1>1, <1>2, <1>3

(* A slice that is lent out lies where its handle may go.                    *)
MayLend(h, s) ==
  /\ s.reclaims => s.length > 0
  /\ kind[h] = "writer" =>
       s.first = word.w /\ s.length \in 1 .. Writable(word)
  /\ kind[h] \in Consumers /\ s.length > 0 =>
       /\ word.r <= s.first
       /\ s.first + s.length <= word.r + Readable(word)
       /\ s.reclaims => s.first = word.r

(* A slice lent like that keeps the invariant.                               *)
LEMMA LendKeeps ==
  ASSUME IInv, NEW h \in Handle, AtHand(h), NEW lent \in Slices,
         MayLend(h, lent),
         slice' = [slice EXCEPT ![h] = lent],
         UNCHANGED <<pointers, kind, ring, splits, cloned>>
  PROVE  IInv'
<1> USE DEF MayLend
<1>1. kind[h] # "none"
  BY DEF AtHand, Live
<1>3. TypeOK' /\ CountsAlone'
  BY <1>1, NobodyCounts DEF IInv, TypeOK, ring, Live
<1>4. HandlesAreUnique'
  BY <1>1 DEF IInv, HandlesAreUnique, Live
<1>5. (SlicesOwned /\ WriterHolds /\ ConsumerHolds)'
  <2>1. \A g \in Handle : slice'[g] = IF g = h THEN lent ELSE slice[g]
    BY <1>1 DEF IInv, TypeOK
  <2>2. SlicesOwned'
    BY <2>1, <1>1 DEF IInv, SlicesOwned
  <2>3. WriterHolds'
    BY <2>1, <1>1 DEF IInv, WriterHolds, ring
  <2>4. ConsumerHolds'
    BY <2>1, <1>1 DEF IInv, ConsumerHolds, ring
  <2>5. QED
    BY <2>2, <2>3, <2>4
<1>6. (Started /\ LiveSideIsOpen /\ WordSurvives /\ PanicsExplained)'
  BY <1>1 DEF IInv, Started, LiveSideIsOpen, WordSurvives, PanicsExplained,
     ring, Live
<1>7. QED
  BY <1>3, <1>4, <1>5, <1>6 DEF IInv

(* try_write, try_read and try_peek lend like that.                          *)
LEMMA UseKeeps ==
  ASSUME IInv, NEW h \in Handle, NEW n \in Nat,
         \/ n \in Lengths /\ (TryWrite(h, n) \/ TryRead(h, n))
         \/ n \in Skips /\ TryPeek(h, n)
  PROVE  IInv'
<1>1. word \in Words /\ Ordered(word) /\ word.r \in Index /\ word.w \in Index
  BY DEF IInv, TypeOK, WordSurvives, Words
<1>2. /\ Writable(word) \in 0 .. Capacity /\ Readable(word) \in 0 .. Capacity
      /\ word.r + Readable(word) <= Capacity
  BY <1>1, WordFacts, CapacityAssumption
<1>3. CASE n \in Lengths /\ TryWrite(h, n)
  <2> DEFINE len == MinOf(Writable(word), n)
  <2>1. len \in 1 .. Writable(word) /\ len \in 0 .. Capacity
    BY <1>2, <1>3, CapacityAssumption, HandlesAssumption
    DEF TryWrite, MinOf
  <2>2. AtHand(h) /\ kind[h] = "writer" /\ Lend(h, word.w, len, TRUE)
    BY <1>3 DEF TryWrite
  <2> HIDE DEF len
  <2>3. PICK lent \in Slices :
          lent = [first |-> word.w, length |-> len, reclaims |-> TRUE]
    BY <2>1, <1>1 DEF Slices
  <2>4. /\ slice' = [slice EXCEPT ![h] = lent]
        /\ UNCHANGED <<pointers, kind, ring, splits, cloned>>
    BY <2>2, <2>3 DEF Lend
  <2>5. MayLend(h, lent)
    BY <2>1, <2>2, <2>3, <1>2 DEF MayLend
  <2>6. QED
    BY <2>2, <2>3, <2>4, <2>5, LendKeeps
<1>4. CASE n \in Lengths /\ TryRead(h, n)
  <2> DEFINE len == MinOf(Readable(word), n)
  <2>1. len \in 1 .. Readable(word) /\ len \in 0 .. Capacity
    BY <1>2, <1>4, CapacityAssumption, HandlesAssumption
    DEF TryRead, MinOf
  <2>2. AtHand(h) /\ kind[h] \in Consumers /\ Lend(h, word.r, len, TRUE)
    BY <1>4 DEF TryRead
  <2> HIDE DEF len
  <2>3. PICK lent \in Slices :
          lent = [first |-> word.r, length |-> len, reclaims |-> TRUE]
    BY <2>1, <1>1 DEF Slices
  <2>4. /\ slice' = [slice EXCEPT ![h] = lent]
        /\ UNCHANGED <<pointers, kind, ring, splits, cloned>>
    BY <2>2, <2>3 DEF Lend
  <2>5. MayLend(h, lent)
    BY <2>1, <2>2, <2>3, <1>1, <1>2 DEF MayLend, Index
  <2>6. QED
    BY <2>2, <2>3, <2>4, <2>5, LendKeeps
<1>5. CASE n \in Skips /\ TryPeek(h, n)
  <2> DEFINE first == (word.r + n) % Capacity
             len   == Readable(word) - n
  <2>1. len \in 0 .. Capacity /\ n <= Readable(word)
    BY <1>2, <1>5, CapacityAssumption DEF TryPeek
  <2>2. first = IF word.r + n < Capacity THEN word.r + n
                ELSE word.r + n - Capacity
    BY <2>1, <1>1, <1>2, Wrap, CapacityAssumption DEF Index
  <2>3. AtHand(h) /\ kind[h] \in Consumers /\ Lend(h, first, len, FALSE)
    BY <1>5 DEF TryPeek
  <2> HIDE DEF first
  <2>4. first \in Index /\ (len > 0 => first = word.r + n)
    BY <2>1, <2>2, <1>1, <1>2, CapacityAssumption DEF Index
  <2>5. len > 0 => word.r <= first /\ first + len <= word.r + Readable(word)
    BY <2>1, <2>4, <1>1, <1>2 DEF Index
  <2> HIDE DEF len
  <2>6. PICK lent \in Slices :
          lent = [first |-> first, length |-> len, reclaims |-> FALSE]
    BY <2>1, <2>4 DEF Slices
  <2>7. /\ slice' = [slice EXCEPT ![h] = lent]
        /\ UNCHANGED <<pointers, kind, ring, splits, cloned>>
    BY <2>3, <2>6 DEF Lend
  <2>8. MayLend(h, lent)
    BY <2>3, <2>5, <2>6 DEF MayLend
  <2>9. QED
    BY <2>3, <2>6, <2>7, <2>8, LendKeeps
<1>6. QED
  BY <1>3, <1>4, <1>5

(* A position that moves takes no room from the other side; and the position *)
(* can be moved, unless two consumers have read the same.                    *)
LEMMA DropSliceKeeps ==
  ASSUME IInv, NEW h \in Handle, DropSlice(h)
  PROVE  IInv'
<1>1. /\ slice[h] # None /\ slice' = [slice EXCEPT ![h] = None]
      /\ UNCHANGED <<pointers, kind, splits, cloned>>
      /\ kind[h] \in {"writer", "reader", "peeker"}
      /\ slice[h] \in Slices
  BY DEF DropSlice, IInv, TypeOK, SlicesOwned
<1>2. \A g \in Handle : slice'[g] = IF g = h THEN None ELSE slice[g]
  BY <1>1 DEF IInv, TypeOK
<1>3. /\ word \in Words /\ Ordered(word) /\ closed' = closed
      /\ Readable(word) \in Nat /\ Writable(word) \in Nat
      /\ Readable(word) <= Stored(word) /\ Stored(word) \in Nat
  <2>1. word \in Words /\ Ordered(word) /\ closed' = closed
    BY DEF IInv, TypeOK, WordSurvives, DropSlice, Reclaim, ring
  <2>2. QED
    BY <2>1, WordFacts, CapacityAssumption
<1> DEFINE len == slice[h].length
<1>4. len \in 0 .. Capacity
  BY <1>1 DEF Slices
<1>5. /\ word' \in Words /\ Ordered(word')
      /\ kind[h] \in Consumers =>
           word'.w = word.w /\ Writable(word) <= Writable(word')
      /\ kind[h] = "writer" =>
           word'.r = word.r /\ Readable(word) <= Readable(word')
  <2>1. CASE word' = word
    BY <2>1, <1>3
  <2>2. CASE word' # word /\ kind[h] = "writer"
    <3>1. word' = WriterMoved(word, len) /\ len \in 1 .. Writable(word)
      BY <2>2, <1>1 DEF DropSlice, Reclaim, ring, IInv, WriterHolds
    <3>2. QED
      BY <3>1, <2>2, <1>3, WriterMoves
  <2>3. CASE word' # word /\ kind[h] \in Consumers
    <3>1. /\ word' = ReaderMoved(word, len) /\ Readable(word) # 0
          /\ len \in Nat \ {0}
      BY <2>3, <1>1, <1>4 DEF DropSlice, Reclaim, ring, IInv, SlicesOwned
    <3>2. QED
      BY <3>1, <2>3, <1>3, AnyReaderMoves
  <2>4. QED
    BY <2>1, <2>2, <2>3, <1>1
<1>6. Writable(word') \in Nat /\ Readable(word') \in Nat
  BY <1>5, WordFacts, CapacityAssumption
<1>7. failed' \subseteq failed \cup {"reclaim"}
      /\ ("reclaim" \in failed' => "reclaim" \in failed \/ cloned)
  <2>1. CASE failed' = failed
    BY <2>1
  <2>2. CASE failed' # failed
    <3>1. /\ slice[h].reclaims /\ len > 0 /\ failed' = failed \cup {"reclaim"}
          /\ (IF kind[h] = "writer" THEN Writable(word) ELSE Readable(word)) = 0
      BY <2>2, <1>1, <1>4 DEF DropSlice, Reclaim, ring, IInv, SlicesOwned, Slices
    <3>2. kind[h] # "writer"
      BY <3>1, <1>1, <1>3 DEF IInv, WriterHolds
    <3>3. cloned
      <4> SUFFICES ASSUME ~cloned PROVE FALSE
        OBVIOUS
      <4>1. word.r + len <= word.r + Readable(word) /\ word.r \in Nat
        BY <3>1, <3>2, <1>1, <1>3
        DEF IInv, ConsumerHolds, Words, Index
      <4>2. QED
        BY <4>1, <3>1, <3>2, <1>4
    <3>4. QED
      BY <3>1, <3>3
  <2>3. QED
    BY <2>1, <2>2
<1> HIDE DEF len
<1>8. TypeOK' /\ CountsAlone'
  BY <1>1, <1>2, <1>3, <1>5, <1>7, NobodyCounts DEF IInv, TypeOK, Live
<1>9. (HandlesAreUnique /\ SlicesOwned)'
  BY <1>1, <1>2 DEF IInv, HandlesAreUnique, SlicesOwned, Live
<1>10. WriterHolds'
  <2> SUFFICES ASSUME NEW g \in Handle, kind[g] = "writer", slice'[g] # None
               PROVE  /\ slice'[g].first = word'.w
                      /\ slice'[g].length \in 1 .. Writable(word')
    BY <1>1 DEF WriterHolds
  <2>1. g # h /\ slice'[g] = slice[g]
    BY <1>2
  <2>2. kind[h] \in Consumers
    BY <2>1, <1>1 DEF IInv, HandlesAreUnique, Live
  <2>3. slice[g].first = word.w /\ slice[g].length \in 1 .. Writable(word)
    BY <2>1 DEF IInv, WriterHolds
  <2>4. QED
    BY <2>1, <2>2, <2>3, <1>3, <1>5, <1>6
<1>11. ConsumerHolds'
  <2> SUFFICES ASSUME ~cloned, NEW g \in Handle, kind[g] \in Consumers,
                      slice'[g] # None, slice'[g].length > 0
               PROVE  /\ word'.r <= slice'[g].first
                      /\ slice'[g].first + slice'[g].length
                            <= word'.r + Readable(word')
                      /\ slice'[g].reclaims => slice'[g].first = word'.r
    BY <1>1 DEF ConsumerHolds
  <2>1. g # h /\ slice'[g] = slice[g] /\ slice[g] \in Slices
    BY <1>2 DEF IInv, TypeOK
  <2>2. kind[h] = "writer"
    BY <2>1, <1>1 DEF IInv, HandlesAreUnique, Live
  <2>3. /\ word.r <= slice[g].first
        /\ slice[g].first + slice[g].length <= word.r + Readable(word)
        /\ slice[g].reclaims => slice[g].first = word.r
    BY <2>1 DEF IInv, ConsumerHolds
  <2>4. word.r \in Nat /\ slice[g].first \in Nat /\ slice[g].length \in Nat
    BY <2>1, <1>3, CapacityAssumption DEF Slices, Words, Index
  <2>5. QED
    BY <2>1, <2>2, <2>3, <2>4, <1>3, <1>5, <1>6
<1>12. (WordSurvives /\ Started /\ LiveSideIsOpen)'
  BY <1>1, <1>3, <1>5 DEF IInv, WordSurvives, Started, LiveSideIsOpen, Live
<1>13. PanicsExplained'
  BY <1>1, <1>7 DEF IInv, PanicsExplained
<1>14. QED
  BY <1>8, <1>9, <1>10, <1>11, <1>12, <1>13 DEF IInv
-----------------------------------------------------------------------------
(* The theorems *)

(* Every step keeps the invariant.                                           *)
LEMMA NextKeeps == IInv /\ [Next]_vars => IInv'
<1> SUFFICES ASSUME IInv, [Next]_vars PROVE IInv'
  OBVIOUS
<1>1. CASE UNCHANGED vars
  BY <1>1, HandlesKept
  DEF vars, pointers, ring, IInv, TypeOK, CountsAlone
<1>2. ASSUME NEW o \in Owners, PointerNext(o) PROVE IInv'
  <2>1. ASSUME NEW g \in Handle, NEW h \in Handle, SplitShared(o, g, h)
        PROVE  IInv'
    BY <2>1, SplitsKeep
  <2>2. QED
    BY <1>2, <2>1, PointersKeep DEF PointerNext
<1>3. ASSUME NEW h \in Handle, HandleNext(h) PROVE IInv'
  <2>1. CASE \E k \in {"writer", "reader"} : MakeOne(h, k)
    BY <2>1, SplitsKeep
  <2>2. CASE Convert(h) \/ DropHandle(h) \/ DropSlice(h)
    BY <2>2, ConvertKeeps, DropHandleKeeps, DropSliceKeeps
  <2>3. ASSUME NEW g \in Handle, Split(h, g) \/ ClonePeeker(h, g)
        PROVE  IInv'
    BY <2>3, SplitsKeep, ClonePeekerKeeps
  <2>4. ASSUME NEW n \in Lengths, TryWrite(h, n) \/ TryRead(h, n)
        PROVE  IInv'
    BY <2>4, UseKeeps, HandlesAssumption
  <2>5. ASSUME NEW n \in Skips, TryPeek(h, n) PROVE IInv'
    BY <2>5, UseKeeps, HandlesAssumption
  <2>6. QED
    BY <1>3, <2>1, <2>2, <2>3, <2>4, <2>5 DEF HandleNext
<1>4. QED
  BY <1>1, <1>2, <1>3 DEF Next

(* The invariant holds in every reachable state.                             *)
THEOREM Invariance == Spec => []IInv
<1>1. QED
  BY InitEstablishes, NextKeeps, PTL DEF Spec

(* Slices lie apart where the handles are unique and each slice is where its *)
(* handle may go.                                                            *)
LEMMA ApartInState == IInv => SlicesApart
<1> SUFFICES ASSUME IInv, NEW g \in Live, NEW h \in Live
             PROVE  /\ g # h /\ ~cloned => Cells(g) \cap Cells(h) = {}
                    /\ kind[h] = "writer" /\ slice[h] # None
                         => /\ slice[h].first = word.w
                            /\ slice[h].length <= Writable(word)
  BY DEF SlicesApart
<1>1. /\ word.r \in Nat /\ word.w \in Nat /\ Readable(word) \in Nat
      /\ Writable(word) \in Nat
      /\ word.r + Readable(word) <= word.w
           \/ word.w + Writable(word) <= word.r
  <2>1. word \in Words /\ Ordered(word)
    BY DEF IInv, TypeOK, WordSurvives
  <2>2. word.r \in Index /\ word.w \in Index /\ word.invert \in BOOLEAN
    BY <2>1 DEF Words
  <2>3. CASE word.invert
    BY <2>1, <2>2, <2>3, CapacityAssumption
    DEF Index, Ordered, Readable, Writable
  <2>4. CASE ~word.invert
    BY <2>1, <2>2, <2>4, CapacityAssumption
    DEF Index, Ordered, Readable, Writable
  <2>5. QED
    BY <2>3, <2>4
<1>2. kind[h] = "writer" /\ slice[h] # None
        => slice[h].first = word.w /\ slice[h].length <= Writable(word)
  BY <1>1 DEF IInv, WriterHolds, Live
<1>3. ASSUME NEW i \in Live, NEW j \in Live, ~cloned,
             kind[i] = "writer", kind[j] \in Consumers,
             NEW c \in Cells(i), c \in Cells(j)
      PROVE  FALSE
  <2>1. /\ slice[i] # None /\ slice[j] # None
        /\ slice[i] \in Slices /\ slice[j] \in Slices
    BY <1>3 DEF Cells, IInv, TypeOK, Live
  <2>2. /\ c \in Int
        /\ slice[i].first <= c /\ c < slice[i].first + slice[i].length
        /\ slice[j].first <= c /\ c < slice[j].first + slice[j].length
    BY <1>3, <2>1, CapacityAssumption DEF Cells, Slices, Index
  <2>3. slice[i].first = word.w /\ slice[i].length \in 1 .. Writable(word)
    BY <1>3, <2>1 DEF IInv, WriterHolds, Live
  <2>4. /\ word.r <= slice[j].first
        /\ slice[j].first + slice[j].length <= word.r + Readable(word)
    BY <1>3, <2>1, <2>2, CapacityAssumption
    DEF IInv, ConsumerHolds, Live, Slices, Index
  <2>5. slice[j].first \in Nat /\ slice[j].length \in Nat
    BY <2>1, CapacityAssumption DEF Slices, Index
  <2>6. QED
    BY <2>2, <2>3, <2>4, <2>5, <1>1
<1>4. g # h /\ ~cloned => Cells(g) \cap Cells(h) = {}
  <2> SUFFICES ASSUME g # h, ~cloned, NEW c \in Cells(g), c \in Cells(h)
               PROVE  FALSE
    OBVIOUS
  <2>1. \/ kind[g] = "writer" /\ kind[h] \in Consumers
        \/ kind[h] = "writer" /\ kind[g] \in Consumers
    BY DEF IInv, HandlesAreUnique
  <2>2. QED
    BY <2>1, <1>3
<1>5. QED
  BY <1>2, <1>4

(* Every variable has its type.                                              *)
THEOREM TypeCorrect == Spec => []TypeOK
<1>1. IInv => TypeOK
  BY DEF IInv
<1>2. QED
  BY <1>1, Invariance, PTL

(* However the two counts of try_split_from and the other threads' pointers  *)
(* interleave, no second writer and, without a cloned Peeker, no second      *)
(* consumer is ever alive.                                                   *)
THEOREM Unique == Spec => []HandlesAreUnique
<1>1. IInv => HandlesAreUnique
  BY DEF IInv
<1>2. QED
  BY <1>1, Invariance, PTL

(* The slices of the handles alive at a time share no cell.                  *)
THEOREM Apart == Spec => []SlicesApart
<1>1. QED
  BY ApartInState, Invariance, PTL

(* Cloned Peekers that reclaim the same elements do not break the word.      *)
THEOREM Survives == Spec => []WordSurvives
<1>1. IInv => WordSurvives
  BY DEF IInv
<1>2. QED
  BY <1>1, Invariance, PTL

(* No conversion between Reader and Peeker closes the consumer's side.       *)
THEOREM OpenWhileLive == Spec => []LiveSideIsOpen
<1>1. IInv => LiveSideIsOpen
  BY DEF IInv
<1>2. QED
  BY <1>1, Invariance, PTL

(* An assertion fails only after handles were made again or a Peeker cloned. *)
THEOREM Explained == Spec => []PanicsExplained
<1>1. IInv => PanicsExplained
  BY DEF IInv
<1>2. QED
  BY <1>1, Invariance, PTL
=============================================================================
