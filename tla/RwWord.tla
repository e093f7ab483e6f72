------------------------------- MODULE RwWord -------------------------------
(***************************************************************************)
(* The position word bit by bit: `RwState` and `RwPosIoGuard` of           *)
(* src/ring_buffer/sync_.rs for a word of Bits bits.                       *)
(*                                                                         *)
(*     INVERT | IO_BUSY | ... | reader position | writer position          *)
(*                                                                         *)
(* A writer and a reader move their fields with compare-exchange loops     *)
(* while threads that print the buffer take and release the IO_BUSY flag   *)
(* of the same word.  The capacity is any that try_new accepts for the     *)
(* width.                                                                  *)
(***************************************************************************)
EXTENDS Integers

CONSTANTS
  Bits,       \* D::BITS, the width of the word
  Sizes,      \* the lengths of the buffers given to try_new
  Printers    \* the threads that format the buffer

\* The widths of the atomic unsigned integers (TLC computes with the first
\* two only).
ASSUME RwWordAssumption == Bits \in {8, 16, 32, 64} /\ Sizes \subseteq Nat

DMax          == 2 ^ Bits - 1
InvertFlag    == 2 ^ (Bits - 1)
IoBusyFlag    == 2 ^ (Bits - 2)
MaxSizeBits   == (Bits - 2) \div 2
BuffSizeMod   == 2 ^ MaxSizeBits
PosMax        == BuffSizeMod - 1     \* POS_MAX, which is WRITER_POS_MASK

(* A faulty variant: the positions are not looked at. *)
AcceptsAny(size) == size # 0 /\ size <= DMax

(* try_new: which buffers it takes. *)
Accepts(size) == size # 0 /\ size <= DMax /\ size < PosMax

-----------------------------------------------------------------------------
(* The fields.  A mask is a run of bits, so that `&` and `|` with it are a    *)
(* division, a remainder and a sum; the sum is the `|` of a position that    *)
(* fits its field, and a position that did not would spoil the neighbour     *)
(* either way.                                                               *)

HasFlag(v, flag)   == (v \div flag) % 2 = 1
SetFlag(v, flag)   == IF HasFlag(v, flag) THEN v ELSE v + flag
ClearFlag(v, flag) == IF HasFlag(v, flag) THEN v - flag ELSE v

ExpectInvert(v) == HasFlag(v, InvertFlag)
ExpectIoBusy(v) == HasFlag(v, IoBusyFlag)

LoadWriterPos(v)       == v % BuffSizeMod
LoadReaderPos(v)       == (v \div BuffSizeMod) % BuffSizeMod

(* Faulty variants: the flags are lost; the old position is not masked out.  *)
StoreWriterPosBare(v, pos) == LoadReaderPos(v) * BuffSizeMod + pos
StoreWriterPosOver(v, pos) == v + pos

StoreWriterPos(v, pos) == v - LoadWriterPos(v) + pos
StoreReaderPos(v, pos) == v + (pos - LoadReaderPos(v)) * BuffSizeMod

(* load_positions_: what is readable and writable without wrapping.          *)
ReadableIn(v, cap) ==
  IF ExpectInvert(v) THEN cap - LoadReaderPos(v)
                     ELSE LoadWriterPos(v) - LoadReaderPos(v)
WritableIn(v, cap) ==
  IF ExpectInvert(v) THEN LoadReaderPos(v) - LoadWriterPos(v)
                     ELSE cap - LoadWriterPos(v)

LeastOf(a, b) == IF a <= b THEN a ELSE b

(* A faulty variant: the turn of a buffer filled at once goes unmarked.      *)
WriterWordStrict(v, cap, amount) ==
  LET r == LoadReaderPos(v)
      w == LoadWriterPos(v)
      asked == amount % (cap + 1)
      w_new == (w + LeastOf(cap - w + r, asked)) % cap
      s     == StoreWriterPos(v, w_new)
  IN  IF ExpectInvert(v) THEN StoreWriterPos(v, w + LeastOf(r - w, asked))
      ELSE IF w_new < r THEN SetFlag(s, InvertFlag) ELSE s

(* One turn of try_inc_writer_pos: the word it wants.                        *)
WriterWord(v, cap, amount) ==
  LET r == LoadReaderPos(v)
      w == LoadWriterPos(v)
      asked == amount % (cap + 1)
  IN  IF ExpectInvert(v)
      THEN StoreWriterPos(v, w + LeastOf(r - w, asked))
      ELSE LET delta == LeastOf(cap - w + r, asked)
               w_new == (w + delta) % cap
               s     == StoreWriterPos(v, w_new)
           IN  IF delta = 0 THEN v
               ELSE IF w_new < r \/ w_new <= w THEN SetFlag(s, InvertFlag) ELSE s

(* One turn of try_inc_reader_pos.                                           *)
ReaderWord(v, cap, amount) ==
  LET r == LoadReaderPos(v)
      w == LoadWriterPos(v)
  IN  IF ExpectInvert(v)
      THEN LET r_new == (r + LeastOf(cap - r + w, amount)) % cap
               s     == StoreReaderPos(v, r_new)
           IN  IF r_new <= w \/ r_new <= r THEN ClearFlag(s, InvertFlag) ELSE s
      ELSE StoreReaderPos(v, r + LeastOf(w - r, amount))

-----------------------------------------------------------------------------
VARIABLES
  capacity,   \* capacity_
  position,   \* position_, the word
  writer,     \* the writer's increment: amount (0: none) and the word loaded
  reader,     \* the reader's
  guard       \* where each printer is: "none", "acquiring", "held"

vars == <<capacity, position, writer, reader, guard>>

NoIncrement == [amount |-> 0, state |-> 0]

Init ==
  /\ capacity \in {size \in Sizes : Accepts(size)}
  /\ position = 0
  /\ writer = NoIncrement
  /\ reader = NoIncrement
  /\ guard = [p \in Printers |-> "none"]

(* The writer drops a slice of `amount` cells, and loads the word.           *)
WriterLoads(amount) ==
  /\ writer.amount = 0
  /\ amount <= WritableIn(position, capacity)
  /\ writer' = [amount |-> amount, state |-> position]
  /\ UNCHANGED <<capacity, position, reader, guard>>

(* The weak compare-exchange, which hands back the word when it fails.       *)
WriterExchanges ==
  /\ writer.amount > 0
  /\ IF position = writer.state
     THEN /\ position' = WriterWord(position, capacity, writer.amount)
          /\ writer' = NoIncrement
     ELSE /\ writer' = [writer EXCEPT !.state = position]
          /\ UNCHANGED position
  /\ UNCHANGED <<capacity, reader, guard>>

ReaderLoads(amount) ==
  /\ reader.amount = 0
  /\ amount <= ReadableIn(position, capacity)
  /\ reader' = [amount |-> amount, state |-> position]
  /\ UNCHANGED <<capacity, position, writer, guard>>

ReaderExchanges ==
  /\ reader.amount > 0
  /\ IF position = reader.state
     THEN /\ position' = ReaderWord(position, capacity, reader.amount)
          /\ reader' = NoIncrement
     ELSE /\ reader' = [reader EXCEPT !.state = position]
          /\ UNCHANGED position
  /\ UNCHANGED <<capacity, writer, guard>>

(* RwPosIoGuard::acquire: it goes round until the flag was free.             *)
StartAcquire(p) ==
  /\ guard[p] = "none"
  /\ guard' = [guard EXCEPT ![p] = "acquiring"]
  /\ UNCHANGED <<capacity, position, writer, reader>>

Acquire(p) ==
  /\ guard[p] = "acquiring"
  /\ ~ExpectIoBusy(position)
  /\ position' = SetFlag(position, IoBusyFlag)
  /\ guard' = [guard EXCEPT ![p] = "held"]
  /\ UNCHANGED <<capacity, writer, reader>>

(* A faulty variant: the flag stays. *)
ReleaseNothing(p) ==
  /\ guard[p] = "held"
  /\ guard' = [guard EXCEPT ![p] = "none"]
  /\ UNCHANGED <<capacity, position, writer, reader>>

(* Its drop: release_ goes round until the flag was set.                     *)
Release(p) ==
  /\ guard[p] = "held"
  /\ ExpectIoBusy(position)
  /\ position' = ClearFlag(position, IoBusyFlag)
  /\ guard' = [guard EXCEPT ![p] = "none"]
  /\ UNCHANGED <<capacity, writer, reader>>

Next ==
  \/ \E amount \in 1 .. PosMax : WriterLoads(amount) \/ ReaderLoads(amount)
  \/ WriterExchanges
  \/ ReaderExchanges
  \/ \E p \in Printers : StartAcquire(p) \/ Acquire(p) \/ Release(p)

Spec == Init /\ [][Next]_vars

(***************************************************************************)
(* Fairness: a thread that prints runs on.  The form is the weak one: both *)
(* loops only spin, and nothing orders the threads that spin.              *)
(***************************************************************************)
FairSpec ==
  /\ Spec
  /\ \A p \in Printers : WF_vars(Acquire(p)) /\ WF_vars(Release(p))

-----------------------------------------------------------------------------
(* Properties *)

Positions(cap) == INSTANCE RwState WITH Capacity <- cap

(* The word as module RwState has it.                                        *)
Decoded(v) ==
  [r |-> LoadReaderPos(v), w |-> LoadWriterPos(v), invert |-> ExpectInvert(v)]

TypeOK ==
  /\ Accepts(capacity)
  /\ position \in 0 .. DMax
  /\ writer \in [amount : 0 .. PosMax, state : 0 .. DMax]
  /\ reader \in [amount : 0 .. PosMax, state : 0 .. DMax]
  /\ guard \in [Printers -> {"none", "acquiring", "held"}]

(* Both positions stay indices of the buffer, whatever its size, and the     *)
(* word stays ordered: no field runs over into its neighbour.                *)
FieldsKeepTheirPlace ==
  /\ Decoded(position) \in Positions(capacity)!Words
  /\ Positions(capacity)!Ordered(Decoded(position))

(* IO_BUSY is set exactly while one guard is held: increments that race with *)
(* the guard neither drop the flag nor bring back an old one.                *)
BusyIsHeld ==
  LET holders == {p \in Printers : guard[p] = "held"}
  IN  IF ExpectIoBusy(position) THEN \E p \in Printers : holders = {p}
                                ELSE holders = {}

(* Every change of the fields is one of the moves of module RwState, by the  *)
(* amount the thread asked for; taking and releasing the guard moves nothing.*)
MovesAsRwState ==
  LET old == Decoded(position)
      new == Decoded(position')
  IN  \/ new = old
      \/ /\ writer' # writer
         /\ new = Positions(capacity)!WriterMoved(old, writer.amount)
      \/ /\ reader' # reader
         /\ new = Positions(capacity)!ReaderMoved(old, reader.amount)

FieldsMoveAsRwState == [][MovesAsRwState]_vars

(* The others leave the word to p: no position is being moved, and nobody    *)
(* else asks for the guard.                                                  *)
LeftTo(p) ==
  /\ writer.amount = 0 /\ reader.amount = 0
  /\ \A q \in Printers \ {p} : guard[q] # "acquiring"

(* No race leaves the flag set with nobody to clear it, or clear under a     *)
(* holder, either of which a loop of the guard would spin on for ever: a     *)
(* thread that prints takes the guard and gives it back, unless others keep  *)
(* taking it, or exchanging the word, before it.                             *)
GuardIsPassedOn ==
  \A p \in Printers :
    <>[]LeftTo(p) => (guard[p] # "none" ~> guard[p] = "none")
=============================================================================
