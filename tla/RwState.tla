------------------------------ MODULE RwState ------------------------------
(***************************************************************************)
(* The arithmetic of the ring buffer's positions: `RwState` of             *)
(* src/ring_buffer/sync_.rs.                                               *)
(*                                                                         *)
(* The program keeps both positions and the INVERT flag in one atomic      *)
(* word.  Here the word is the record [r, w, invert]; how the record is    *)
(* packed into the bits of the word, and the IO_BUSY flag beside it, are   *)
(* the subject of module RwWord.                                           *)
(*                                                                         *)
(* r and w are indices of the buffer.  While INVERT is clear the data are  *)
(* the cells r .. w-1; while it is set the writer has wrapped, and the     *)
(* data are r .. capacity-1 followed by 0 .. w-1.  r = w is therefore the  *)
(* empty buffer when INVERT is clear and the full one when it is set.      *)
(***************************************************************************)
EXTENDS Integers

CONSTANT Capacity      \* capacity_, the number of cells of the buffer

\* BuffState::try_new refuses a buffer without cells.
ASSUME CapacityAssumption == Capacity \in Nat \ {0}

Index == 0 .. Capacity - 1

Words == [r : Index, w : Index, invert : BOOLEAN]

EmptyWord == [r |-> 0, w |-> 0, invert |-> FALSE]

MinOf(a, b) == IF a <= b THEN a ELSE b

(* Faulty variants: the data from the start of the array only, and the room  *)
(* up to its end whoever is in between.                                      *)
ReadableFromStart(s) == IF s.invert THEN s.w ELSE s.w - s.r
WritableToEnd(s)     == Capacity - s.w

(***************************************************************************)
(* load_positions_: the two lengths it computes.  Both count only the      *)
(* cells up to the end of the array, not the ones past the wrap.           *)
(***************************************************************************)
Readable(s) == IF s.invert THEN Capacity - s.r ELSE s.w - s.r
Writable(s) == IF s.invert THEN s.r - s.w ELSE Capacity - s.w

(* A faulty variant: one cell is never used.                                 *)
FreeButOne(s) == IF s.invert THEN s.r - s.w - 1 ELSE Capacity - s.w + s.r - 1

(***************************************************************************)
(* What is in the buffer and what is free across the wrap: `available` of  *)
(* try_inc_reader_pos and of try_inc_writer_pos.                           *)
(***************************************************************************)
Stored(s) == IF s.invert THEN Capacity - s.r + s.w ELSE s.w - s.r
Free(s)   == IF s.invert THEN s.r - s.w ELSE Capacity - s.w + s.r

(***************************************************************************)
(* The two debug assertions of load_positions_ (and of both increments).   *)
(***************************************************************************)
Ordered(s) == IF s.invert THEN s.w <= s.r ELSE s.r <= s.w

(***************************************************************************)
(* try_inc_writer_pos, one turn of its loop.  WriterDelta is the increment *)
(* it settles on (it first reduces `amount` modulo capacity + 1); the      *)
(* increment fails when there is no room at all; otherwise the word        *)
(* becomes WriterMoved.                                                    *)
(***************************************************************************)
WriterAmount(amount)     == amount % (Capacity + 1)
WriterDelta(s, amount)   == MinOf(Free(s), WriterAmount(amount))
WriterRefuses(s, amount) == Free(s) = 0 /\ WriterAmount(amount) > 0

(* Faulty variants: the position does not wrap; the wrap is not recorded.    *)
WriterMovedStraight(s, amount) ==
  [r |-> s.r, w |-> s.w + WriterDelta(s, amount), invert |-> s.invert]

WriterMovedUnmarked(s, amount) ==
  [r |-> s.r, w |-> (s.w + WriterDelta(s, amount)) % Capacity,
   invert |-> s.invert]

WriterMoved(s, amount) ==
  LET delta == WriterDelta(s, amount)
      w_new == (s.w + delta) % Capacity
  IN  IF s.invert
      THEN [r |-> s.r, w |-> s.w + delta, invert |-> TRUE]
      ELSE [r |-> s.r, w |-> w_new,
            invert |-> delta > 0 /\ (w_new < s.r \/ w_new <= s.w)]

(***************************************************************************)
(* try_inc_reader_pos, one turn of its loop.  Unlike the writer's, it has  *)
(* no case of its own for a zero increment.                                *)
(***************************************************************************)
ReaderDeltaUnclamped(s, amount) == amount    \* a faulty variant

ReaderDelta(s, amount)   == MinOf(Stored(s), amount)
ReaderRefuses(s, amount) == Stored(s) = 0 /\ amount > 0

ReaderMoved(s, amount) ==
  LET delta == ReaderDelta(s, amount)
      r_new == (s.r + delta) % Capacity
  IN  IF s.invert
      THEN [r |-> r_new, w |-> s.w,
            invert |-> ~(r_new <= s.w \/ r_new <= s.r)]
      ELSE [r |-> s.r + delta, w |-> s.w, invert |-> FALSE]
=============================================================================
