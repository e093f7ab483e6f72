----------------------------- MODULE BuffState -----------------------------
(***************************************************************************)
(* The ring buffer shared by a writer thread and a reader thread that      *)
(* never wait: `BuffState` of src/ring_buffer/sync_.rs, driven through     *)
(* try_write, try_read, try_peek, can_read, the drop of the slices they    *)
(* return (`Reclaim`) and the drop of the two handles.                     *)
(*                                                                         *)
(* One action is one access to memory the threads share: a load of the     *)
(* position word, a compare-exchange of it, a load of the closing cells,   *)
(* or the access to one cell of the buffer.  No demand is ever queued      *)
(* here, so that the `unsignal_` slot is null and try_signal_ returns at   *)
(* once; waiting is the subject of module Demands.                         *)
(*                                                                         *)
(* The build modelled is the one without debug assertions; those           *)
(* assertions are properties.                                              *)
(***************************************************************************)
EXTENDS RwState, Sequences

CONSTANTS
  Lengths,    \* the lengths asked of try_write and of try_read
  Skips,      \* the skips asked of try_peek
  MaxItems    \* bound: how many elements the writer sends at most

ASSUME BuffStateAssumption ==
  /\ Lengths \subseteq Nat
  /\ Skips \subseteq Nat
  /\ MaxItems \in Nat

VARIABLES
  word,       \* position_: both positions and INVERT
  buf,        \* buf_cell_: the cells; an element is its number in the stream
  consumer,   \* the consumer_ cell, "null" or "closed"
  producer,   \* the producer_ cell, "null" or "closed"
  wpc,        \* where the writer is
  wseen,      \* the word the writer loaded last in try_inc_writer_pos
  woff, wcnt, \* the writer's slice: first cell and length
  wdone,      \* the cells of it written so far
  sent,       \* the elements in the slices the writer has dropped
  rpc,        \* where the reader is
  rseen,      \* the word the reader loaded last in try_inc_reader_pos
  roff, rcnt, \* the reader's slice: first cell and length
  rskip,      \* how many elements before it the reader skipped (try_peek)
  rdst,       \* what the reader has copied out of it
  rres,       \* how the reader's last call failed, if it did
  taken       \* the elements in the slices the reader has dropped

shared     == <<word, buf, consumer, producer>>
writerVars == <<wpc, wseen, woff, wcnt, wdone, sent>>
readerVars == <<rpc, rseen, roff, rcnt, rskip, rdst, rres, taken>>
vars       == <<shared, writerVars, readerVars>>

Init ==
  /\ word = EmptyWord
  /\ buf = [c \in Index |-> 0]
  /\ consumer = "null" /\ producer = "null"
  /\ wpc = "idle" /\ wseen = EmptyWord
  /\ woff = 0 /\ wcnt = 0 /\ wdone = 0 /\ sent = 0
  /\ rpc = "idle" /\ rseen = EmptyWord
  /\ roff = 0 /\ rcnt = 0 /\ rskip = 0 /\ rdst = << >>
  /\ rres = "none" /\ taken = 0

-----------------------------------------------------------------------------
(* The writer *)

(* The locals of a call go out of scope when it returns. *)
WriterReturns ==
  wseen' = EmptyWord /\ woff' = 0 /\ wcnt' = 0 /\ wdone' = 0

(* try_write: one load of the word decides, and fixes the slice. *)
TryWrite(length) ==
  /\ wpc = "idle"
  /\ sent + length <= MaxItems
  /\ IF Writable(word) = 0
     THEN /\ wpc' = "refused"
          /\ UNCHANGED <<woff, wcnt, wdone>>
     ELSE /\ wpc' = "slice"
          /\ woff' = word.w
          /\ wcnt' = MinOf(Writable(word), length)
          /\ wdone' = 0
  /\ UNCHANGED <<shared, wseen, sent, readerVars>>

(* Closing or Stuffed, after is_closing: either way the caller keeps its     *)
(* elements and may call again.                                              *)
WriterRefused ==
  /\ wpc = "refused"
  /\ wpc' = "idle"
  /\ UNCHANGED <<shared, wseen, woff, wcnt, wdone, sent, readerVars>>

(* The caller writes one cell of the slice. *)
FillCell ==
  /\ wpc = "slice"
  /\ wdone < wcnt
  /\ buf' = [buf EXCEPT ![woff + wdone] = sent + wdone + 1]
  /\ wdone' = wdone + 1
  /\ UNCHANGED <<word, consumer, producer, wpc, wseen, woff, wcnt, sent,
                 readerVars>>

(* The slice is dropped: reclaim_mut, writer_forward and the load and the    *)
(* test of writer_checked_inc_pos_.  reclaim_mut asserts the outcome.        *)
WriterReclaim ==
  /\ wpc = "slice"
  /\ wdone = wcnt
  /\ wpc' = IF Writable(word) = 0 THEN "panicked" ELSE "load"
  /\ UNCHANGED <<shared, wseen, woff, wcnt, wdone, sent, readerVars>>

WriterLoad ==
  /\ wpc = "load"
  /\ wseen' = word
  /\ wpc' = IF WriterRefuses(word, wcnt) THEN "panicked" ELSE "cas"
  /\ UNCHANGED <<shared, woff, wcnt, wdone, sent, readerVars>>

(* A faulty variant: the word is stored, whatever it is by now. *)
WriterStores ==
  /\ wpc = "cas"
  /\ word' = WriterMoved(wseen, wcnt)
  /\ sent' = sent + wcnt
  /\ wpc' = "idle"
  /\ WriterReturns
  /\ UNCHANGED <<buf, consumer, producer, readerVars>>

(* The compare-exchange succeeds. *)
WriterAdvance ==
  /\ wpc = "cas"
  /\ word = wseen
  /\ word' = WriterMoved(wseen, wcnt)
  /\ sent' = sent + wcnt
  /\ wpc' = "idle"
  /\ WriterReturns
  /\ UNCHANGED <<buf, consumer, producer, readerVars>>

(* A faulty variant: the loop turns without the word it was handed. *)
WriterRetriesStale ==
  /\ wpc = "cas"
  /\ word # wseen
  /\ UNCHANGED vars

(* It fails: the reader moved in between, and the loop turns with the word   *)
(* the exchange returned.  (A spurious failure of the weak exchange returns  *)
(* the word the writer already has: it changes nothing.)                     *)
WriterRetry ==
  /\ wpc = "cas"
  /\ word # wseen
  /\ wseen' = word
  /\ wpc' = IF WriterRefuses(word, wcnt) THEN "panicked" ELSE "cas"
  /\ UNCHANGED <<shared, woff, wcnt, wdone, sent, readerVars>>

(* The writer is dropped: mark_producer_closed asserts that the cell is null.*)
CloseWriter ==
  /\ wpc = "idle"
  /\ producer' = "closed"
  /\ wpc' = IF producer = "null" THEN "closed" ELSE "panicked"
  /\ UNCHANGED <<word, buf, consumer, wseen, woff, wcnt, wdone, sent,
                 readerVars>>

-----------------------------------------------------------------------------
(* The reader *)

(* The locals of a call go out of scope when it returns. *)
ReaderReturns ==
  rseen' = EmptyWord /\ roff' = 0 /\ rcnt' = 0 /\ rskip' = 0 /\ rdst' = << >>

(* The slice that pack_slice_ makes for the reader. *)
ReaderSlice(offset, length, skip) ==
  /\ roff' = offset
  /\ rcnt' = length
  /\ rskip' = skip
  /\ rdst' = << >>

(* Every operation of the reader starts with one load of the word; when it   *)
(* finds too little it goes on to read the closing cells.                    *)
ReaderStarts(enough, pc, offset, length, skip) ==
  /\ rpc = "idle"
  /\ IF enough
     THEN /\ rpc' = pc
          /\ ReaderSlice(offset, length, skip)
     ELSE /\ rpc' = "refused"
          /\ UNCHANGED <<roff, rcnt, rskip, rdst>>
  /\ rres' = "none"
  /\ UNCHANGED <<shared, writerVars, rseen, taken>>

TryRead(length) ==
  ReaderStarts(Readable(word) > 0, "slice",
               word.r, MinOf(Readable(word), length), 0)

(* A faulty variant: the slice starts where the reader is. *)
TryPeekUnmoved(skip) ==
  ReaderStarts(Readable(word) >= skip /\ Readable(word) > 0, "peek",
               word.r, Readable(word) - skip, skip)

(* try_peek: the slice starts `skip` elements further on, and carries no     *)
(* reclaimer.                                                                *)
TryPeek(skip) ==
  ReaderStarts(Readable(word) >= skip /\ Readable(word) > 0, "peek",
               (word.r + skip) % Capacity, Readable(word) - skip, skip)

(* can_read: try_read(0), of which only the success is kept. *)
CanRead ==
  ReaderStarts(Readable(word) > 0, "peek", word.r, 0, 0)

(* is_closing, after the word has been found too empty.  The cell of the     *)
(* reader's own side is still null: what decides is the load of the other.   *)
ReaderRefused ==
  /\ rpc = "refused"
  /\ rres' = IF consumer = "closed" \/ producer = "closed"
             THEN "Closing" ELSE "Drained"
  /\ rpc' = "idle"
  /\ UNCHANGED <<shared, writerVars, rseen, roff, rcnt, rskip, rdst, taken>>

(* The caller copies one cell of the slice. *)
CopyCell ==
  /\ rpc \in {"slice", "peek"}
  /\ Len(rdst) < rcnt
  /\ rdst' = Append(rdst, buf[roff + Len(rdst)])
  /\ UNCHANGED <<shared, writerVars, rpc, rseen, roff, rcnt, rskip, rres, taken>>

(* A slice without a reclaimer is dropped. *)
EndPeek ==
  /\ rpc = "peek"
  /\ Len(rdst) = rcnt
  /\ rpc' = "idle"
  /\ ReaderReturns
  /\ UNCHANGED <<shared, writerVars, rres, taken>>

(* The slice is dropped: reclaim_ref, reader_forward and the load and the    *)
(* test of reader_checked_inc_pos_.  reclaim_ref asserts the outcome.        *)
ReaderReclaim ==
  /\ rpc = "slice"
  /\ Len(rdst) = rcnt
  /\ rpc' = IF Readable(word) = 0 THEN "panicked" ELSE "load"
  /\ UNCHANGED <<shared, writerVars, rseen, roff, rcnt, rskip, rdst, rres, taken>>

ReaderLoad ==
  /\ rpc = "load"
  /\ rseen' = word
  /\ rpc' = IF ReaderRefuses(word, rcnt) THEN "panicked" ELSE "cas"
  /\ UNCHANGED <<shared, writerVars, roff, rcnt, rskip, rdst, rres, taken>>

ReaderAdvance ==
  /\ rpc = "cas"
  /\ word = rseen
  /\ word' = ReaderMoved(rseen, rcnt)
  /\ taken' = taken + rcnt
  /\ rpc' = "idle"
  /\ ReaderReturns
  /\ UNCHANGED <<buf, consumer, producer, writerVars, rres>>

(* A faulty variant, as the writer's. *)
ReaderRetriesStale ==
  /\ rpc = "cas"
  /\ word # rseen
  /\ UNCHANGED vars

ReaderRetry ==
  /\ rpc = "cas"
  /\ word # rseen
  /\ rseen' = word
  /\ rpc' = IF ReaderRefuses(word, rcnt) THEN "panicked" ELSE "cas"
  /\ UNCHANGED <<shared, writerVars, roff, rcnt, rskip, rdst, rres, taken>>

(* The reader is dropped: mark_consumer_closed asserts that the cell is null.*)
CloseReader ==
  /\ rpc = "idle"
  /\ consumer' = "closed"
  /\ rpc' = IF consumer = "null" THEN "closed" ELSE "panicked"
  /\ UNCHANGED <<word, buf, producer, writerVars, rseen, roff, rcnt, rskip,
                 rdst, rres, taken>>

-----------------------------------------------------------------------------
WriterStep ==
  \/ WriterRefused \/ FillCell \/ WriterReclaim
  \/ WriterLoad \/ WriterAdvance \/ WriterRetry

ReaderStep ==
  \/ ReaderRefused \/ CopyCell \/ EndPeek \/ ReaderReclaim
  \/ ReaderLoad \/ ReaderAdvance \/ ReaderRetry

ReadSome == \E length \in Lengths : TryRead(length)

WriterNext ==
  \/ \E length \in Lengths : TryWrite(length)
  \/ WriterStep
  \/ CloseWriter

ReaderNext ==
  \/ ReadSome
  \/ \E skip \in Skips : TryPeek(skip)
  \/ CanRead
  \/ ReaderStep
  \/ CloseReader

(* Both handles are gone. *)
Finished ==
  /\ wpc = "closed" /\ rpc = "closed"
  /\ UNCHANGED vars

Next == WriterNext \/ ReaderNext \/ Finished

Spec == Init /\ [][Next]_vars

(***************************************************************************)
(* Fairness: each thread is scheduled, so that an operation it has begun   *)
(* goes on, and the reader is one that keeps asking for data, as the       *)
(* loops of the tests do.  Nothing is asked of the writer between its      *)
(* operations: it may stop.                                                *)
(***************************************************************************)
FairSpec ==
  /\ Spec
  /\ WF_vars(WriterStep)
  /\ WF_vars(ReaderStep)
  /\ SF_vars(ReadSome)

-----------------------------------------------------------------------------
(* Properties *)

TypeOK ==
  /\ word \in Words
  /\ buf \in [Index -> Nat]
  /\ consumer \in {"null", "closed"}
  /\ producer \in {"null", "closed"}
  /\ wpc \in {"idle", "refused", "slice", "load", "cas", "closed", "panicked"}
  /\ wseen \in Words
  /\ woff \in Nat /\ wcnt \in Nat /\ wdone \in Nat
  /\ sent \in Nat
  /\ rpc \in {"idle", "refused", "slice", "peek", "load", "cas", "closed",
              "panicked"}
  /\ rseen \in Words
  /\ roff \in Nat /\ rcnt \in Nat /\ rskip \in Nat
  /\ rdst \in Seq(Nat)
  /\ rres \in {"none", "Drained", "Closing"}
  /\ taken \in Nat

(* The cells a thread may touch through the slice it holds. *)
WriterCells ==
  IF wpc \in {"slice", "load", "cas"} THEN woff .. woff + wcnt - 1 ELSE {}
ReaderCells ==
  IF rpc \in {"slice", "peek", "load", "cas"} THEN roff .. roff + rcnt - 1 ELSE {}

(* The slices the two threads hold never share a cell, and lie within the    *)
(* buffer: there is no data race on buf_cell_, whose accesses are unsynchro- *)
(* nized.                                                                    *)
SlicesDisjoint ==
  /\ WriterCells \cap ReaderCells = {}
  /\ WriterCells \subseteq Index
  /\ ReaderCells \subseteq Index

(* What the reader copies out of a slice of try_read or try_peek are the     *)
(* elements that follow, in the writer's order, those it has taken.          *)
ReadsInOrder ==
  \A i \in 1 .. Len(rdst) : rdst[i] = taken + rskip + i

(* The word accounts for every element: a dropped slice moved its position   *)
(* by exactly its length, whatever the other thread did between the loads    *)
(* and the compare-exchange.                                                 *)
Conserved == Stored(word) = sent - taken

(* The debug assertions of load_positions_ hold at every load of the word.   *)
WordOrdered == Ordered(word)

(* try_write says Stuffed only of a full buffer and try_read says Drained    *)
(* only of an empty one: a wrapped position leaves no room out of reach.     *)
NothingOutOfReach ==
  /\ Free(word) > 0 => Writable(word) > 0
  /\ Stored(word) > 0 => Readable(word) > 0

(* None of the assertions of reclaim_mut, reclaim_ref, mark_producer_closed  *)
(* and mark_consumer_closed fails.                                           *)
NoPanic == wpc # "panicked" /\ rpc # "panicked"

(* A negative answer is reliable: when the reader is told Closing, the       *)
(* writer is gone and nothing it sent is left behind.                        *)
ClosingMeansDrained == rres = "Closing" => Stored(word) = 0

(* The ring buffer implements the bounded queue: what is in the buffer, from *)
(* the reader's position on and across the wrap, is the queue.               *)
StoredItems ==
  [i \in 1 .. Stored(word) |-> buf[(word.r + i - 1) % Capacity]]

Queue == INSTANCE Fifo WITH
  queue     <- StoredItems,
  producing <- producer = "null",
  consuming <- consumer = "null"

ImplementsFifo == Queue!Spec

(* Every element the writer hands over reaches a reader that keeps reading.  *)
Delivered ==
  \A n \in 1 .. MaxItems : sent >= n ~> (taken >= n \/ rpc = "closed")

(* The drop of a slice ends: the compare-exchange loops cannot be kept       *)
(* turning by the other thread.                                              *)
ReclaimEnds ==
  /\ wpc = "load" ~> wpc = "idle"
  /\ rpc = "load" ~> rpc = "idle"
=============================================================================
