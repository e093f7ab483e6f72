------------------------------ MODULE Handles ------------------------------
(***************************************************************************)
(* Who may touch the ring buffer: the handles Writer, Reader and Peeker,   *)
(* the pointers the buffer is shared through, and the ways one makes the   *)
(* other (buffer_.rs, writer_.rs, reader_.rs, peeker_.rs).                 *)
(*                                                                         *)
(* The buffer starts as a variable of one owner, which lends itself        *)
(* exclusively to the handles of split, writer and reader; it may then     *)
(* move into a smart pointer that is cloned, downgraded to weak ones and   *)
(* upgraded by any thread, and try_split_from makes handles of the last    *)
(* one left.  It asks for the two counts one after the other, and the      *)
(* other threads do not stand still in between.                            *)
(*                                                                         *)
(* The handles are used through try_write, try_read and try_peek, one      *)
(* atomic step each; BuffState takes these apart, and Demands has the      *)
(* waiting.  A call that is refused changes nothing and is left out.  A    *)
(* handle whose slice is alive is borrowed: nothing else can be done with  *)
(* it.  An assertion that fails unwinds, and the rest goes on.             *)
(*                                                                         *)
(* External: the smart pointer (Shared of mm_ptr, or Arc) and its counts.  *)
(***************************************************************************)
EXTENDS RwState

CONSTANTS
  Owners,     \* who can hold a pointer to the buffer; one thread each
  Handle,     \* the places for handles
  Lengths,    \* the lengths asked of try_write and try_read
  Skips,      \* the skips asked of try_peek
  MaxSplits,  \* bound: how often handles are made of the buffer
  None        \* no slice

ASSUME HandlesAssumption ==
  /\ Lengths \subseteq Nat \ {0}
  /\ Skips \subseteq Nat
  /\ MaxSplits \in Nat
  /\ None \notin [first : Nat, length : Nat, reclaims : BOOLEAN]

VARIABLES
  place,      \* the buffer is a variable of its owner's, or "shared"
  strong,     \* the owners that hold a strong pointer
  weak,       \* the owners that hold a weak one
  counting,   \* the owners between the two counts of try_split_from
  kind,       \* what each handle is
  slice,      \* the slice each handle has lent
  word,       \* position_
  closed,     \* which of the cells producer_ and consumer_ are closed
  splits,     \* how often handles have been made
  cloned,     \* a Peeker has been cloned
  failed      \* the assertions that have failed

pointers == <<place, strong, weak, counting>>
ring     == <<word, closed, failed>>
vars     == <<pointers, kind, slice, ring, splits, cloned>>

Init ==
  /\ place = "owned"
  /\ strong = {} /\ weak = {} /\ counting = {}
  /\ kind = [h \in Handle |-> "none"]
  /\ slice = [h \in Handle |-> None]
  /\ word = EmptyWord
  /\ closed = {} /\ failed = {}
  /\ splits = 0 /\ cloned = FALSE

Consumers == {"reader", "peeker"}
Live == {h \in Handle : kind[h] # "none"}

(* An owned handle that has no slice out. *)
AtHand(h) == h \in Live /\ slice[h] = None

-----------------------------------------------------------------------------
(* The pointers *)

(* The buffer is moved into a smart pointer. *)
Share(o) ==
  /\ place = "owned" /\ Live = {}
  /\ place' = "shared"
  /\ strong' = {o}
  /\ UNCHANGED <<weak, counting, kind, slice, ring, splits, cloned>>

(* What a pointer can be cloned from: another owner's, or the one inside a   *)
(* Reader or Peeker (AsRef<B>).                                              *)
CanClone ==
  \/ strong \ counting # {}
  \/ \E h \in Handle : kind[h] \in Consumers /\ AtHand(h)

ClonePointer(o) ==
  /\ place = "shared"
  /\ CanClone
  /\ o \notin strong
  /\ strong' = strong \cup {o}
  /\ UNCHANGED <<place, weak, counting, kind, slice, ring, splits, cloned>>

Downgrade(o) ==
  /\ place = "shared"
  /\ CanClone
  /\ o \notin weak \cup counting
  /\ weak' = weak \cup {o}
  /\ UNCHANGED <<place, strong, counting, kind, slice, ring, splits, cloned>>

(* A weak pointer can be upgraded while there is a strong one. *)
Upgrade(o) ==
  /\ place = "shared"
  /\ o \in weak \ strong
  /\ strong \cup Live # {}
  /\ strong' = strong \cup {o}
  /\ UNCHANGED <<place, weak, counting, kind, slice, ring, splits, cloned>>

DropStrong(o) ==
  /\ o \in strong \ counting
  /\ strong' = strong \ {o}
  /\ UNCHANGED <<place, weak, counting, kind, slice, ring, splits, cloned>>

DropWeak(o) ==
  /\ o \in weak \ counting
  /\ weak' = weak \ {o}
  /\ UNCHANGED <<place, strong, counting, kind, slice, ring, splits, cloned>>

-----------------------------------------------------------------------------
(* The making of handles *)

(* No two of the handles are made in the same place. *)
Make(w, r) ==
  /\ w # r
  /\ kind[w] = "none" /\ kind[r] = "none"
  /\ kind' = [kind EXCEPT ![w] = "writer", ![r] = "reader"]
  /\ splits' = splits + 1

(* split: both handles borrow the variable, until the last of them is gone.  *)
Split(w, r) ==
  /\ place = "owned" /\ Live = {}
  /\ splits < MaxSplits
  /\ Make(w, r)
  /\ UNCHANGED <<pointers, slice, ring, cloned>>

(* writer and reader: one handle alone. *)
MakeOne(h, k) ==
  /\ place = "owned" /\ Live = {}
  /\ splits < MaxSplits
  /\ kind' = [kind EXCEPT ![h] = k]
  /\ splits' = splits + 1
  /\ UNCHANGED <<pointers, slice, ring, cloned>>

(* A faulty variant: the handles are not counted. *)
CountOwners(o) ==
  /\ o \in strong \ counting
  /\ splits < MaxSplits
  /\ strong = {o}
  /\ counting' = counting \cup {o}
  /\ UNCHANGED <<place, strong, weak, kind, slice, ring, splits, cloned>>

(* try_split_from: the strong count is 1; with more, the pointer is handed   *)
(* back. *)
CountStrong(o) ==
  /\ o \in strong \ counting
  /\ splits < MaxSplits
  /\ strong = {o} /\ Live = {}
  /\ counting' = counting \cup {o}
  /\ UNCHANGED <<place, strong, weak, kind, slice, ring, splits, cloned>>

(* The weak count is 0: the pointer is moved into the Reader, and a clone of *)
(* it into the Writer. *)
SplitShared(o, w, r) ==
  /\ o \in counting
  /\ weak = {}
  /\ Make(w, r)
  /\ counting' = counting \ {o}
  /\ strong' = strong \ {o}
  /\ UNCHANGED <<place, weak, slice, ring, cloned>>

(* It is not: the pointer is handed back. *)
RefuseSplit(o) ==
  /\ o \in counting
  /\ weak # {}
  /\ counting' = counting \ {o}
  /\ UNCHANGED <<place, strong, weak, kind, slice, ring, splits, cloned>>

(* A Peeker of a pointer that can be cloned. *)
ClonePeeker(h, c) ==
  /\ place = "shared"
  /\ kind[h] = "peeker" /\ AtHand(h)
  /\ kind[c] = "none"
  /\ kind' = [kind EXCEPT ![c] = "peeker"]
  /\ cloned' = TRUE
  /\ UNCHANGED <<pointers, slice, ring, splits>>

(* mark_producer_closed and mark_consumer_closed, which assert that the cell *)
(* is open. *)
Mark(cell) ==
  /\ closed' = closed \cup {cell}
  /\ failed' = IF cell \in closed THEN failed \cup {"close"} ELSE failed
  /\ UNCHANGED word

(* A faulty variant: the Reader that is converted is dropped. *)
ConvertDropping(h) ==
  /\ kind[h] \in Consumers /\ AtHand(h)
  /\ kind' = [kind EXCEPT ![h] = IF @ = "reader" THEN "peeker" ELSE "reader"]
  /\ IF kind[h] = "reader" THEN Mark("consumer") ELSE UNCHANGED ring
  /\ UNCHANGED <<pointers, slice, splits, cloned>>

(* into_peeker and the two From: the pointer moves, and no Drop runs. *)
Convert(h) ==
  /\ kind[h] \in Consumers /\ AtHand(h)
  /\ kind' = [kind EXCEPT ![h] = IF @ = "reader" THEN "peeker" ELSE "reader"]
  /\ UNCHANGED <<pointers, slice, ring, splits, cloned>>

(* A handle is dropped; a Peeker has no Drop. *)
DropHandle(h) ==
  /\ AtHand(h)
  /\ kind' = [kind EXCEPT ![h] = "none"]
  /\ CASE kind[h] = "writer" -> Mark("producer")
       [] kind[h] = "reader" -> Mark("consumer")
       [] kind[h] = "peeker" -> UNCHANGED ring
  /\ UNCHANGED <<pointers, slice, splits, cloned>>

-----------------------------------------------------------------------------
(* The use of handles *)

Lend(h, first, length, reclaims) ==
  /\ slice' = [slice EXCEPT ![h] = [first |-> first, length |-> length,
                                    reclaims |-> reclaims]]
  /\ UNCHANGED <<pointers, kind, ring, splits, cloned>>

TryWrite(h, length) ==
  /\ kind[h] = "writer" /\ AtHand(h)
  /\ Writable(word) > 0
  /\ Lend(h, word.w, MinOf(Writable(word), length), TRUE)

(* try_read of a Reader, or of a Peeker, which is one as well. *)
TryRead(h, length) ==
  /\ kind[h] \in Consumers /\ AtHand(h)
  /\ Readable(word) > 0
  /\ Lend(h, word.r, MinOf(Readable(word), length), TRUE)

(* try_peek of a Peeker or of a Reader. *)
TryPeek(h, skip) ==
  /\ kind[h] \in Consumers /\ AtHand(h)
  /\ Readable(word) > 0 /\ Readable(word) >= skip
  /\ Lend(h, (word.r + skip) % Capacity, Readable(word) - skip, FALSE)

(* reclaim_mut and reclaim_ref, which assert that the position can move.     *)
Reclaim(h) ==
  LET room  == IF kind[h] = "writer" THEN Writable(word) ELSE Readable(word)
      moved == IF kind[h] = "writer" THEN WriterMoved(word, slice[h].length)
                                     ELSE ReaderMoved(word, slice[h].length)
  IN  /\ word' = IF room = 0 THEN word ELSE moved
      /\ failed' = IF room = 0 THEN failed \cup {"reclaim"} ELSE failed
      /\ UNCHANGED closed

DropSlice(h) ==
  /\ slice[h] # None
  /\ slice' = [slice EXCEPT ![h] = None]
  /\ IF slice[h].reclaims THEN Reclaim(h) ELSE UNCHANGED ring
  /\ UNCHANGED <<pointers, kind, splits, cloned>>

-----------------------------------------------------------------------------
PointerNext(o) ==
  \/ Share(o) \/ ClonePointer(o) \/ Downgrade(o) \/ Upgrade(o)
  \/ DropStrong(o) \/ DropWeak(o)
  \/ CountStrong(o) \/ RefuseSplit(o)
  \/ \E w, r \in Handle : SplitShared(o, w, r)

HandleNext(h) ==
  \/ \E k \in {"writer", "reader"} : MakeOne(h, k)
  \/ Convert(h) \/ DropHandle(h) \/ DropSlice(h)
  \/ \E g \in Handle : Split(h, g) \/ ClonePeeker(h, g)
  \/ \E n \in Lengths : TryWrite(h, n) \/ TryRead(h, n)
  \/ \E n \in Skips : TryPeek(h, n)

Next == (\E o \in Owners : PointerNext(o)) \/ (\E h \in Handle : HandleNext(h))

Spec == Init /\ [][Next]_vars

-----------------------------------------------------------------------------
(* Properties *)

Slices == [first : Index, length : 0 .. Capacity, reclaims : BOOLEAN]

(* Every variable has its type. *)
TypeOK ==
  /\ place \in {"owned", "shared"}
  /\ strong \subseteq Owners /\ weak \subseteq Owners
  /\ counting \subseteq strong
  /\ kind \in [Handle -> {"none", "writer"} \cup Consumers]
  /\ slice \in [Handle -> Slices \cup {None}]
  /\ word \in Words
  /\ closed \subseteq {"producer", "consumer"}
  /\ splits \in 0 .. MaxSplits
  /\ cloned \in BOOLEAN
  /\ failed \subseteq {"close", "reclaim"}

(* However the threads clone, downgrade and upgrade while try_split_from     *)
(* asks for the two counts, no two writers are ever alive, nor, as long as   *)
(* no Peeker has been cloned, two consumers.                                 *)
HandlesAreUnique ==
  \A g, h \in Live :
    \/ g = h
    \/ kind[g] = "writer" /\ kind[h] \in Consumers
    \/ kind[h] = "writer" /\ kind[g] \in Consumers
    \/ cloned /\ kind[g] \in Consumers /\ kind[h] \in Consumers

Cells(h) ==
  IF slice[h] = None THEN {}
  ELSE slice[h].first .. slice[h].first + slice[h].length - 1

(* Slices of different handles share no cell, whatever handles have come and *)
(* gone before them, unless a Peeker has been cloned; and even then the      *)
(* writer's slice lies where there is room.                                  *)
SlicesApart ==
  \A g, h \in Live :
    /\ g # h /\ ~cloned => Cells(g) \cap Cells(h) = {}
    /\ kind[h] = "writer" /\ slice[h] # None
         => slice[h].first = word.w /\ slice[h].length <= Writable(word)

(* Any number of consumers, each reclaiming a slice the others have passed,  *)
(* can lose elements but cannot break the word: its positions stay in order, *)
(* and the assertions of load_positions_ hold.                               *)
WordSurvives == Ordered(word)

(* A side whose handle lives is not taken for closed: into_peeker and the    *)
(* two From run no Drop.  Handles of a later split find the cells closed     *)
(* already, and a clone of a Peeker can close the side of the others.        *)
LiveSideIsOpen ==
  splits = 1 =>
    \A h \in Live :
      /\ kind[h] = "writer" => "producer" \notin closed
      /\ kind[h] \in Consumers /\ ~cloned => "consumer" \notin closed

(* The assertions fail only where handles have been made again, or a Peeker  *)
(* has been cloned.                                                          *)
PanicsExplained ==
  /\ "close" \in failed => splits > 1 \/ cloned
  /\ "reclaim" \in failed => cloned
=============================================================================
