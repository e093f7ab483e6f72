# Verification of the `buffex` ring buffer

`buffex` is a Rust crate with one data structure: a ring buffer over a
caller-supplied array, written by one producer and read by one consumer without
locks, either by trying or by waiting asynchronously. This directory models it
in TLA+, checks the models with TLC and proves the core with TLAPS.

Source paths below are under `src/ring_buffer/`.

## 1. Inventory

### Components

| component | state | operations |
|---|---|---|
| **Position word** `RwState` (`sync_.rs` 578-940) | one atomic word: writer position, reader position, `INVERT`, `IO_BUSY` | `load_positions_`, `try_inc_writer_pos`, `try_inc_reader_pos`, field accessors |
| **I/O guard** `RwPosIoGuard` (`sync_.rs` 943-982) | `IO_BUSY` in the same word | `acquire`, drop |
| **Shared state** `BuffState` (`sync_.rs` 97-560) | the word, the cells, `producer_`, `consumer_` (null, a demand, or closed), `unsignal_` (one parked demand of either side) | `try_write`, `try_read`, `try_peek`, `can_read`, `can_write`, `*_forward`, `mark_*_closed`, `enqueue_*`, `check_*`, `dequeue_*`, `abort_demand`, `try_signal_*` |
| **Slices' reclaimer** `Reclaim` (`reclaim_.rs`) | offset and length fixed when the slice was made | `reclaim_ref`, `reclaim_mut` move the position when a slice is dropped, then signal the other side |
| **WriteFuture, ReadFuture, PeekFuture** (`writer_.rs`, `reader_.rs`, `peeker_.rs`) | `demand_`, whose signal is a `Oneshot`; the peeker's `skip_` | poll (which starts the async function anew), drop |
| **Handles** `RingBuffer`, `Writer`, `Reader`, `Peeker` (`buffer_.rs` and the three above) | the reference or smart pointer to the shared state | `split`, `writer`, `reader`, `try_split_from` (which asks for two counts), conversion between `Reader` and `Peeker`, clone of a `Peeker`, drop (`Peeker` has none) |
| **Client tasks** (the tests of `buffer_.rs`, `sync_.rs`, `chunk_.rs`) | the span in hand, the slice | call, fill or copy, drop the slice, until the span is done |
| **Traits and re-exports** (`abs_.rs`, `mod.rs`, `lib.rs`) | none | none |

### How they interact

* A successful `try_` call loads the word once and fixes a slice. The caller
  fills or copies its cells with no synchronisation. Dropping the slice runs the
  reclaimer, whose compare-exchange loop moves one of the two positions.
* Each position belongs to one side, but both live in the word both sides
  exchange, together with `INVERT`, which both change, and `IO_BUSY`, which
  printing threads change.
* A future that finds too little puts a demand into the cell of its side
  (`enqueue_`), takes it out to test it (`check_`), parks it in `unsignal_` and
  waits on its signal under a cancellation token. A side that moves its position,
  or closes, looks into `unsignal_`, asks the demand's check and sends its signal.
* Dropping a handle writes the closed mark into its cell; a call that fails reads
  both cells to tell `Closing` from `Stuffed` or `Drained`.

### What is hard, and what makes each component correct

| component | hard | correct when |
|---|---|---|
| position word | `r = w` means empty and full; wrap; loops that race on one word; fields that share a word | the word accounts for every element and stays ordered; fields stay in place for every accepted buffer; loops end |
| shared state without waiting | unsynchronised cells; stale word; closing read apart from the data | slices never overlap; elements arrive once and in order; a negative answer is reliable; no assertion fails |
| I/O guard | the flag shares the word the increments rewrite | set exactly while held; a loop that asks for it is never left stuck |
| demands and signals | one slot for two sides; check and park are two steps; a pointer to a future's demand | waiter reachable, woken when there is something, never dangling |
| futures | polled again, cancelled, dropped while waiting | each of these leaves slot and cells as the next call expects |
| handles | two counts asked for one after the other; pointers moved out of a handle without its `Drop`; several consumers; close twice, close while the other waits, end as a `Peeker` | one writer and, but for clones, one consumer; slices apart; a live side is not marked closed; the other side learns of the end |
| client tasks | a stream cut into spans, slices and waits that the two sides cut differently | the stream arrives in order and to its end |

Each hazard, at its line and with the properties that cover it, is in
`PROJECT.json`.

## 2. Modules

```
RwState            arithmetic of the positions (no variables)
    RwStateProofs      lemmas about it
  BuffState        the lock-free ring, step by step      --implements-->  Fifo
    BuffStateProofs    its invariants
      FifoProofs         that it implements Fifo
  Demands          futures, demands, signals, handles
    DemandsProofs      its invariants
    AsyncRing      with the cells and the client tasks   --implements-->  Channel
      AsyncRingProofs    its invariants, and the safety of Channel
  Handles          who may touch the ring: pointers, splits, conversions
    HandlesProofs      its invariants
RwWord             the bits of the word, IO_BUSY         --moves as-->    RwState
    RwWordProofs       its invariants, and that it does
MC*                instances for TLC
```

**RwState** has the word as a record `[r, w, invert]`: `Readable` and `Writable`
are the two lengths of `load_positions_` (contiguous cells only), `Stored` and
`Free` the `available` of the two increments, `WriterMoved` and `ReaderMoved` the
word one turn of each loop wants, `WriterRefuses` and `ReaderRefuses` its failure.

**BuffState** is two threads that never wait. One action is one access to shared
memory:

| action | code |
|---|---|
| `TryWrite`, `TryRead`, `TryPeek`, `CanRead` | the load of the word in the call of that name; `CanRead` is `try_read(0)` |
| `WriterRefused`, `ReaderRefused` | the loads of the closing cells after it (`is_closing`) |
| `FillCell`, `CopyCell` | the caller's access to one cell of the slice |
| `WriterReclaim`, `ReaderReclaim` | drop of the slice up to the load in `*_checked_inc_pos_` and its test, asserted by `reclaim_*` |
| `WriterLoad`, `ReaderLoad` | the load at the top of `try_inc_*_pos` |
| `WriterAdvance`/`WriterRetry`, `ReaderAdvance`/`ReaderRetry` | the compare-exchange, succeeding or failing with the new word |
| `CloseWriter`, `CloseReader` | `mark_*_closed`, asserted |

`buf` holds, in each cell, the number of an element in the writer's stream, so a
lost, repeated, overwritten or reordered element has a wrong number. `sent` and
`taken` count elements in dropped slices. `can_write` is `try_write(0)` and has no
action: it reaches `pack_slice_` as `CanRead` does and changes nothing else. The
value of a refused write (`Closing` or `Stuffed`) is dropped, as no property
needs it; the reader's is kept in `rres`.

**Fifo** is the promise: a bounded queue of numbered elements, `Put(n)` and
`Take(n)` in one step each, and the two closings. `BuffState` implements it with
the cells in use, from `r` and across the wrap, as the queue.

**RwWord** lays the fields out in the bits of a word, with masks written as
division and remainder. A writer and a reader move their fields while printing
threads take and release `IO_BUSY`. The capacity is any that `try_new` accepts.

**Demands** is the waiting. `pc[side]` follows the task of each side through
`poll`, `write_async_`/`read_async_`/`peek_async_`, `check_demand_`,
`abort_demand`, the reclaimers and `try_signal_`. One action is one access to the
word, the cells, `unsignal_` or a signal; the compare-exchange loop, taken apart
in `BuffState`, is one step, and the contents of slices are left out. A demand is
named by its side, since a side has one future at a time. `Parallel` says whether
the two tasks run on different threads or take turns at their await points;
`Lengths` are the lengths asked for; `Uses` says what callers do beyond reading,
writing and closing: cancel, drop a waiting future, poll one that nothing has woken
(as a `join!` or `select!` does for another future's sake), peek (as a `Peeker` or as
a `Reader`), turn one into the other, split again. `dropped` tells the drop of a
handle from a reclaim, which both end in `try_signal_`: the first ends the handle, the
second returns to it. A closed cell does not tell them apart, since a second split
finds the cells as the first has left them.

**AsyncRing** puts the cells and the client tasks under `Demands`. Each of its
actions is one of `Demands` with its effect on the stream, or an access to cells:

| action | code |
|---|---|
| `Ask` | the next call of the test loop: `write_async(n)` or `read_async(n)` for the rest of the span, or for a new span |
| `Proceed`, `Resume` | the steps of the call in `Demands`; a call that fails ends the span |
| `Fill`, `Copy` | `clone_from_slice` between span and slice |
| `Return` | the drop of the slice, which has been used |
| `Leave` | the drop of the handle, between two spans |

The length a call is given, which `Demands` leaves open, is the smaller of what is
contiguous and what is left of the span. The stream is endless and its elements
are numbered modulo `Labels`, more of them than the buffer has cells: no two
elements in the buffer look alike, nor an element and the one whose cell it took,
so a skipped, repeated or stale element still shows.

**Channel** is what waiting promises: how many elements are stored, who waits, who
has closed. A side starts to wait only when it can do nothing and nobody has
closed; it is woken only when it can do something, and then it is woken. How a
side learns of it is not said. `AsyncRing` implements it with `Stored` of the word
and the sides whose task is at its await.

**Handles** is about who may touch the buffer at all:

| action | code |
|---|---|
| `Split`, `MakeOne` | `split`, `writer`, `reader`: exclusive borrows of an owned buffer |
| `Share`, `ClonePointer`, `Downgrade`, `Upgrade`, `DropStrong`, `DropWeak` | external: what owners do with the smart pointer, at any moment; pointers can also be cloned out of a `Reader` or `Peeker` |
| `CountStrong`, then `SplitShared` or `RefuseSplit` | `try_split_from`: the strong count, and later the weak count; the others run in between |
| `Convert`, `ClonePeeker` | `into_peeker` and the two `From`, which run no `Drop`; `Clone` of a `Peeker` |
| `TryWrite`, `TryRead`, `TryPeek`, `DropSlice` | those calls and the reclaimers, one step each |
| `DropHandle` | the two `Drop`s, with the assertion of `mark_*_closed`; `Peeker` has none |

A handle whose slice is alive is borrowed by it, which the borrow checker
enforces: nothing else can be done with it. A failed assertion is recorded in
`failed` and the rest goes on, as another thread would.

The definitions marked "a faulty variant" are plausible mistakes in the code. No
specification uses them. Each is the replacement, listed in `PROJECT.json`, under
which a property must fail, and so shows that the property depends on the code.

### Read as the code does

* The build is the one **without debug assertions**. `debug_assert!`s are
  properties (`WordOrdered`, `WordSurvives`); `assert!`s send a task to
  `"panicked"` or `"panic_..."`, where it stays, and in `Handles` are recorded in
  `failed`. What `Drop`s do while a panic unwinds is not modelled.
* Memory is sequentially consistent; orderings chosen by the caller's type
  parameters are not modelled.
* A weak compare-exchange that fails spuriously returns the word already known:
  a stutter, left out.
* **External**: the executor, the smart pointer and its counts (`Shared` of
  `mm_ptr`, or `Arc`), the cancellation token, and the `Oneshot` of
  `asyncex`, whose send is taken to wake the task that polled it last. Each
  poll starts the async function anew and so drops the receiver the poll before
  was waiting on; whether `asyncex` keeps the waker then cannot be seen from this
  source, and the model gives it the benefit of the doubt.
* `CheckAnswers` is any Boolean when `try_signal_` asks a demand that has been
  freed, or a peeker's closure whose frame is gone: both are undefined behaviour.

## 3. Runs

Passing:

| run | instance | question |
|---|---|---|
| `ring` | capacity 3, 8 elements, lengths 1-4, skips 0, 1, 2, 3 | is the lock-free ring a queue, in every interleaving of single accesses? |
| `word` | 8-bit word, buffers of 0-9 cells (1-6 accepted), 2 printing threads | do the fields, the flags and the guard survive each other? |
| `waiting` | capacity 3, one executor thread, spans of 1-4 elements, 4 labels | does an endless stream arrive when the tasks take turns, and is the waiting the abstract channel's? |
| `anything` | capacity 2, two threads, lengths 1-3, all `Uses` | what still holds, however callers treat their futures and handles? |
| `handles` | capacity 2, 2 owners, 3 places for handles, 2 splits | who may hold a slice, and what survives several consumers? |

Failing, each against something the source says (see `findings` in
`PROJECT.json`):

| run | violated | what happens |
|---|---|---|
| `zero_length` | `WordOrdered` | a slice of length 0, dropped while the word is wrapped (`w < r`), clears `INVERT`; the debug assertion of `load_positions_` would fail |
| `closing_race` | `ClosingMeansDrained` | the reader sees an empty buffer, the writer writes and closes, the reader is told `Closing` with data left |
| `slot_taken` | `SlotIsFree` | two threads park in the one slot; `assert!(x.is_ok())` in `check_demand_` fails |
| `lost_wakeup` | `NoLostWakeup` | a demand is parked after the only `try_signal_` that would have found it |
| `closing_unseen` | `ClosingIsSeen` | a reader that waits on an empty buffer is not told of the writer's end |
| `cancel_waiting` | `PollsAgain` | a waiting future polled again by its token finds its demand in no cell; `assert!(x)` fails |
| `drop_waiting` | `NoDangling` | a waiting future that is dropped leaves its demand in the slot |

### What the passing runs show

`ring`: the two slices never share a cell (`SlicesDisjoint`) and what is copied is
what was sent, in order (`ReadsInOrder`); positions account for every element
through any race of the two loops (`Conserved`); the word stays ordered
(`WordOrdered`); `Stuffed` and `Drained` are said only of a full and an empty
buffer, although only contiguous cells are looked at (`NothingOutOfReach`); no
assertion fails (`NoPanic`); all of it implements the queue (`ImplementsFifo`);
elements sent are received by a reader that goes on (`Delivered`), and the loops
end (`ReclaimEnds`).

`word`: fields keep their place and the word its order for each accepted capacity
(`FieldsKeepTheirPlace`), every change is the move `RwState` describes
(`FieldsMoveAsRwState`) and the flag is set exactly while one guard is held
(`BusyIsHeld`). A thread that prints is done in the end, provided that from some time
on no other waits for the guard and no increment is under way (`GuardIsPassedOn`): no increment
leaves the flag behind, and no release is lost. The proviso is needed: the guard is a
loop that tests and sets without any order among those who wait, and another thread
that prints again and again, or increments that go on, can starve it.

`waiting`: what is copied out is what was written, in order, however the two sides
cut the stream and however often they wait (`ReadsInOrder`); a side waits only
when it must, is woken only when it can go on, and is then woken
(`ImplementsChannel`, which rules out lost wakeups); what a writer leaves behind
when it is dropped is still read (`AllIsRead`), and a writer that waits for room
gets it unless its reader is gone (`WriterProceeds`). No assertion fails
(`NoPanic`), no pointer dangles (`NoDangling`), a waiting demand can be found
(`WaiterIsReachable`), the sides never both wait (`OneWaiter`), and a woken task
finds something (`WokenWithRoom`). Runs `slot_taken` and `lost_wakeup` show that
this relies on the two tasks taking turns.

`anything`: of the above, a waiting demand stays reachable and a held slice stays
good even with two threads, cancellation, dropped futures, unasked polls, peekers and
a second split, as long as nobody asks for a slice of length 0. `NoPanic` and
`NoDangling` do not survive, as the failing runs say.

`handles`: `try_split_from` asks for the strong and then for the weak count, and
other threads may clone, downgrade and upgrade in between, so that its comment,
strong count 1 and weak count 0, need not be true of the moment it splits. Still
no second writer, and without a cloned `Peeker` no second consumer, ever comes of
it (`HandlesAreUnique`), since the first count already excludes every handle. Slices
of different handles lie apart, whatever handles were there before
(`SlicesApart`). Clones of a `Peeker` that become `Reader`s can reclaim the same
elements, which loses others, but the word stays ordered (`WordSurvives`); in that
case and after a second split the assertions of the reclaimers and of
`mark_*_closed` can fail, and otherwise not (`PanicsExplained`). No conversion
closes a side somebody is on (`LiveSideIsOpen`).

### Bounds, and why they suffice

* `ring`: with 3 cells a slice may end before the end of the array, at it, or be
  cut by it, and a wrap may fill the buffer or not. 8 elements are more than two
  turns, so every position is passed with `INVERT` set and clear. `MaxItems` is
  the only cap; lengths go up to capacity + 1, which the writer reduces.
* `word`: 8 bits leave 3 bits for each position, so all accepted capacities and
  the refused ones around them fit. One slice in flight for each side is all the
  code allows.
* `waiting`, `anything`: the word runs through all its values with no bound, so
  the state space is complete for its capacity. The lengths of `anything` go one
  beyond the capacity and leave out 0, as in `handles`. In `waiting` `Labels` is one more
  than the capacity, which is all `ReadsInOrder` needs, and spans go one beyond
  the capacity, so that a span takes several slices and waits.
* `handles`: `MaxSplits` is the only cap. Two splits are needed for a handle to find
  a closed cell, and a third adds no new case; three handles are a writer and two
  consumers; two owners are one that counts and one that interferes. The two cells
  are enough for a slice to end at the array's end and to be one of two. `Lengths`
  leaves out 0, as `zero_length` shows what that does. Owners and places for
  handles are symmetric: no action and no property names one, and the run has
  invariants only.
* `Delivered` and `ReclaimEnds` are checked with the same bounds. `CHECK_DEADLOCK
  FALSE` appears for `Demands`, `AsyncRing` and `Handles`: both handles may be
  dropped, a task may have panicked, a waiter may never be told of a closing, and
  the last pointer may be dropped, so the system may stop.

### Fairness

* `BuffState`: weak fairness of each thread's steps within an operation (the
  operating system schedules both), and a reader that keeps asking (strong, as
  the request is disabled while a call is under way): the loops of the tests do
  this. Nothing is asked of the writer between calls, nor that anyone closes.
* `RwWord`: a printing thread runs on, in its loop and to its release (weak). Nothing
  is asked of the increments, nor of who wins the flag: the operating system schedules
  the threads, and the loop gives them no order.
* `Demands`: a running task goes on (weak); a woken task is polled, a slice held is
  dropped and the next call is made (strong, as the other task's turns disable
  them): the executor's queue is first-in first-out. No fairness on closing,
  cancelling or dropping.
* `AsyncRing`: the same, with the use of a slice beside its drop; the tasks ask again
  until they leave, as the loops of the tests do. Nothing makes a task leave.
* `Channel`: a waiting side that can go on is woken (weak).
* `Handles`: none, it has safety properties only.

## 4. Proofs

### The lock-free ring

`BuffStateProofs` proves, for every capacity, number of elements and set of
lengths and skips, that `Spec` of `BuffState` always satisfies `TypeOK`
(`TypeCorrect`), `SlicesDisjoint` (`NoDataRace`), `ReadsInOrder` (`InOrder`),
`Conserved` (`WordCorrect`), `WordOrdered` (`PositionsOrdered`), `NoPanic`
(`AssertionsHold`) and `NothingOutOfReach` (`Reachable`).

Assumptions: those named in the modules (`Capacity` a positive integer, which
`try_new` enforces; the bounds natural numbers), and `0 \notin Lengths`, stated in
each theorem. The last cannot be dropped: run `zero_length` is the counterexample.

`SlicesDisjoint` is not inductive: it says nothing of why a slice, fixed by a word
long since overwritten, is still good. `IInv` adds:

* `WriterHolds`: the writer's slice starts at the *current* `w` and fits
  `Writable` of the *current* word. Only the writer moves `w`, and what the reader
  does only adds room at the end of what is contiguous. Likewise `ReaderHolds`.
* `Contents`: the cell at distance `d` from `r` holds element `taken + d + 1` for
  each `d < Stored`. Filling a slice touches only cells further away, and moving
  `w` brings the filled ones in.
* `Conserved` and `WordOrdered`, which the moves need to be computed at all;
  `ReaderIdle` and `ClosedOnce`, which say that locals and closing cells are
  where an operation that begins expects them.

`RwStateProofs` holds the lemmas about the operators alone: what each move does to
order, to stored and free cells, to what the other side sees, and to the distance
of each cell. `BuffStateProofs` has one lemma for each action, or group of actions
that leave the same parts alone, and `NextKeeps` puts them together. The temporal
theorems follow by PTL.

### The ring is a queue

`FifoProofs` proves `Spec => ImplementsFifo` (`Implementation`), under the same
`0 \notin Lengths`: of all the single accesses of `BuffState`, `WriterAdvance` is a
`Put`, `ReaderAdvance` a `Take`, the closings are the closings, and the others
leave the queue alone. `Fifo` states no fairness, so this is the whole of the
refinement. The queue `StoredItems` is computed with remainders and a wrap;
`QueueFollows`, from `IInv`, says it is `Following(taken, Stored(word))`, the
numbers that come after those taken. Then a `Put` is the concatenation of two such
runs (`FollowingPut`) and a `Take` the tail of one (`FollowingTake`).

### The handles

`HandlesProofs` proves every invariant of run `handles` for any sets of owners and
handles, any capacity and any bound on the splits, from the assumptions named in
the modules: `TypeOK` (`TypeCorrect`), `HandlesAreUnique` (`Unique`), `SlicesApart`
(`Apart`), `WordSurvives` (`Survives`), `LiveSideIsOpen` (`OpenWhileLive`) and
`PanicsExplained` (`Explained`). Its `IInv` adds to them:

* `CountsAlone`: an owner between its two counts is the only one there, and no
  handle lives. The pointers the others may get meanwhile matter to nobody: they
  can neither pass the first count nor make a handle. This is why asking for two
  counts one after the other does no harm.
* `WriterHolds` and `ConsumerHolds`: where a slice lies with respect to the
  *current* word. The first holds always; the second only while no `Peeker` has
  been cloned, for another consumer may move the position under a slice.
* `SlicesOwned` and `Started`: only handles lend, and nothing is closed before the
  first split.

`WordSurvives` is inductive because a move of either position keeps the word ordered
even for an amount that no longer fits (`AnyReaderMoves`), which is what the
clamping in `try_inc_reader_pos` achieves. `Apart` follows from
`IInv` since the cells from `r` and the cells from `w` are apart in an ordered word.

### The waiting

`DemandsProofs` proves for every capacity what the runs check of `Demands`, each
property under a hypothesis on callers of its own. All of them assume `AsksForSome`,
`0 \notin Lengths`: `zero_length` shows that the drop of an empty slice can leave the
word disordered, and `Demands` does not say what the code does after that, so that
nothing is claimed of it. On instances of `MCDemands` with the constants set
accordingly (two or three cells) TLC confirms each theorem, and refutes it when one
of the conditions of the table is left out. There is one exception: with tokens
cancelled or unasked polls on one thread `SlotIsFree` still holds (the assertion of
`PollsAgain` fails first), which is not proved.

| theorem | property | threads | futures cancelled, dropped, polled unasked | futures peek | split again |
|---|---|---|---|---|---|
| `TypesHold`, `WaitersAreReachable`, `SlicesStayGood` | `TypeOK`, `WaiterIsReachable`, `SliceStaysGood` | two | yes | yes | yes |
| `SlicesAreTakenBack` | the assertion of the reclaimers | two | yes | yes | yes |
| `NoneDangles` | `NoDangling` | two | no | yes | yes |
| `NoneWakesInVain` | `WokenWithRoom` | two | no | no | yes |
| | | one | yes | no | yes |
| `PollsMayRepeat` | `PollsAgain` | two | no | no | yes |
| | | one | dropped | no | yes |
| `OneWaits` | `OneWaiter` | one | yes | no | yes |
| `SlotIsLeft` | `SlotIsFree` | one | no | no | yes |
| `NoneAsserts` | `NoPanic` | one | no | no | no |

`NoPanic` is the conjunction of five assertions. Of four the table says what each
needs: the reclaimers' `AsksForSome` only, that of `check_*` futures that are neither
cancelled nor polled unasked, the slot one thread and no dropped future as well, and
that of `mark_*_closed` handles split only once. The fifth, on the enqueueing, is
proved with the others in `NoneAsserts`. The runs `cancel_waiting` and `slot_taken` show two of these needs,
`drop_waiting` that of `NoDangling`. The invariants build on each other:

* `Sound` holds of all `Uses`. Reachability is not inductive, as it says nothing of
  a demand that is about to wait, nor where a signal goes: `Sound` adds that it
  holds from `park` on (`ParkedIsReachable`), that a `try_signal_` under way has
  found a demand (`PointerKnown`), that demands and signals belong to a future
  (`DemandHeld`, `SignalHeld`), and that slices that move a position are not empty
  (`SlicesMove`), since an empty one could turn the word.
* `Loyal`, when no future is cancelled, dropped or polled unasked: the slot holds only demands that
  wait unanswered (`SlotWaits`), and a `try_signal_` that has found one keeps it
  from ending until the signal is sent (`PointersWait`), for only the signal wakes
  its future (`NeverLeft`).
* `AnsweredForRoom`, when no future peeks: whoever is answered has something, since
  only its own side takes from it. The step that could break it is a new demand in
  the place of one whose check has passed; either `Loyal` or a single thread rules
  it out (`NoneDisturbs`). A peeking future is excluded because its check is a
  closure in a frame that has gone when the demand is asked, and answers anything.
* `PolledWithAnswer`, when neither a token nor a caller starts a poll (`NeverLeft`): a future is polled
  again only with its answer, and finds its slice.
* `Attended`, on one thread: a task that parks has nothing to do, and if there is
  something for one that waits unanswered, the other task is in `try_signal_`, on
  its way to that very demand (`OnItsWay`). Hence the slot is free: if the other
  waited too, both would have nothing to do, which no word allows.
* `InTurns`, for `TakingTurns`, says all there is to say of such tasks: where each
  variable stands by the task's place (`OneRuns`, `CellsFollow`, `DemandsFollow`,
  `WaitsInVain`, `SlotFollows`, `PointersFollow`). `NoPanic` needs the cells, and the
  refinement below the rest.

### The stream

`AsyncRingProofs` proves, for every capacity, all spans and any number of labels
greater than the capacity, `RingTypeOK` (`RingTypesHold`) and `ReadsInOrder`
(`ReadsAreInOrder`), also between two threads. The invariant `InStream` puts
`Sound` and the cells together: the cell at distance `d` from `r` holds the label
of the `d`-th element after those read (`CellsHold`), a filled slice the labels
that come next (`SliceFilled`), and no slice is longer than the rest of the span
(`SpanLeft`).

The steps of the ring are steps of callers of `Demands` (`RingStepIsStep`) who await
every future and do not peek, so it has on two threads what `Loyal` and
`AnsweredForRoom` say (`RingSignals`), and with `Parallel` false also what `InTurns`
says (`RingWaits`). `KeepsPromise` is the refinement of `Channel`, but for its
fairness: each step is a step of `Channel` or a stutter. Moving a position is `Put`
or `Take`, `Await` and `Repoll` start and stop a wait, `Close` closes, and
`UnseenFrame` shows that the others change nothing `Channel` speaks of. That nobody
starts to wait after a closing needs one more invariant, `NoneClosed`.

### The word

`RwWordProofs` proves for every accepted length, any number of printing threads and
every interleaving of the compare-exchange loops `TypeOK` (`WordTypesHold`),
`FieldsKeepTheirPlace` (`FieldsStayApart`), `BusyIsHeld` (`GuardExcludes`) and the
action property `FieldsMoveAsRwState` (`WordMovesAsRwState`): what the program does
with bits is what `RwState`, on which the other modules stand, does with a record.

The hypothesis is `Layout`, which relates the masks: two fields of one size,
`IO_BUSY` above them, `INVERT` above it. `NarrowLayout` proves it for words of 8, 16
and 32 bits. For 64 bits it is `2^62 = 2^31 * 2^31` and the like, which the prover,
that computes powers in floating point, cannot confirm; everything else is proved
in terms of `BuffSizeMod` alone.

Every word is `Joined` from two positions and two flags. `Loads` shows that the
accessors find what was joined, `StoresWriter`, `StoresReader`, `StoresInvert` and
`StoresIoBusy` that a store changes its own part. `InPlace`, the inductive
invariant, says that the word has nothing but its four parts, each in its range
and in order (`IsApart`), and that no increment under way exceeds what its side may
take of the *current* word (`AsksForRoom`). The second is why a retried
compare-exchange, which applies an old amount to a new word, still does not leave
the buffer: what the other side does never takes from it (`WriterPacks`,
`ReaderPacks`).

### Only model-checked

* Liveness, which is not in the prover's reach: `Delivered`, `ReclaimEnds`,
  `GuardIsPassedOn`, `WriterProceeds`, `AllIsRead`, and the fairness of `Channel` in
  `ImplementsChannel`. No other property of a passing run is without a theorem.
* `Layout` for a word of 64 bits, as said: it is beyond TLC's integers too.

## 5. Not modelled

* Several consumers that *wait*: clones of a `Peeker` share one `consumer_` cell and
  one future each; `Handles` has them try only, and `Demands` has one consumer.
* Slices of length 0 of `write_async(0)` and `read_async(0)` in the runs of `Demands`,
  and in general what the code does once such a slice has disordered the word, where
  its subtractions wrap: `zero_length` ends where the first wrong word appears.
* `AsRef<[T]>` of the buffer, which shows all cells at any time (a hazard without a
  property: nothing restrains it).
* Slices a caller fills in part, `mem::forget` of handles and slices, and what a
  `Drop` does while a panic unwinds.
* The sequential unit tests, and the chunk helpers of `abs_buff`, which are taken
  to be the loops the other tests write out; the traits and the re-exports, which
  keep no state; formatting, except for the guard it takes.
* Memory orderings weaker than sequential consistency.

## 6. Plan

Done: `RwState`, `BuffState` with `Fifo`, `RwWord`, `Demands`, `AsyncRing` with
`Channel`, `Handles`, and the proofs of every safety property their passing runs
check. Next, in this order:

1. `WaiterIsReachable` as an action property: which steps may take a demand out of
   the slot, and that each answers it or belongs to its owner;
2. prove that `Demands` implements the part of `Channel` that holds on two threads
   (nobody is woken in vain), as the ring does on one;
3. relate `Demands` and `Handles`, which model the same handles at two grains.
