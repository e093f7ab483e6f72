------------------------------ MODULE Demands ------------------------------
(***************************************************************************)
(* The waiting of the ring buffer: WriteFuture, ReadFuture and PeekFuture  *)
(* (writer_.rs, reader_.rs, peeker_.rs), the demands they queue in         *)
(* `BuffState` (sync_.rs), the signals that answer them, and the drop of   *)
(* futures and handles.                                                    *)
(*                                                                         *)
(* A future that finds too little puts a Demand into the cell of its side  *)
(* (enqueue_), takes it out again to test it (check_), parks it in the     *)
(* `unsignal_` slot both sides share, and waits.  A side that moves its    *)
(* position, or closes, looks into the slot (try_signal_) and sends the    *)
(* signal of the demand it finds when the demand's check passes.           *)
(*                                                                         *)
(* One action is one access to what the sides share: the word, the slot,   *)
(* the closing cells, a signal.  The compare-exchange loop that moves the  *)
(* word is one step here; module BuffState takes it apart.  What a slice   *)
(* holds is left out.  A demand is known by its side: a future is made in  *)
(* the place of the one before it, and so is its demand.                   *)
(*                                                                         *)
(* External: the executor, the cancellation token, and the Oneshot of      *)
(* asyncex, whose send is taken to wake the task that polled it last.      *)
(***************************************************************************)
EXTENDS RwState

CONSTANTS
  Parallel,   \* the two tasks run on different threads of the executor
  Lengths,    \* the lengths asked of write_async and read_async
  Skips,      \* the skips asked of peek_async
  Uses        \* what callers do beyond reading, writing and closing

AllUses == {"cancel", "drop", "poll", "peek", "reopen"}

ASSUME DemandsAssumption ==
  /\ Parallel \in BOOLEAN
  /\ Lengths \subseteq Nat
  /\ Skips \subseteq Nat
  /\ Uses \subseteq AllUses

Sides == {"writer", "reader"}
Other(side) == IF side = "writer" THEN "reader" ELSE "writer"

VARIABLES
  word,       \* position_
  cell,       \* producer_ and consumer_: "null", "demand" or "closed"
  slot,       \* unsignal_: "null", or the side whose demand it points at
  pc,         \* where the task of each side is
  held,       \* the length of the slice each side holds
  demand,     \* demand_ of each side's future: FALSE when None or freed
  signal,     \* the signal of the demand has been sent
  woken,      \* the executor will poll the task again
  cancelled,  \* the token given to the future has been cancelled
  ptr,        \* the demand try_signal_ has found in the slot
  dropped,    \* the handle of each side is being dropped, or has been
  kind,       \* what the consumer's handle is: "reader" or "peeker"
  peeking,    \* the consumer's future is a PeekFuture
  skip        \* its skip_

future == <<demand, signal, woken, cancelled>>
asked  == <<dropped, kind, peeking, skip>>
vars   == <<word, cell, slot, pc, held, future, ptr, asked>>

Init ==
  /\ word = EmptyWord
  /\ cell = [side \in Sides |-> "null"]
  /\ slot = "null"
  /\ pc = [side \in Sides |-> "idle"]
  /\ held = [side \in Sides |-> 0]
  /\ demand = [side \in Sides |-> FALSE]
  /\ signal = [side \in Sides |-> FALSE]
  /\ woken = [side \in Sides |-> FALSE]
  /\ cancelled = [side \in Sides |-> FALSE]
  /\ ptr = [side \in Sides |-> "null"]
  /\ dropped = [side \in Sides |-> FALSE]
  /\ kind = "reader" /\ peeking = FALSE /\ skip = 0

Goto(side, where) == pc' = [pc EXCEPT ![side] = where]

-----------------------------------------------------------------------------
(* The tests on the word *)

Room(side) == IF side = "writer" THEN Writable(word) ELSE Readable(word)

Skipped(side) == IF side = "reader" THEN skip ELSE 0

(* try_write, try_read and try_peek. *)
Obtains(side) == Room(side) > 0 /\ Room(side) >= Skipped(side)

(* A faulty variant: one cell too many. *)
GrantsOneMore(side) == 1 .. Room(side) + 1

(* How long the slice is: as much as was asked for, or what lies beyond the  *)
(* skip.  The drop of a slice of nothing can leave the word disordered; what *)
(* the code does from there on, its subtractions wrapping, is left out.      *)
Grants(side) ==
  IF side = "reader" /\ peeking
  THEN {Room(side) - skip}
  ELSE {MinOf(Room(side), n) : n \in Lengths}

(* The check of the demand: producer_check, consumer_check, and the closure  *)
(* of peek_async_.                                                           *)
Checks(side) == Room(side) > Skipped(side)

(* What that check gives when try_signal_ calls it.  The closure of a        *)
(* PeekFuture lives in the frame of the poll that made it; afterwards, as    *)
(* after the demand itself has been freed, the answer is anything.           *)
CheckAnswers(side) ==
  IF demand[side]
       /\ ~(side = "reader" /\ peeking
              /\ pc[side] \notin {"check", "park", "await"})
  THEN {Checks(side)}
  ELSE BOOLEAN

IsClosing == \E side \in Sides : cell[side] = "closed"

-----------------------------------------------------------------------------
(* The futures *)

(* dequeue_demand_: the demand is taken out of the cell of its side, and of  *)
(* nowhere else.                                                             *)
Dequeue(side) ==
  cell' = [cell EXCEPT ![side] = IF @ = "demand" THEN "null" ELSE @]

(* The future is dropped, and its demand with it: PinnedDrop.                *)
FutureEnds(side) ==
  /\ Dequeue(side)
  /\ demand' = [demand EXCEPT ![side] = FALSE]
  /\ signal' = [signal EXCEPT ![side] = FALSE]
  /\ woken' = [woken EXCEPT ![side] = FALSE]
  /\ cancelled' = [cancelled EXCEPT ![side] = FALSE]

(* The skip goes with the future; a slice of a PeekFuture is still known as  *)
(* one.                                                                      *)
AskEnds(side) ==
  /\ skip' = IF side = "reader" THEN 0 ELSE skip
  /\ peeking' = IF side = "reader" THEN FALSE ELSE peeking
  /\ UNCHANGED <<dropped, kind>>

(* write_async and read_async, awaited. *)
Begin(side) ==
  /\ pc[side] = "idle"
  /\ Goto(side, "poll")
  /\ UNCHANGED <<word, cell, slot, held, future, ptr, asked>>

(* peek_async, awaited: of a Peeker, or of a Reader, which is one as well.   *)
BeginPeek(k) ==
  /\ pc["reader"] = "idle"
  /\ Goto("reader", "poll")
  /\ peeking' = TRUE
  /\ skip' = k
  /\ UNCHANGED <<word, cell, slot, held, future, ptr, dropped, kind>>

(* The try_ at both ends of the async function. *)
Try(side, otherwise) ==
  /\ IF Obtains(side)
     THEN /\ \E n \in Grants(side) : held' = [held EXCEPT ![side] = n]
          /\ Goto(side, "holding")
          /\ FutureEnds(side)
     ELSE /\ Goto(side, otherwise)
          /\ UNCHANGED <<held, cell, future>>
  /\ UNCHANGED <<word, slot, ptr, asked>>

(* A faulty variant: the closing is looked at before the buffer. *)
PollClosingFirst(side) ==
  /\ pc[side] = "poll"
  /\ IF IsClosing
     THEN /\ Goto(side, "refused")
          /\ UNCHANGED <<word, cell, slot, held, future, ptr, asked>>
     ELSE Try(side, "refused")

(* Each poll starts the async function anew. *)
Poll(side) == pc[side] = "poll" /\ Try(side, "refused")

(* Too little, and a side has closed: the call ends. *)
FindsClosing(side) ==
  /\ pc[side] = "refused"
  /\ IsClosing
  /\ Goto(side, "idle")
  /\ FutureEnds(side)
  /\ AskEnds(side)
  /\ UNCHANGED <<word, slot, held, ptr>>

(* Too little at the first poll: it makes a demand and enqueues it, and      *)
(* asserts that the cell was empty.                                          *)
Enqueue(side) ==
  /\ pc[side] = "refused"
  /\ ~IsClosing /\ ~demand[side]
  /\ demand' = [demand EXCEPT ![side] = TRUE]
  /\ IF cell[side] = "null"
     THEN cell' = [cell EXCEPT ![side] = "demand"] /\ Goto(side, "check")
     ELSE Goto(side, "panic_enqueue") /\ UNCHANGED cell
  /\ UNCHANGED <<word, slot, held, signal, woken, cancelled, ptr, asked>>

(* Too little at a later poll: it goes straight to check_, whose assertion   *)
(* finds that the demand is in the cell no more.                             *)
CheckAgain(side) ==
  /\ pc[side] = "refused"
  /\ ~IsClosing /\ demand[side]
  /\ Goto(side, "panic_check")
  /\ UNCHANGED <<word, cell, slot, held, future, ptr, asked>>

(* check_demand_: out of the cell; a demand whose check passes is signalled  *)
(* at once.                                                                  *)
Check(side) ==
  /\ pc[side] = "check"
  /\ cell' = [cell EXCEPT ![side] = "null"]
  /\ IF Checks(side)
     THEN /\ signal' = [signal EXCEPT ![side] = TRUE]
          /\ Goto(side, "await")
     ELSE /\ Goto(side, "park")
          /\ UNCHANGED signal
  /\ UNCHANGED <<word, slot, held, demand, woken, cancelled, ptr, asked>>

(* A faulty variant: the demand is not parked. *)
ParkNowhere(side) ==
  /\ pc[side] = "park"
  /\ Goto(side, "await")
  /\ UNCHANGED <<word, cell, slot, held, future, ptr, asked>>

(* The rest of check_demand_: try_spin_init of the slot, asserted.           *)
Park(side) ==
  /\ pc[side] = "park"
  /\ IF slot = "null"
     THEN slot' = side /\ Goto(side, "await")
     ELSE Goto(side, "panic_slot") /\ UNCHANGED slot
  /\ UNCHANGED <<word, cell, held, future, ptr, asked>>

(* The signal is polled under the cancellation token. *)
Await(side) ==
  /\ pc[side] = "await"
  /\ \/ signal[side] /\ Goto(side, "resume")
     \/ cancelled[side] /\ Goto(side, "abort")
     \/ ~signal[side] /\ ~cancelled[side] /\ Goto(side, "waiting")
  /\ UNCHANGED <<word, cell, slot, held, future, ptr, asked>>

(* The executor polls the task again. *)
Repoll(side) ==
  /\ pc[side] = "waiting"
  /\ woken[side]
  /\ woken' = [woken EXCEPT ![side] = FALSE]
  /\ Goto(side, "poll")
  /\ UNCHANGED <<word, cell, slot, held, demand, signal, cancelled, ptr, asked>>

(* Its caller polls it unasked (a join or select that another future woke).  *)
PollUnasked(side) ==
  /\ "poll" \in Uses
  /\ pc[side] = "waiting"
  /\ Goto(side, "poll")
  /\ UNCHANGED <<word, cell, slot, held, future, ptr, asked>>

(* abort_demand, once the signal or the token has answered. *)
Abort(side) ==
  /\ pc[side] \in {"resume", "abort"}
  /\ slot' = IF slot = side THEN "null" ELSE slot
  /\ IF pc[side] = "resume"
     THEN /\ Goto(side, "retry")
          /\ UNCHANGED <<cell, future, asked>>
     ELSE /\ Goto(side, "idle")
          /\ FutureEnds(side)
          /\ AskEnds(side)
  /\ UNCHANGED <<word, held, ptr>>

Retry(side) == pc[side] = "retry" /\ Try(side, "denied")

Denied(side) ==
  /\ pc[side] = "denied"
  /\ Goto(side, "idle")
  /\ FutureEnds(side)
  /\ AskEnds(side)
  /\ UNCHANGED <<word, slot, held, ptr>>

(* The caller cancels.  A task that waits is woken by it. *)
Cancel(side) ==
  /\ "cancel" \in Uses
  /\ pc[side] \in {"poll", "refused", "check", "park", "await", "waiting"}
  /\ ~cancelled[side]
  /\ cancelled' = [cancelled EXCEPT ![side] = TRUE]
  /\ woken' = [woken EXCEPT ![side] = @ \/ pc[side] = "waiting"]
  /\ UNCHANGED <<word, cell, slot, pc, held, demand, signal, ptr, asked>>

(* The caller drops a future that waits (a select, a timeout). *)
DropPending(side) ==
  /\ "drop" \in Uses
  /\ pc[side] = "waiting"
  /\ Goto(side, "idle")
  /\ FutureEnds(side)
  /\ AskEnds(side)
  /\ UNCHANGED <<word, slot, held, ptr>>

-----------------------------------------------------------------------------
(* The slices, the signals and the handles *)

(* A faulty variant: the position moves past all there is.                   *)
ReclaimRoom(side) ==
  /\ pc[side] = "holding"
  /\ ~(side = "reader" /\ peeking)
  /\ held' = [held EXCEPT ![side] = 0]
  /\ word' = IF side = "writer" THEN WriterMoved(word, Room(side))
                                ELSE ReaderMoved(word, Room(side))
  /\ Goto(side, "signal")
  /\ UNCHANGED <<cell, slot, future, ptr, asked>>

(* The slice is dropped: reclaim_ref and reclaim_mut, which assert that the  *)
(* position can be moved.                                                    *)
Reclaim(side) ==
  /\ pc[side] = "holding"
  /\ ~(side = "reader" /\ peeking)
  /\ held' = [held EXCEPT ![side] = 0]
  /\ IF Room(side) = 0
     THEN Goto(side, "panic_reclaim") /\ UNCHANGED word
     ELSE /\ word' = IF side = "writer" THEN WriterMoved(word, held[side])
                                        ELSE ReaderMoved(word, held[side])
          /\ Goto(side, "signal")
  /\ UNCHANGED <<cell, slot, future, ptr, asked>>

(* A slice of a PeekFuture is dropped: it carries no reclaimer. *)
EndPeek ==
  /\ pc["reader"] = "holding"
  /\ peeking
  /\ held' = [held EXCEPT !["reader"] = 0]
  /\ Goto("reader", "idle")
  /\ AskEnds("reader")
  /\ UNCHANGED <<word, cell, slot, future, ptr>>

(* Where try_signal_ returns to: the drop of the handle, or a reclaim, which *)
(* leaves the handle alive.                                                  *)
SignalDone(side) ==
  /\ Goto(side, IF dropped[side] THEN "closed" ELSE "idle")
  /\ ptr' = [ptr EXCEPT ![side] = "null"]

(* Faulty variants: nobody is signalled; the check is not asked; the slot is *)
(* not emptied; the task is not woken. *)
SignalNobody(side) ==
  /\ pc[side] = "signal"
  /\ SignalDone(side)
  /\ UNCHANGED <<word, cell, slot, held, future, asked>>

SignalUnchecked(side) ==
  /\ pc[side] = "signal_check"
  /\ Goto(side, "signal_take")
  /\ UNCHANGED <<word, cell, slot, held, future, ptr, asked>>

SignalLeaves(side) ==
  /\ pc[side] = "signal_take"
  /\ Goto(side, "signal_send")
  /\ UNCHANGED <<word, cell, slot, held, future, ptr, asked>>

SignalSilently(side) ==
  /\ pc[side] = "signal_send"
  /\ signal' = [signal EXCEPT ![ptr[side]] = demand[ptr[side]]]
  /\ SignalDone(side)
  /\ UNCHANGED <<word, cell, slot, held, demand, woken, cancelled, asked>>

(* try_signal_: the load of the slot, *)
SignalLoad(side) ==
  /\ pc[side] = "signal"
  /\ IF slot = "null"
     THEN SignalDone(side)
     ELSE ptr' = [ptr EXCEPT ![side] = slot] /\ Goto(side, "signal_check")
  /\ UNCHANGED <<word, cell, slot, held, future, asked>>

(* the check of the demand found there, *)
SignalCheck(side) ==
  /\ pc[side] = "signal_check"
  /\ \E yes \in CheckAnswers(ptr[side]) :
       IF yes THEN Goto(side, "signal_take") /\ UNCHANGED ptr
              ELSE SignalDone(side)
  /\ UNCHANGED <<word, cell, slot, held, future, asked>>

(* the compare-exchange that empties the slot, *)
SignalTake(side) ==
  /\ pc[side] = "signal_take"
  /\ IF slot = ptr[side]
     THEN slot' = "null" /\ Goto(side, "signal_send") /\ UNCHANGED ptr
     ELSE SignalDone(side) /\ UNCHANGED slot
  /\ UNCHANGED <<word, cell, held, future, asked>>

(* and the send.                                                             *)
SignalSend(side) ==
  /\ pc[side] = "signal_send"
  /\ LET to == ptr[side]
     IN  /\ signal' = [signal EXCEPT ![to] = demand[to]]
         /\ woken' = [woken EXCEPT ![to] = @ \/ pc[to] = "waiting"]
  /\ SignalDone(side)
  /\ UNCHANGED <<word, cell, slot, held, demand, cancelled, asked>>

(* Writer and Reader are dropped: mark_producer_closed, mark_consumer_closed.*)
(* The mark is never taken back: a cell that a handle of an earlier split    *)
(* has closed fails the assertion.                                           *)
Close(side) ==
  /\ pc[side] = "idle"
  /\ side = "reader" => kind = "reader"
  /\ IF cell[side] = "null"
     THEN cell' = [cell EXCEPT ![side] = "closed"] /\ Goto(side, "signal")
     ELSE Goto(side, "panic_close") /\ UNCHANGED cell
  /\ dropped' = [dropped EXCEPT ![side] = TRUE]
  /\ UNCHANGED <<word, slot, held, future, ptr, kind, peeking, skip>>

(* A Peeker is dropped: it has no Drop. *)
DropPeeker ==
  /\ pc["reader"] = "idle"
  /\ kind = "peeker"
  /\ Goto("reader", "closed")
  /\ dropped' = [dropped EXCEPT !["reader"] = TRUE]
  /\ UNCHANGED <<word, cell, slot, held, future, ptr, kind, peeking, skip>>

(* into_peeker, and the From of either direction. *)
Convert ==
  /\ "peek" \in Uses
  /\ pc["reader"] = "idle"
  /\ kind' = IF kind = "reader" THEN "peeker" ELSE "reader"
  /\ UNCHANGED <<word, cell, slot, pc, held, future, ptr, dropped, peeking,
                 skip>>

(* Both handles are gone and the buffer is split once more. *)
Reopen ==
  /\ "reopen" \in Uses
  /\ \A side \in Sides : pc[side] = "closed"
  /\ pc' = [side \in Sides |-> "idle"]
  /\ dropped' = [side \in Sides |-> FALSE]
  /\ kind' = "reader"
  /\ UNCHANGED <<word, cell, slot, held, future, ptr, peeking, skip>>

-----------------------------------------------------------------------------
(* The scheduling *)

Panics == {"panic_enqueue", "panic_check", "panic_slot", "panic_close",
           "panic_reclaim"}

(* Where a task can be while the one thread of the executor runs another.    *)
Resting == {"idle", "holding", "waiting", "closed"} \cup Panics

MayRun(side) == Parallel \/ pc[Other(side)] \in Resting

(* What goes on once it has begun. *)
Step(side) ==
  \/ Poll(side) \/ FindsClosing(side) \/ Enqueue(side) \/ CheckAgain(side)
  \/ Check(side) \/ Park(side) \/ Await(side)
  \/ Abort(side) \/ Retry(side) \/ Denied(side)
  \/ SignalLoad(side) \/ SignalCheck(side) \/ SignalTake(side)
  \/ SignalSend(side)

(* What the caller does next with the handle. *)
Continue(side) == Begin(side) \/ Reclaim(side) \/ Repoll(side)

Peek == EndPeek \/ DropPeeker \/ Convert \/ \E k \in Skips : BeginPeek(k)

Next ==
  \/ \E side \in Sides :
       /\ MayRun(side)
       /\ \/ Step(side) \/ Continue(side) \/ Close(side)
          \/ Cancel(side) \/ DropPending(side) \/ PollUnasked(side)
  \/ MayRun("reader") /\ Peek
  \/ Reopen

Spec == Init /\ [][Next]_vars

(***************************************************************************)
(* Fairness: a task that is running goes on running; a task that has been  *)
(* woken is polled, and one that holds a slice drops it, however often the *)
(* other runs in between (the executor's queue is first-in first-out); and *)
(* each side keeps reading or writing until it closes.                     *)
(***************************************************************************)
FairSpec ==
  /\ Spec
  /\ \A side \in Sides :
       /\ WF_vars(Step(side))
       /\ SF_vars(MayRun(side) /\ Reclaim(side))
       /\ SF_vars(MayRun(side) /\ Repoll(side))
       /\ SF_vars(MayRun(side) /\ Begin(side))

-----------------------------------------------------------------------------
(* Properties *)

TypeOK ==
  /\ word \in Words
  /\ cell \in [Sides -> {"null", "demand", "closed"}]
  /\ slot \in Sides \cup {"null"}
  /\ pc \in [Sides -> {"poll", "refused", "check", "park", "await", "resume",
                       "abort", "retry", "denied", "signal", "signal_check",
                       "signal_take", "signal_send"} \cup Resting]
  /\ held \in [Sides -> 0 .. Capacity]
  /\ demand \in [Sides -> BOOLEAN]
  /\ signal \in [Sides -> BOOLEAN]
  /\ woken \in [Sides -> BOOLEAN]
  /\ cancelled \in [Sides -> BOOLEAN]
  /\ ptr \in [Sides -> Sides \cup {"null"}]
  /\ dropped \in [Sides -> BOOLEAN]
  /\ kind \in {"reader", "peeker"}
  /\ peeking \in BOOLEAN
  /\ skip \in Skips \cup {0}

(* No assertion of the waiting protocol fails: not the one of check_demand_  *)
(* on the slot, nor those on the enqueueing, the closing and the reclaiming. *)
NoPanic == \A side \in Sides : pc[side] \notin Panics

(* assert!(x.is_ok()) in check_demand_: the slot is free for the demand.     *)
SlotIsFree == \A side \in Sides : pc[side] # "panic_slot"

(* The assertions on check_producer and check_consumer: a future can be      *)
(* polled again while it waits.                                              *)
PollsAgain == \A side \in Sides : pc[side] # "panic_check"

(* A demand that leaves its future's hands is out of the slot: neither the   *)
(* slot nor a try_signal_ under way points at a freed demand.                *)
NoDangling ==
  /\ slot # "null" => demand[slot]
  /\ \A side \in Sides :
       pc[side] \in {"signal_check", "signal_take", "signal_send"}
         => demand[ptr[side]]

(* A demand that waits can be found: it is in the slot, or its signal has    *)
(* been sent or is about to be.                                              *)
WaiterIsReachable ==
  \A side \in Sides :
    pc[side] = "waiting" =>
      \/ slot = side
      \/ signal[side]
      \/ /\ pc[Other(side)] = "signal_send"
         /\ ptr[Other(side)] = side

(* The slot holds one demand, and one is enough: when both sides wait, the   *)
(* signal of one of them has been sent.                                      *)
OneWaiter ==
  (\A side \in Sides : pc[side] \in {"park", "await", "waiting"})
    => \E side \in Sides : signal[side]

(* A signal is never sent for nothing: the task it wakes finds its slice.    *)
WokenWithRoom ==
  \A side \in Sides :
    /\ signal[side] /\ pc[side] \in {"waiting", "await", "resume", "retry"}
         => Obtains(side)
    /\ pc[side] # "denied"

(* A slice held stays good while the other side waits, is woken and moves.   *)
SliceStaysGood ==
  \A side \in Sides :
    pc[side] = "holding" /\ held[side] > 0 => held[side] <= Room(side)

(* A task that waits for what is there is woken.                             *)
NoLostWakeup ==
  \A side \in Sides :
    pc[side] = "waiting" /\ Checks(side) ~> pc[side] # "waiting"

(* A writer that waits for room gets it, unless its reader is dropped.       *)
WriterProceeds ==
  pc["writer"] = "waiting" ~> (pc["writer"] = "holding" \/ cell["reader"] = "closed")

(* A task that waits learns that the other side has closed.                  *)
ClosingIsSeen ==
  \A side \in Sides :
    pc[side] = "waiting" /\ cell[Other(side)] = "closed" ~> pc[side] # "waiting"
=============================================================================
